---------------------------- MODULE Promotion ----------------------------
(***************************************************************************)
(* orbit release demo and orbit release prod (release/application), run by *)
(* several operators on one library.  demo reads main and demo, reads the  *)
(* checks of the main commit it read, opens a pull request from main to    *)
(* demo and merges it; prod merges the bot's release pull request through  *)
(* the gate (MergeGate) and dispatches the publish workflow.               *)
(*                                                                         *)
(* The forge is external: main grows, what the checks of a commit say is a *)
(* choice, the bot opens the next release.  Commits of main are numbered.  *)
(***************************************************************************)
EXTENDS Naturals

CONSTANTS
  Operators,      \* those who run the commands
  MaxMain,        \* bound: commits on main
  MaxPulls        \* bound: pull requests ever opened from main to demo

VARIABLES
  main,           \* the head of main
  demo,           \* the last commit of main that demo contains, 0: no branch
  demoIsMain,     \* demo points at that very commit, not at a merge of it
  pulls,          \* how many pull requests from main to demo were opened
  open,           \* the last of them is open
  release,        \* the release pull request: "none", "open" or "merged"
  merged,         \* how many releases were merged
  published,      \* how many of them the last dispatched publication covers
  passed,         \* history: commits whose checks a command saw passed
  recorded,       \* history: pull requests with an override comment
  job             \* the command each operator is running

vars == <<main, demo, demoIsMain, pulls, open, release, merged, published,
          passed, recorded, job>>

Steps == {"idle", "DemoSHA", "CreateBranch", "CommitChecks", "CreatePR",
          "Comment", "MergeDemo", "MergeRelease", "Dispatch", "done"}

(* sha: the commit of main that was read; pr: the pull request the command *)
(* works on, for prod the release; override: a reason was given; allowed:  *)
(* the checks of sha had passed.                                           *)
Idle == [step |-> "idle", sha |-> 0, pr |-> 0, override |-> FALSE,
         allowed |-> FALSE]

At(o, step) == job[o].step = step
Goto(o, step) == job' = [job EXCEPT ![o].step = step]
End(o) == job' = [job EXCEPT ![o] = Idle]

branches == <<main, demo, demoIsMain>>
requests == <<pulls, open>>
releases == <<release, merged, published>>
history == <<passed, recorded>>

Init ==
  /\ main = 1
  /\ demo \in {0, 1}
  /\ demoIsMain = (demo = 1)
  /\ pulls = 0
  /\ open = FALSE
  /\ release \in {"none", "open"}
  /\ merged = 0
  /\ published = 0
  /\ passed = {}
  /\ recorded = {}
  /\ job = [o \in Operators |-> Idle]

-----------------------------------------------------------------------------
(* orbit release demo *)
MainSHA(o) ==
  /\ At(o, "idle")
  /\ \E override \in BOOLEAN :
       job' = [job EXCEPT ![o] = [Idle EXCEPT !.step = "DemoSHA", !.sha = main,
                                              !.override = override]]
  /\ UNCHANGED <<branches, requests, releases, history>>

(* A demo that points at the commit is up to date; one that contains it in *)
(* a merge is not, and goes on.                                            *)
DemoSHA(o) ==
  /\ At(o, "DemoSHA")
  /\ \/ demo = 0 /\ Goto(o, "CreateBranch")
     \/ demo # 0 /\ demoIsMain /\ demo = job[o].sha /\ End(o)
     \/ demo # 0 /\ ~(demoIsMain /\ demo = job[o].sha) /\ Goto(o, "CommitChecks")
  /\ UNCHANGED <<branches, requests, releases, history>>

(* The branch starts at the commit that was read; its checks are not. *)
CreateBranch(o) ==
  /\ At(o, "CreateBranch")
  /\ demo = 0
  /\ demo' = job[o].sha
  /\ demoIsMain' = TRUE
  /\ End(o)
  /\ UNCHANGED <<main, requests, releases, history>>

(* Without passing checks or a reason the command refuses. *)
CommitChecks(o) ==
  /\ At(o, "CommitChecks")
  /\ \E allowed \in BOOLEAN :
       /\ allowed \/ job[o].override
       /\ passed' = IF allowed THEN passed \union {job[o].sha} ELSE passed
       /\ job' = [job EXCEPT ![o].step = "CreatePR", ![o].allowed = allowed]
  /\ UNCHANGED <<branches, requests, releases, recorded>>

(* The forge opens no second pull request and no empty one.  The checks    *)
(* that were read decide whether a comment follows.                        *)
CreatePR(o) ==
  /\ At(o, "CreatePR")
  /\ ~open
  /\ demo < main
  /\ pulls < MaxPulls
  /\ open' = TRUE
  /\ pulls' = pulls + 1
  /\ job' = [job EXCEPT ![o].pr = pulls + 1,
                        ![o].step = IF job[o].allowed
                                    THEN "MergeDemo" ELSE "Comment"]
  /\ UNCHANGED <<branches, releases, history>>

Comment(o) ==
  /\ At(o, "Comment")
  /\ recorded' = recorded \union {job[o].pr}
  /\ Goto(o, "MergeDemo")
  /\ UNCHANGED <<branches, requests, releases, passed>>

(* The pull request is merged with whatever main has by then. *)
MergeDemo(o) ==
  /\ At(o, "MergeDemo")
  /\ open
  /\ job[o].pr = pulls
  /\ open' = FALSE
  /\ demo' = main
  /\ demoIsMain' = FALSE
  /\ End(o)
  /\ UNCHANGED <<main, pulls, releases, history>>

-----------------------------------------------------------------------------
(* orbit release prod: find the release; the gate is passed or refuses. *)
FindRelease(o) ==
  /\ At(o, "idle")
  /\ release = "open"
  /\ job' = [job EXCEPT ![o].step = "MergeRelease", ![o].pr = merged + 1]
  /\ UNCHANGED <<branches, requests, releases, history>>

(* To merge what is merged already is a success for gh. *)
MergeRelease(o) ==
  /\ At(o, "MergeRelease")
  /\ \/ /\ merged + 1 = job[o].pr
        /\ main < MaxMain
        /\ release' = "merged"
        /\ merged' = merged + 1
        /\ main' = main + 1
     \/ /\ merged >= job[o].pr
        /\ UNCHANGED <<release, merged, main>>
  /\ Goto(o, "Dispatch")
  /\ UNCHANGED <<demo, demoIsMain, requests, published, history>>

(* The workflow publishes main: every release merged so far. *)
Dispatch(o) ==
  /\ At(o, "Dispatch")
  /\ published' = merged
  /\ Goto(o, "done")
  /\ UNCHANGED <<branches, requests, release, merged, history>>

(* What prod says last, to be forgotten before the next command. *)
Done(o) ==
  /\ At(o, "done")
  /\ End(o)
  /\ UNCHANGED <<branches, requests, releases, history>>

(* Mutant: a comment or a dispatch that fails does not fail the command. *)
FailGoesOn(o) ==
  /\ job[o].step \notin {"idle", "done"}
  /\ CASE At(o, "Comment") -> Goto(o, "MergeDemo")
       [] At(o, "Dispatch") -> Goto(o, "done")
       [] OTHER -> End(o)
  /\ UNCHANGED <<branches, requests, releases, history>>

(* Any call may fail, and the command may be killed: an open pull request  *)
(* stays open, a merged release stays merged.                              *)
Fail(o) ==
  /\ job[o].step \notin {"idle", "done"}
  /\ End(o)
  /\ UNCHANGED <<branches, requests, releases, history>>

-----------------------------------------------------------------------------
(* The forge and those who work on it. *)
Push ==
  /\ main < MaxMain
  /\ main' = main + 1
  /\ UNCHANGED <<demo, demoIsMain, requests, releases, history, job>>

BotOpens ==
  /\ release # "open"
  /\ merged < main
  /\ release' = "open"
  /\ UNCHANGED <<branches, requests, merged, published, history, job>>

(* Somebody closes a pull request that a failed command left behind. *)
ClosePR ==
  /\ open
  /\ open' = FALSE
  /\ UNCHANGED <<branches, pulls, releases, history, job>>

Next ==
  \/ \E o \in Operators :
       \/ MainSHA(o) \/ DemoSHA(o) \/ CreateBranch(o) \/ CommitChecks(o)
       \/ CreatePR(o) \/ Comment(o) \/ MergeDemo(o)
       \/ FindRelease(o) \/ MergeRelease(o) \/ Dispatch(o)
       \/ Done(o) \/ Fail(o)
  \/ Push \/ BotOpens \/ ClosePR

Spec == Init /\ [][Next]_vars

-----------------------------------------------------------------------------
(* The steps are those of the two commands, and counts keep their bounds. *)
TypeOK ==
  /\ main \in 1..MaxMain
  /\ demo \in 0..main
  /\ demoIsMain \in BOOLEAN
  /\ pulls \in 0..MaxPulls
  /\ open \in BOOLEAN
  /\ release \in {"none", "open", "merged"}
  /\ merged \in 0..MaxMain
  /\ published \in 0..merged
  /\ passed \subseteq 1..main
  /\ recorded \subseteq 1..pulls
  /\ job \in [ Operators ->
                [ step     : Steps,
                  sha      : 0..main,
                  pr       : Nat,
                  override : BOOLEAN,
                  allowed  : BOOLEAN ] ]

(* Demo is created, or moves forward in a command that saw the checks of   *)
(* the commit it read pass, or put its reason on the pull request first;   *)
(* and what demo gets contains that commit.  Main may move, pull requests  *)
(* be closed and commands fail in between.                                 *)
DemoMovesVouched ==
  [][ demo' # demo /\ demo # 0 =>
        /\ demo' > demo
        /\ \E o \in Operators :
             /\ At(o, "MergeDemo")
             /\ job'[o].step = "idle"
             /\ job[o].sha <= demo'
             /\ job[o].sha \in passed \/ job[o].pr \in recorded ]_vars

(* A prod that says it is done has published the release it found, also    *)
(* when another operator merged it meanwhile.                              *)
SuccessIsPublished ==
  \A o \in Operators : At(o, "done") => published >= job[o].pr

(* What demo gets has passed its checks, or somebody gave a reason.  Main  *)
(* moves while the command runs, and the pull request takes it along.      *)
PromotedIsChecked ==
  [][ demo' # demo /\ demo # 0 =>
        demo' \in passed \/ pulls \in recorded ]_vars

=============================================================================
