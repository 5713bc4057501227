----------------------------- MODULE WorkTree -----------------------------
(***************************************************************************)
(* orbit init, sync and repair (workspace/application) on the directory of *)
(* one repository.  Within a command no two workers share a repository; a  *)
(* developer may run commands in several terminals, works in the directory *)
(* meanwhile, and may kill a command anywhere.                             *)
(*                                                                         *)
(* Git is external.  Commits of origin's default branch are numbered; a    *)
(* local branch is the last of them it contains, and whether it has        *)
(* commits of its own.  A .git is "torn" while some of its files are       *)
(* missing: git takes it for no repository.  An existing directory without *)
(* any file, which a clone may fill, is not modelled.                      *)
(***************************************************************************)
EXTENDS Naturals

CONSTANTS
  Terminals,      \* where commands run
  MaxOrigin       \* bound: commits of origin's default branch

VARIABLES
  tree,           \* "absent" or "files"
  git,            \* the .git directory: "none", "torn" or "whole"
  dirty,          \* git status is not empty: work that is in no commit
  branch,         \* the branch that is checked out
  ref,            \* where each local branch stands
  own,            \* whether it has commits that origin has not
  tracking,       \* origin/main as last fetched
  origin,         \* origin's default branch
  cut,            \* history: a command that was writing .git was cut short
  job             \* the command in each terminal

vars == <<tree, git, dirty, branch, ref, own, tracking, origin, cut, job>>

Branches == {"main", "feature"}

Steps == {"idle", "IsWorkTree", "Fetch", "Status", "Branch", "MergeFFOnly",
          "CloneStat", "Clone", "cloning", "RepairDest", "TempClone", "CopyTree",
          "copying"}

(* at: origin as the clone saw it; acted: somebody changed the directory   *)
(* since the command looked at it; result: what the last one said.         *)
Idle == [step |-> "idle", at |-> 0, acted |-> FALSE, result |-> "none"]

At(t, step) == job[t].step = step
Goto(t, step) == job' = [job EXCEPT ![t].step = step]
End(t, result) == job' = [job EXCEPT ![t] = [Idle EXCEPT !.result = result]]

(* The commands that are writing .git. *)
Writers == { t \in Terminals : job[t].step \in {"copying", "cloning"} }

disk == <<tree, git, dirty>>
refs == <<branch, ref, own, tracking>>

Init ==
  /\ tree \in {"absent", "files"}
  /\ git \in IF tree = "absent" THEN {"none"} ELSE {"none", "whole"}
  /\ dirty = FALSE
  /\ branch = "main"
  /\ ref = [b \in Branches |-> 1]
  /\ own = [b \in Branches |-> FALSE]
  /\ tracking = 1
  /\ origin = 1
  /\ cut = FALSE
  /\ job = [t \in Terminals |-> Idle]

-----------------------------------------------------------------------------
(* sync *)
SyncStat(t) ==
  /\ At(t, "idle")
  /\ IF git = "none" THEN End(t, "failed")
     ELSE job' = [job EXCEPT ![t] = [Idle EXCEPT !.step = "IsWorkTree"]]
  /\ UNCHANGED <<disk, refs, origin, cut>>

IsWorkTree(t) ==
  /\ At(t, "IsWorkTree")
  /\ IF git = "whole" THEN Goto(t, "Fetch") ELSE End(t, "failed")
  /\ UNCHANGED <<disk, refs, origin, cut>>

Fetch(t) ==
  /\ At(t, "Fetch")
  /\ git = "whole"
  /\ tracking' = origin
  /\ Goto(t, "Status")
  /\ UNCHANGED <<disk, branch, ref, own, origin, cut>>

Status(t) ==
  /\ At(t, "Status")
  /\ git = "whole"
  /\ IF dirty THEN End(t, "skipped")
     ELSE job' = [job EXCEPT ![t].step = "Branch", ![t].acted = FALSE]
  /\ UNCHANGED <<disk, refs, origin, cut>>

(* Mutant: whatever is checked out is merged into. *)
BranchAny(t) ==
  /\ At(t, "Branch")
  /\ git = "whole"
  /\ Goto(t, "MergeFFOnly")
  /\ UNCHANGED <<disk, refs, origin, cut>>

Branch(t) ==
  /\ At(t, "Branch")
  /\ git = "whole"
  /\ IF branch = "main" THEN Goto(t, "MergeFFOnly") ELSE End(t, "skipped")
  /\ UNCHANGED <<disk, refs, origin, cut>>

(* Into the branch that is checked out now.  Git refuses a branch that has *)
(* diverged, and keeps uncommitted changes or refuses.                     *)
MergeFFOnly(t) ==
  /\ At(t, "MergeFFOnly")
  /\ git = "whole"
  /\ \/ /\ ref[branch] >= tracking
        /\ UNCHANGED ref
        /\ End(t, "ok")
     \/ /\ ref[branch] < tracking
        /\ ~own[branch]
        /\ ref' = [ref EXCEPT ![branch] = tracking]
        /\ End(t, "ok")
     \/ /\ ref[branch] < tracking
        /\ own[branch] \/ dirty
        /\ UNCHANGED ref
        /\ End(t, "skipped")
  /\ UNCHANGED <<disk, branch, own, tracking, origin, cut>>

-----------------------------------------------------------------------------
(* cloneTarget, for init and for repair: what has a .git is cloned         *)
(* already, what has files is refused.                                     *)
CloneStat(t) ==
  /\ job[t].step \in {"idle", "CloneStat"}
  /\ IF tree = "absent" THEN job' = [job EXCEPT ![t] = [Idle EXCEPT !.step = "Clone"]]
     ELSE End(t, IF git # "none" THEN "ok" ELSE "failed")
  /\ UNCHANGED <<disk, refs, origin, cut>>

(* git clone makes the directory, and refuses one that has files. *)
Clone(t) ==
  /\ At(t, "Clone")
  /\ tree = "absent"
  /\ tree' = "files"
  /\ git' = "torn"
  /\ job' = [job EXCEPT ![t].step = "cloning", ![t].at = origin]
  /\ UNCHANGED <<dirty, refs, origin, cut>>

(* The last writer leaves a complete .git, unless one was cut short beside *)
(* it.  The others see the repository change.                              *)
Attach(t) ==
  /\ IF Writers # {t} THEN git' = "torn"
     ELSE git' \in IF cut THEN {"torn", "whole"} ELSE {"whole"}
  /\ branch' = "main"
  /\ ref' = [ref EXCEPT !["main"] = job[t].at]
  /\ own' = [own EXCEPT !["main"] = FALSE]
  /\ tracking' = job[t].at
  /\ job' = [u \in Terminals |-> IF u = t THEN [Idle EXCEPT !.result = "ok"]
                                 ELSE [job[u] EXCEPT !.acted = TRUE]]
  /\ UNCHANGED <<tree, origin, cut>>

CloneEnds(t) ==
  /\ At(t, "cloning")
  /\ Attach(t)
  /\ UNCHANGED dirty

(* git clone that fails removes what it made; a kill may prevent that. *)
CloneFails(t) ==
  /\ At(t, "cloning")
  /\ Writers = {t}
  /\ tree' = "absent"
  /\ git' = "none"
  /\ dirty' = FALSE
  /\ End(t, "failed")
  /\ UNCHANGED <<refs, origin, cut>>

-----------------------------------------------------------------------------
(* repair skips what has a .git. *)
RepairStat(t) ==
  /\ At(t, "idle")
  /\ IF git # "none" THEN End(t, "ok")
     ELSE job' = [job EXCEPT ![t] = [Idle EXCEPT !.step = "RepairDest"]]
  /\ UNCHANGED <<disk, refs, origin, cut>>

RepairDest(t) ==
  /\ At(t, "RepairDest")
  /\ Goto(t, IF tree = "absent" THEN "CloneStat" ELSE "TempClone")
  /\ UNCHANGED <<disk, refs, origin, cut>>

TempClone(t) ==
  /\ At(t, "TempClone")
  /\ job' = [job EXCEPT ![t].step = "CopyTree", ![t].at = origin]
  /\ UNCHANGED <<disk, refs, origin, cut>>

(* CopyTree truncates and writes file by file, also over a .git that has   *)
(* come into being since.                                                  *)
CopyBegins(t) ==
  /\ At(t, "CopyTree")
  /\ tree = "files"
  /\ git' = "torn"
  /\ Goto(t, "copying")
  /\ UNCHANGED <<tree, dirty, refs, origin, cut>>

(* The files of the tree are left alone: where they differ from the clone  *)
(* they count as changed.                                                  *)
CopyEnds(t) ==
  /\ At(t, "copying")
  /\ Attach(t)
  /\ dirty' \in {dirty, TRUE}

(* Mutant: an error of CopyTree is dropped. *)
FailUnnoticed(t) ==
  /\ ~At(t, "idle")
  /\ cut' = (cut \/ t \in Writers)
  /\ End(t, IF At(t, "copying") THEN "ok" ELSE "failed")
  /\ UNCHANGED <<disk, refs, origin>>

(* Any call may fail, and the command may be killed: what it wrote stays. *)
Fail(t) ==
  /\ ~At(t, "idle")
  /\ cut' = (cut \/ t \in Writers)
  /\ End(t, "failed")
  /\ UNCHANGED <<disk, refs, origin>>

-----------------------------------------------------------------------------
(* The developer, and everybody else's pushes. *)
Acted == job' = [t \in Terminals |-> [job[t] EXCEPT !.acted = ~At(t, "idle")]]

Edit ==
  /\ tree = "files"
  /\ ~dirty
  /\ dirty' = TRUE
  /\ Acted
  /\ UNCHANGED <<tree, git, refs, origin, cut>>

Commit ==
  /\ git = "whole"
  /\ dirty
  /\ dirty' = FALSE
  /\ own' = [own EXCEPT ![branch] = TRUE]
  /\ Acted
  /\ UNCHANGED <<tree, git, branch, ref, tracking, origin, cut>>

Switch ==
  /\ git = "whole"
  /\ branch' \in Branches \ {branch}
  /\ Acted
  /\ UNCHANGED <<disk, ref, own, tracking, origin, cut>>

(* The way out of a torn .git; its branches go with it. *)
RemoveGit ==
  /\ git = "torn"
  /\ Writers = {}
  /\ git' = "none"
  /\ own' = [b \in Branches |-> FALSE]
  /\ cut' = FALSE
  /\ Acted
  /\ UNCHANGED <<tree, dirty, branch, ref, tracking, origin>>

Upstream ==
  /\ origin < MaxOrigin
  /\ origin' = origin + 1
  /\ UNCHANGED <<disk, refs, cut, job>>

Next ==
  \/ \E t \in Terminals :
       \/ SyncStat(t) \/ IsWorkTree(t) \/ Fetch(t) \/ Status(t) \/ Branch(t)
       \/ MergeFFOnly(t)
       \/ CloneStat(t) \/ Clone(t) \/ CloneEnds(t) \/ CloneFails(t)
       \/ RepairStat(t) \/ RepairDest(t) \/ TempClone(t)
       \/ CopyBegins(t) \/ CopyEnds(t)
       \/ Fail(t)
  \/ Edit \/ Commit \/ Switch \/ RemoveGit \/ Upstream

Spec == Init /\ [][Next]_vars

-----------------------------------------------------------------------------
(* A directory that is absent has no .git, and while one is being written  *)
(* git takes it for no repository.                                         *)
TypeOK ==
  /\ <<tree, git>> \in {<<"absent", "none">>} \union
                       ({"files"} \X {"none", "torn", "whole"})
  /\ Writers # {} => git = "torn"
  /\ dirty \in BOOLEAN
  /\ branch \in Branches
  /\ ref \in [Branches -> 1..origin]
  /\ own \in [Branches -> BOOLEAN]
  /\ tracking \in 1..origin
  /\ cut \in BOOLEAN
  /\ origin \in Nat
  /\ job \in [ Terminals ->
                [ step   : Steps,
                  at     : 0..origin,
                  acted  : BOOLEAN,
                  result : {"none", "ok", "skipped", "failed"} ] ]

(* A local branch moves, or gives up its own commits, in two cases only:   *)
(* sync merges into a clean default branch, or init and repair attach a    *)
(* .git where main has no commits to lose.  What a developer or another  *)
(* command did since the command looked is excepted: nothing locks the     *)
(* directory.                                                              *)
BranchesMoveForAReason ==
  [][ \A t \in Terminals :
        job[t].step # "idle" /\ job'[t].step = "idle" /\ <<ref, own>>' # <<ref, own>>
        => \/ job[t].acted
           \/ At(t, "MergeFFOnly") /\ branch = "main" /\ ~dirty
           \/ t \in Writers /\ ~own["main"] ]_vars

(* Who says that a repository is there leaves a complete one, unless some  *)
(* command was cut short on it before or is still writing it.              *)
SuccessIsWhole ==
  [][ \A t \in Terminals :
        job[t].result # "ok" /\ job'[t].result = "ok"
        => git' = "whole" \/ cut \/ Writers \ {t} # {} ]_vars

(* What init and repair leave alone is a complete repository.  A .git that *)
(* was left torn is left alone as well, by every later init and repair.    *)
PresentIsWhole ==
  [][ \A t \in Terminals :
        At(t, "idle") /\ job[t].result # "ok" /\ job'[t].result = "ok"
        => git = "whole" ]_vars

(* Repair leaves alone what has a .git: docs say so, but the look and the  *)
(* copy are a clone apart.                                                 *)
RepairSkipsRepositories ==
  [][ \A t \in Terminals :
        At(t, "CopyTree") /\ job'[t].step = "copying" => git = "none" ]_vars

=============================================================================
