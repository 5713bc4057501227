----------------------------- MODULE MergeGate -----------------------------
(***************************************************************************)
(* The gate in front of every merge (pr/application enforceGate) and the   *)
(* same loop in release/application waitForChecks.  The forge registers    *)
(* the checks of a pull request one after another, finishes them, runs     *)
(* them again, and takes new commits, while one command polls.  A poll is  *)
(* an answer of the forge at one instant; the clock is read after it.      *)
(*                                                                         *)
(* A command waits (pr deliver, pr create --merge, release check) or polls *)
(* once (pr merge, release prod).  The merge itself names a pull request,  *)
(* not a commit: it takes whatever its head is by then.                    *)
(***************************************************************************)
EXTENDS Naturals

CONSTANTS
  Checks,           \* names of the checks that the workflows define
  MaxHead,          \* bound: commits that the pull request may ever have
  PollInterval, RegisterWindow,    \* of the service, in ticks
  RegisterGap,      \* once one check is registered the next one follows
                    \* within this many ticks
  Options,          \* the flags a command may be given
  MaxTime           \* bound: the clock stops here

VARIABLES
  now,
  head,             \* the commit the pull request points to
  registered,       \* instant of the last registration for that commit
  board,            \* its checks, as the forge reports them
  job,              \* the command
  merged,           \* the commit that was merged, or 0
  recorded          \* the override comment is on the pull request

vars == <<now, head, registered, board, job, merged, recorded>>

-----------------------------------------------------------------------------
(* "fail" stands for every bucket that EvaluateChecks refuses for good,    *)
(* "pass" for those it ignores; "none" is a check not registered yet.      *)
Buckets == {"none", "pending", "pass", "fail"}
Boards == [Checks -> Buckets]
NoChecks == [c \in Checks |-> "none"]

checkNameSet(b) == { c \in Checks : b[c] # "none" }
Pending(b) == { c \in Checks : b[c] = "pending" }

(* Mutant: a check that still runs is no objection. *)
EvaluateFinished(b) ==
  /\ checkNameSet(b) # {}
  /\ \A c \in checkNameSet(b) : b[c] \in {"pass", "pending"}

EvaluateChecks(b) ==
  /\ checkNameSet(b) # {}
  /\ \A c \in checkNameSet(b) : b[c] = "pass"

Phases == {"idle", "poll", "judge", "sleep", "decide", "comment", "merge",
           "merged", "passed", "refused"}

Job == [ phase     : Phases,
         wait      : BOOLEAN,
         merges    : BOOLEAN,            \* release check only asks
         allowNone : BOOLEAN,            \* --allow-no-checks
         override  : BOOLEAN,            \* --override
         timeout   : Nat,                \* --wait-timeout, or the default
         start     : 0..MaxTime,
         last      : Boards,
         lastNames : SUBSET Checks,
         polled    : BOOLEAN,
         wakeAt    : 0..(MaxTime + PollInterval),
         seen      : 0..MaxHead,         \* history: the head of the last poll
         before    : 0..MaxHead,         \* history: ... and of the one before
         timedOut  : BOOLEAN ]           \* history: the wait ended unsettled

elapsed == now - job.start

Decided == job.phase \in {"merged", "passed", "refused"}

-----------------------------------------------------------------------------
Init ==
  /\ now = 0
  /\ head = 1
  /\ registered = 0
  /\ board = NoChecks
  /\ job = [ phase |-> "idle", wait |-> FALSE, merges |-> FALSE,
             allowNone |-> FALSE, override |-> FALSE, timeout |-> 0,
             start |-> 0, last |-> NoChecks, lastNames |-> {}, polled |-> FALSE,
             wakeAt |-> 0, seen |-> 0, before |-> 0, timedOut |-> FALSE ]
  /\ merged = 0
  /\ recorded = FALSE

(* A command begins, early enough to end before the clock stops (a bound). *)
(* release check merges nothing and takes no flag.                         *)
Begin(o) ==
  /\ job.phase = "idle"
  /\ now + o.timeout + PollInterval <= MaxTime + 1
  /\ ~o.merges => o.wait /\ ~o.allowNone /\ ~o.override
  /\ job' = [job EXCEPT !.phase = "poll", !.wait = o.wait, !.merges = o.merges,
                        !.allowNone = o.allowNone, !.override = o.override,
                        !.timeout = o.timeout, !.start = now]
  /\ UNCHANGED <<now, head, registered, board, merged, recorded>>

(* Forge.Checks answers, or fails.  Without --wait one answer decides. *)
Poll ==
  /\ job.phase = "poll"
  /\ job' = [job EXCEPT !.phase = IF job.wait THEN "judge" ELSE "decide",
                        !.last = board,
                        !.seen = head,
                        !.before = job.seen]
  /\ UNCHANGED <<now, head, registered, board, merged, recorded>>

PollFails ==
  /\ job.phase = "poll"
  /\ job' = [job EXCEPT !.phase = "refused"]
  /\ UNCHANGED <<now, head, registered, board, merged, recorded>>

Complete ==
  /\ Pending(job.last) = {}
  /\ checkNameSet(job.last) # {} \/ elapsed >= RegisterWindow

(* Mutant: one poll is enough when nothing is pending. *)
StableAtOnce == job.lastNames \subseteq checkNameSet(job.last)

Stable == job.polled /\ job.lastNames = checkNameSet(job.last)

FirstEmpty ==
  /\ ~job.polled
  /\ checkNameSet(job.last) = {}
  /\ elapsed >= RegisterWindow

Settled == Complete /\ (Stable \/ FirstEmpty)

Remember == [job EXCEPT !.lastNames = checkNameSet(job.last), !.polled = TRUE]

JudgeSettled ==
  /\ job.phase = "judge"
  /\ Settled
  /\ job' = [job EXCEPT !.phase = "decide"]
  /\ UNCHANGED <<now, head, registered, board, merged, recorded>>

(* Mutant: the wait does not end while something is pending. *)
JudgeTimedOutIdle ==
  /\ job.phase = "judge"
  /\ ~Settled
  /\ elapsed >= job.timeout
  /\ Pending(job.last) = {}
  /\ job' = [Remember EXCEPT !.phase = "decide", !.timedOut = TRUE]
  /\ UNCHANGED <<now, head, registered, board, merged, recorded>>

JudgeTimedOut ==
  /\ job.phase = "judge"
  /\ ~Settled
  /\ elapsed >= job.timeout
  /\ job' = [Remember EXCEPT !.phase = "decide", !.timedOut = TRUE]
  /\ UNCHANGED <<now, head, registered, board, merged, recorded>>

JudgeSleep ==
  /\ job.phase = "judge"
  /\ ~Settled
  /\ elapsed < job.timeout
  /\ job' = [Remember EXCEPT !.phase = "sleep", !.wakeAt = now + PollInterval,
                             !.last = NoChecks]
  /\ UNCHANGED <<now, head, registered, board, merged, recorded>>

Wake ==
  /\ job.phase = "sleep"
  /\ now >= job.wakeAt
  /\ job' = [job EXCEPT !.phase = "poll"]
  /\ UNCHANGED <<now, head, registered, board, merged, recorded>>

(* Mutant: an empty list is allowed however early it was read. *)
NoneAllowedEarly == checkNameSet(job.last) = {} /\ job.allowNone

NoneAllowed ==
  /\ checkNameSet(job.last) = {}
  /\ job.allowNone
  /\ ~job.wait \/ elapsed >= RegisterWindow

(* The end of enforceGate: no checks, the verdict on the last answer, the  *)
(* override, or a refusal.                                                 *)
Verdict ==
  IF NoneAllowed \/ EvaluateChecks(job.last)
  THEN IF job.merges THEN "merge" ELSE "passed"
  ELSE IF job.override THEN "comment" ELSE "refused"

Decide ==
  /\ job.phase = "decide"
  /\ job' = [job EXCEPT !.phase = Verdict]
  /\ UNCHANGED <<now, head, registered, board, merged, recorded>>

(* The override is recorded as a comment, or nothing is merged. *)
Comment ==
  /\ job.phase = "comment"
  /\ \/ /\ job' = [job EXCEPT !.phase = "merge"]
        /\ recorded' = TRUE
     \/ /\ job' = [job EXCEPT !.phase = "refused"]
        /\ UNCHANGED recorded
  /\ UNCHANGED <<now, head, registered, board, merged>>

MergePR ==
  /\ job.phase = "merge"
  /\ \/ /\ job' = [job EXCEPT !.phase = "merged"]
        /\ merged' = head
     \/ /\ job' = [job EXCEPT !.phase = "refused"]
        /\ UNCHANGED merged
  /\ UNCHANGED <<now, head, registered, board, recorded>>

-----------------------------------------------------------------------------
(* The forge, while the command runs: a check appears, ends, is run again; *)
(* a commit arrives.                                                       *)
Register(c) ==
  /\ ~Decided
  /\ board[c] = "none"
  /\ board' = [board EXCEPT ![c] = "pending"]
  /\ registered' = now
  /\ UNCHANGED <<now, head, job, merged, recorded>>

Finish(c, b) ==
  /\ ~Decided
  /\ board[c] = "pending"
  /\ board' = [board EXCEPT ![c] = b]
  /\ UNCHANGED <<now, head, registered, job, merged, recorded>>

Rerun(c) ==
  /\ ~Decided
  /\ board[c] \in {"pass", "fail"}
  /\ board' = [board EXCEPT ![c] = "pending"]
  /\ UNCHANGED <<now, head, registered, job, merged, recorded>>

PushCommit ==
  /\ ~Decided
  /\ head < MaxHead
  /\ head' = head + 1
  /\ board' = NoChecks
  /\ registered' = now
  /\ UNCHANGED <<now, job, merged, recorded>>

(* Once a commit has one check it does not wait for the next for long. *)
Overdue ==
  /\ checkNameSet(board) \notin {{}, Checks}
  /\ now >= registered + RegisterGap

Tick ==
  /\ now < MaxTime
  /\ ~Overdue
  /\ now' = now + 1
  /\ UNCHANGED <<head, registered, board, job, merged, recorded>>

Step ==
  \/ Poll
  \/ PollFails
  \/ JudgeSettled
  \/ JudgeTimedOut
  \/ JudgeSleep
  \/ Wake
  \/ Decide
  \/ Comment
  \/ MergePR

Forge ==
  \/ \E c \in Checks : Register(c) \/ Rerun(c)
  \/ \E c \in Checks, b \in {"pass", "fail"} : Finish(c, b)
  \/ PushCommit

Next ==
  \/ \E o \in Options : Begin(o)
  \/ Step
  \/ Forge
  \/ Tick

Spec == Init /\ [][Next]_vars

(* The process runs on and time passes; checks that are due register.  No  *)
(* check has to end.                                                       *)
Fairness ==
  /\ WF_vars(Step)
  /\ WF_vars(Tick)
  /\ WF_vars(\E c \in Checks : Register(c))

FairSpec == Spec /\ Fairness

-----------------------------------------------------------------------------
(* The gate's state has its type. *)
TypeOK ==
  /\ now \in 0..MaxTime
  /\ head \in 1..MaxHead
  /\ registered \in 0..MaxTime
  /\ board \in Boards
  /\ job \in Job
  /\ merged \in 0..MaxHead
  /\ recorded \in BOOLEAN

(* A waiting command that believes a list of checks believes a whole one:  *)
(* when checks register less than a poll interval apart, no check is yet   *)
(* to come for the commit it looked at, unless it timed out or a commit    *)
(* arrived between its last two polls.                                     *)
CompleteListBelieved ==
  ( /\ job.phase \in {"merge", "passed"}
    /\ job.wait
    /\ ~job.timedOut
    /\ checkNameSet(job.last) # {}
    /\ job.before = job.seen ) => checkNameSet(job.last) = Checks

(* Nothing is merged but for a reason: all reported checks had passed, the *)
(* override is on record, or none was reported and the caller allowed that *)
(* -- and then, if it waits at all, not before the register window ended.  *)
MergedForAReason ==
  merged # 0 =>
    \/ /\ checkNameSet(job.last) # {}
       /\ \A c \in checkNameSet(job.last) : job.last[c] = "pass"
    \/ recorded
    \/ /\ checkNameSet(job.last) = {}
       /\ job.allowNone
       /\ job.wait => elapsed >= RegisterWindow

(* gate.go:13, refuted: what is merged without an override has the checks  *)
(* that passed.  The merge names a pull request, whose head may have moved *)
(* since the last poll.                                                    *)
MergedIsChecked ==
  merged # 0 /\ ~recorded /\ checkNameSet(job.last) # {} => merged = job.seen

(* However the checks behave, the command comes to an answer. *)
GateAnswers == job.phase = "poll" ~> Decided

=============================================================================
