----------------------------- MODULE PartsProofs -----------------------------
(***************************************************************************)
(* Proofs about the components that MCParts runs side by side, besides the *)
(* provisioner (ProvisionerProofs): the administrator endpoints, the       *)
(* operator's machine, the merge gate and the delivery, for every set of   *)
(* requests, codes, commands and checks and every bound.                   *)
(***************************************************************************)
EXTENDS MCParts, ProvisionerProofs, FiniteSetTheorems

-----------------------------------------------------------------------------
(* A finite set of numbers has a greatest member. *)
LEMMA LeastNumber ==
  ASSUME NEW T, T \subseteq Nat, T # {}
  PROVE  \E x \in T : \A y \in T : ~(y < x)
<1>1. PICK x \in T : \A y \in T : <<y, x>> \notin OpToRel(<, Nat)
  BY WFMin, NatLessThanWellFounded
<1>2. QED
  BY <1>1 DEF OpToRel

LEMMA GreatestNumber ==
  ASSUME NEW S, S \subseteq Nat, IsFiniteSet(S), S # {}
  PROVE  \E m \in S : \A d \in S : d <= m
<1> DEFINE n == Cardinality(S)
<1>1. PICK f \in [1..n -> S] : \A x \in S : \E i \in 1..n : f[i] = x
  BY FS_CardinalityType DEF ExistsBijection, Bijection, Injection, Surjection
<1>2. n \in Nat
  BY FS_CardinalityType
<1> DEFINE Covers(k) == \E m \in S : \A i \in 1..k : f[i] <= m
           T == { k \in Nat : k <= n /\ ~Covers(k) }
<1>3. CASE T # {}
  <2>1. PICK k \in T : \A y \in T : ~(y < k)
    BY <1>3, LeastNumber
  <2>2. k # 0
    <3>1. PICK x : x \in S
      OBVIOUS
    <3>2. Covers(0)
      BY <3>1
    <3>3. QED
      BY <2>1, <3>2
  <2>3. k \in Nat /\ k - 1 \in Nat /\ k <= n /\ k \in 1..n
    BY <1>2, <2>1, <2>2
  <2>4. Covers(k - 1)
    <3> HIDE DEF Covers
    <3>1. k - 1 \notin T
      <4>1. k - 1 < k
        BY <2>3
      <4> HIDE DEF T
      <4>2. QED
        BY <2>1, <4>1
    <3>2. k - 1 <= n
      BY <1>2, <2>3
    <3>3. QED
      BY <2>3, <3>1, <3>2
  <2>5. PICK m \in S : \A i \in 1..(k - 1) : f[i] <= m
    BY <2>4
  <2>6. f[k] \in S /\ \A i \in 1..k : f[i] \in Nat /\ (i = k \/ i \in 1..(k - 1))
    <3>1. \A i \in 1..n : f[i] \in Nat
      BY <1>1
    <3>2. f[k] \in S
      BY <1>1, <2>3
    <3>3. \A i \in 1..k : i \in 1..n /\ (i = k \/ i \in 1..(k - 1))
      BY <1>2, <2>3
    <3>4. QED
      BY <3>1, <3>2, <3>3
  <2>7. CASE f[k] <= m
    BY <2>1, <2>5, <2>6, <2>7
  <2>8. CASE m < f[k]
    <3>1. \A i \in 1..k : f[i] <= f[k]
      BY <2>5, <2>6, <2>8
    <3>2. QED
      BY <2>1, <2>6, <3>1
  <2>9. QED
    BY <2>6, <2>7, <2>8
<1>4. CASE T = {}
  <2>1. Covers(n)
    BY <1>2, <1>4
  <2>2. QED
    BY <1>1, <2>1
<1>5. QED
  BY <1>3, <1>4

-----------------------------------------------------------------------------
(* AdminAuth. *)

LEMMA NewestIsThere ==
  ASSUME NEW S, S \subseteq Nat, IsFiniteSet(S), S # {}
  PROVE  Admin!Newest(S) \in S
BY GreatestNumber DEF Admin!Newest

-----------------------------------------------------------------------------
(* Delivery.  From the merge to the pruning, what is pushed is on the base *)
(* of origin; a branch is pushed only while it is there.                   *)
AfterMerge ==
  step \in {"Checkout", "PullFFOnly", "DeleteBranch"} => pushed <= onBase

DeliverInv == Deliver!TypeOK /\ Deliver!PrunedIsMerged /\ AfterMerge

LEMMA DeliverInit == Deliver!Init => DeliverInv
<1> SUFFICES ASSUME Deliver!Init PROVE DeliverInv
  OBVIOUS
<1>1. dirty \in BOOLEAN /\ baseAhead \in BOOLEAN
  BY DEF Deliver!Init
<1>2. QED
  BY <1>1, PartsAssumption
     DEF Deliver!Init, DeliverInv, Deliver!TypeOK, Deliver!PrunedIsMerged,
         AfterMerge, Deliver!Steps

LEMMA DeliverStep == DeliverInv /\ [Deliver!Next]_(Deliver!vars) => DeliverInv'
<1> SUFFICES ASSUME DeliverInv, [Deliver!Next]_(Deliver!vars)
             PROVE  DeliverInv'
  OBVIOUS
<1> USE PartsAssumption
    DEF DeliverInv, Deliver!TypeOK, Deliver!PrunedIsMerged, AfterMerge,
        Deliver!Steps, Deliver!local, Deliver!forge
<1>1. CASE Deliver!Begin
  BY <1>1 DEF Deliver!Begin
<1>2. CASE Deliver!IsClean
  BY <1>2 DEF Deliver!IsClean
<1>3. CASE Deliver!Push
  BY <1>3 DEF Deliver!Push
<1>4. CASE Deliver!CreatePR
  BY <1>4 DEF Deliver!CreatePR
<1>5. CASE Deliver!Gate
  BY <1>5 DEF Deliver!Gate
<1>6. CASE Deliver!MergePR
  BY <1>6 DEF Deliver!MergePR
<1>7. CASE Deliver!Checkout
  BY <1>7 DEF Deliver!Checkout
<1>8. CASE Deliver!PullFFOnly
  BY <1>8 DEF Deliver!PullFFOnly
<1>9. CASE Deliver!DeleteBranch
  BY <1>9 DEF Deliver!DeleteBranch
<1>10. CASE Deliver!Fail
  BY <1>10 DEF Deliver!Fail
<1>11. CASE Deliver!Edit
  BY <1>11 DEF Deliver!Edit
<1>12. CASE Deliver!Commit
  <2>1. dirty' \in BOOLEAN /\ baseAhead' \in BOOLEAN
    BY <1>12 DEF Deliver!Commit
  <2>2. \/ feature' = feature
        \/ feature \in 1..(MaxCommits - 1) /\ feature' = feature + 1
    BY <1>12 DEF Deliver!Commit
  <2>3. feature' \in 0..MaxCommits /\ (feature' = 0 => feature = 0)
    BY <2>2
  <2>4. UNCHANGED <<checkedOut, localBase, pushed, pr, onBase, step>>
    BY <1>12 DEF Deliver!Commit
  <2>5. QED
    BY <2>1, <2>3, <2>4
<1>13. CASE Deliver!Switch
  BY <1>13 DEF Deliver!Switch
<1>14. CASE UNCHANGED Deliver!vars
  BY <1>14 DEF Deliver!vars
<1>15. QED
  BY <1>1, <1>2, <1>3, <1>4, <1>5, <1>6, <1>7, <1>8, <1>9, <1>10, <1>11,
     <1>12, <1>13, <1>14 DEF Deliver!Next

(* Nothing is pruned that the forge holds unmerged, however long the       *)
(* branch and however often the delivery fails and is run again.           *)
THEOREM DeliveryPrunesTheMerged == Deliver!Spec => []Deliver!PrunedIsMerged
BY DeliverInit, DeliverStep, PTL DEF Deliver!Spec, DeliverInv

-----------------------------------------------------------------------------
(* MergeGate. *)

(* Until a commit has all its checks the next one is not overdue.          *)
NextIsDue ==
  /\ registered <= now
  /\ \/ Gate!checkNameSet(board) = {}
     \/ Gate!checkNameSet(board) = Checks
     \/ now <= registered + RegisterGap

(* For one commit checks only appear: what was polled is still there, and  *)
(* if nothing appeared since, the last one appeared before the pause.      *)
PolledIsThere ==
  /\ job.seen <= head
  /\ job.phase = "idle" => ~job.polled
  /\ job.phase = "judge" /\ head = job.seen
       => Gate!checkNameSet(job.last) \subseteq Gate!checkNameSet(board)
  /\ job.phase \in {"sleep", "poll"} /\ job.polled /\ head = job.seen
       => /\ job.lastNames \subseteq Gate!checkNameSet(board)
          /\ job.lastNames = Gate!checkNameSet(board)
               => registered + PollInterval <= job.wakeAt
  /\ job.phase = "poll" /\ job.polled => now >= job.wakeAt

(* Two polls of one commit that agree on a list agree on the whole one.    *)
AgreedIsWhole ==
  ( /\ job.phase \in {"judge", "decide", "comment", "merge", "passed"}
    /\ job.wait
    /\ ~job.timedOut
    /\ job.polled
    /\ job.lastNames = Gate!checkNameSet(job.last)
    /\ Gate!checkNameSet(job.last) # {}
    /\ job.before = job.seen ) => Gate!checkNameSet(job.last) = Checks

(* A wait ends with two polls that agree, without checks, or timed out.    *)
WaitedForTwo ==
  ( /\ job.phase \in {"decide", "comment", "merge", "passed"}
    /\ job.wait
    /\ ~job.timedOut
    /\ Gate!checkNameSet(job.last) # {} ) =>
      job.polled /\ job.lastNames = Gate!checkNameSet(job.last)

(* What allows a merge is so from the decision on.                         *)
MergesForAReason ==
  /\ merged # 0 => job.phase = "merged"
  /\ job.phase \in {"merge", "merged"} =>
       \/ /\ Gate!checkNameSet(job.last) # {}
          /\ \A c \in Gate!checkNameSet(job.last) : job.last[c] = "pass"
       \/ recorded
       \/ /\ Gate!checkNameSet(job.last) = {}
          /\ job.allowNone
          /\ job.wait => now - job.start >= RegisterWindow

GateInv ==
  /\ Gate!TypeOK
  /\ NextIsDue
  /\ PolledIsThere
  /\ AgreedIsWhole
  /\ WaitedForTwo
  /\ MergesForAReason

LEMMA GateInit == Gate!Init => GateInv
<1> SUFFICES ASSUME Gate!Init PROVE GateInv
  OBVIOUS
<1> USE PartsAssumption DEF Gate!Init
<1>1. Gate!checkNameSet(board) = {} /\ Gate!NoChecks \in Gate!Boards
  BY DEF Gate!checkNameSet, Gate!NoChecks, Gate!Boards, Gate!Buckets
<1>2. Gate!TypeOK
  <2>1. job \in Gate!Job
    BY <1>1 DEF Gate!Job, Gate!Phases
  <2>2. recorded \in BOOLEAN
    OBVIOUS
  <2>3. QED
    BY <1>1, <2>1, <2>2 DEF Gate!TypeOK
<1>3. NextIsDue
  BY <1>1 DEF NextIsDue
<1>4. PolledIsThere
  BY DEF PolledIsThere
<1>5. AgreedIsWhole /\ WaitedForTwo
  BY DEF AgreedIsWhole, WaitedForTwo
<1>6. MergesForAReason
  BY DEF MergesForAReason
<1>7. QED
  BY <1>2, <1>3, <1>4, <1>5, <1>6 DEF GateInv

LEMMA GateTypes ==
  Gate!TypeOK /\ [Gate!Next]_(Gate!vars) => Gate!TypeOK'
<1> SUFFICES ASSUME Gate!TypeOK, [Gate!Next]_(Gate!vars)
             PROVE  Gate!TypeOK'
  OBVIOUS
<1>0. /\ now \in 0..MaxTime /\ head \in 1..MaxHead /\ registered \in 0..MaxTime
      /\ board \in Gate!Boards /\ job \in Gate!Job
      /\ merged \in 0..MaxHead /\ recorded \in BOOLEAN
      /\ MaxTime \in Nat /\ MaxHead \in Nat /\ PollInterval \in Nat
  BY PartsAssumption DEF Gate!TypeOK
<1>B. \A b \in Gate!Boards : Gate!checkNameSet(b) \subseteq Checks
  BY DEF Gate!checkNameSet
<1>N. [c \in Checks |-> "none"] \in Gate!Boards
  BY DEF Gate!Boards, Gate!Buckets
<1>1. ASSUME NEW o \in GateOptions, Gate!Begin(o) PROVE Gate!TypeOK'
  <2>1. job' \in Gate!Job
    <3>1. /\ o.wait \in BOOLEAN /\ o.merges \in BOOLEAN
          /\ o.allowNone \in BOOLEAN /\ o.override \in BOOLEAN
          /\ o.timeout \in Nat
      BY PartsAssumption
    <3>2. job' = [job EXCEPT !.phase = "poll", !.wait = o.wait,
                             !.merges = o.merges, !.allowNone = o.allowNone,
                             !.override = o.override, !.timeout = o.timeout,
                             !.start = now]
      BY <1>1 DEF Gate!Begin
    <3>3. "poll" \in Gate!Phases
      BY DEF Gate!Phases
    <3>4. QED
      BY ONLY <1>0, <3>1, <3>2, <3>3 DEF Gate!Job
  <2>2. recorded' \in BOOLEAN
    BY <1>0, <1>1 DEF Gate!Begin
  <2>3. board' \in Gate!Boards
    BY <1>0, <1>N, <1>1 DEF Gate!Boards, Gate!Buckets, Gate!Begin
  <2>4. /\ now' \in 0..MaxTime /\ head' \in 1..MaxHead
        /\ registered' \in 0..MaxTime /\ merged' \in 0..MaxHead
    BY <1>0, <1>1 DEF Gate!Begin
  <2>5. QED
    BY <2>1, <2>2, <2>3, <2>4 DEF Gate!TypeOK
<1>2. CASE Gate!Poll
  <2>1. job' \in Gate!Job
    <3>1. \E f \in {"judge", "decide"} :
            job' = [job EXCEPT !.phase = f, !.last = board, !.seen = head,
                               !.before = job.seen]
      BY <1>2 DEF Gate!Poll
    <3>2. {"judge", "decide"} \subseteq Gate!Phases /\ 1..MaxHead \subseteq 0..MaxHead
      BY DEF Gate!Phases
    <3>3. QED
      BY ONLY <1>0, <3>1, <3>2, ZenonT(40) DEF Gate!Job
  <2>2. recorded' \in BOOLEAN
    BY <1>0, <1>2 DEF Gate!Poll
  <2>3. board' \in Gate!Boards
    BY <1>0, <1>N, <1>2 DEF Gate!Boards, Gate!Buckets, Gate!Poll
  <2>4. /\ now' \in 0..MaxTime /\ head' \in 1..MaxHead
        /\ registered' \in 0..MaxTime /\ merged' \in 0..MaxHead
    BY <1>0, <1>2 DEF Gate!Poll
  <2>5. QED
    BY <2>1, <2>2, <2>3, <2>4 DEF Gate!TypeOK
<1>3. CASE Gate!PollFails
  <2>1. job' \in Gate!Job
    BY <1>0, <1>B, <1>N, <1>3 DEF Gate!Job, Gate!Phases, Gate!PollFails
  <2>2. recorded' \in BOOLEAN
    BY <1>0, <1>3 DEF Gate!PollFails
  <2>3. board' \in Gate!Boards
    BY <1>0, <1>N, <1>3 DEF Gate!Boards, Gate!Buckets, Gate!PollFails
  <2>4. /\ now' \in 0..MaxTime /\ head' \in 1..MaxHead
        /\ registered' \in 0..MaxTime /\ merged' \in 0..MaxHead
    BY <1>0, <1>3 DEF Gate!PollFails
  <2>5. QED
    BY <2>1, <2>2, <2>3, <2>4 DEF Gate!TypeOK
<1>4. CASE Gate!JudgeSettled
  <2>1. job' \in Gate!Job
    BY <1>0, <1>B, <1>N, <1>4 DEF Gate!Job, Gate!Phases, Gate!JudgeSettled
  <2>2. recorded' \in BOOLEAN
    BY <1>0, <1>4 DEF Gate!JudgeSettled
  <2>3. board' \in Gate!Boards
    BY <1>0, <1>N, <1>4 DEF Gate!Boards, Gate!Buckets, Gate!JudgeSettled
  <2>4. /\ now' \in 0..MaxTime /\ head' \in 1..MaxHead
        /\ registered' \in 0..MaxTime /\ merged' \in 0..MaxHead
    BY <1>0, <1>4 DEF Gate!JudgeSettled
  <2>5. QED
    BY <2>1, <2>2, <2>3, <2>4 DEF Gate!TypeOK
<1>5. CASE Gate!JudgeTimedOut
  <2>1. job' \in Gate!Job
    BY <1>0, <1>B, <1>N, <1>5 DEF Gate!Job, Gate!Phases, Gate!JudgeTimedOut, Gate!Remember
  <2>2. recorded' \in BOOLEAN
    BY <1>0, <1>5 DEF Gate!JudgeTimedOut
  <2>3. board' \in Gate!Boards
    BY <1>0, <1>N, <1>5 DEF Gate!Boards, Gate!Buckets, Gate!JudgeTimedOut
  <2>4. /\ now' \in 0..MaxTime /\ head' \in 1..MaxHead
        /\ registered' \in 0..MaxTime /\ merged' \in 0..MaxHead
    BY <1>0, <1>5 DEF Gate!JudgeTimedOut
  <2>5. QED
    BY <2>1, <2>2, <2>3, <2>4 DEF Gate!TypeOK
<1>6. CASE Gate!JudgeSleep
  <2>1. job' \in Gate!Job
    <3>1. job' = [job EXCEPT !.lastNames = Gate!checkNameSet(job.last),
                             !.polled = TRUE, !.phase = "sleep",
                             !.wakeAt = now + PollInterval,
                             !.last = [c \in Checks |-> "none"]]
      BY <1>0, <1>6 DEF Gate!JudgeSleep, Gate!Remember, Gate!NoChecks, Gate!Job
    <3>2. /\ now + PollInterval \in 0..(MaxTime + PollInterval)
          /\ "sleep" \in Gate!Phases
      BY <1>0 DEF Gate!Phases
    <3>3. Gate!checkNameSet(job.last) \in SUBSET Checks
      BY <1>0, <1>B DEF Gate!Job
    <3>4. QED
      BY ONLY <1>0, <1>N, <3>1, <3>2, <3>3 DEF Gate!Job
  <2>2. recorded' \in BOOLEAN
    BY <1>0, <1>6 DEF Gate!JudgeSleep
  <2>3. board' \in Gate!Boards
    BY <1>0, <1>N, <1>6 DEF Gate!Boards, Gate!Buckets, Gate!JudgeSleep
  <2>4. /\ now' \in 0..MaxTime /\ head' \in 1..MaxHead
        /\ registered' \in 0..MaxTime /\ merged' \in 0..MaxHead
    BY <1>0, <1>6 DEF Gate!JudgeSleep
  <2>5. QED
    BY <2>1, <2>2, <2>3, <2>4 DEF Gate!TypeOK
<1>7. CASE Gate!Wake
  <2>1. job' \in Gate!Job
    BY <1>0, <1>B, <1>N, <1>7 DEF Gate!Job, Gate!Phases, Gate!Wake
  <2>2. recorded' \in BOOLEAN
    BY <1>0, <1>7 DEF Gate!Wake
  <2>3. board' \in Gate!Boards
    BY <1>0, <1>N, <1>7 DEF Gate!Boards, Gate!Buckets, Gate!Wake
  <2>4. /\ now' \in 0..MaxTime /\ head' \in 1..MaxHead
        /\ registered' \in 0..MaxTime /\ merged' \in 0..MaxHead
    BY <1>0, <1>7 DEF Gate!Wake
  <2>5. QED
    BY <2>1, <2>2, <2>3, <2>4 DEF Gate!TypeOK
<1>8. CASE Gate!Decide
  <2>1. job' \in Gate!Job
    BY <1>0, <1>B, <1>N, <1>8 DEF Gate!Job, Gate!Phases, Gate!Decide, Gate!Verdict
  <2>2. recorded' \in BOOLEAN
    BY <1>0, <1>8 DEF Gate!Decide
  <2>3. board' \in Gate!Boards
    BY <1>0, <1>N, <1>8 DEF Gate!Boards, Gate!Buckets, Gate!Decide
  <2>4. /\ now' \in 0..MaxTime /\ head' \in 1..MaxHead
        /\ registered' \in 0..MaxTime /\ merged' \in 0..MaxHead
    BY <1>0, <1>8 DEF Gate!Decide
  <2>5. QED
    BY <2>1, <2>2, <2>3, <2>4 DEF Gate!TypeOK
<1>9. CASE Gate!Comment
  <2>1. job' \in Gate!Job
    BY <1>0, <1>B, <1>N, <1>9 DEF Gate!Job, Gate!Phases, Gate!Comment
  <2>2. recorded' \in BOOLEAN
    BY <1>0, <1>9 DEF Gate!Comment
  <2>3. board' \in Gate!Boards
    BY <1>0, <1>N, <1>9 DEF Gate!Boards, Gate!Buckets, Gate!Comment
  <2>4. /\ now' \in 0..MaxTime /\ head' \in 1..MaxHead
        /\ registered' \in 0..MaxTime /\ merged' \in 0..MaxHead
    BY <1>0, <1>9 DEF Gate!Comment
  <2>5. QED
    BY <2>1, <2>2, <2>3, <2>4 DEF Gate!TypeOK
<1>10. CASE Gate!MergePR
  <2>1. job' \in Gate!Job
    BY <1>0, <1>B, <1>N, <1>10 DEF Gate!Job, Gate!Phases, Gate!MergePR
  <2>2. recorded' \in BOOLEAN
    BY <1>0, <1>10 DEF Gate!MergePR
  <2>3. board' \in Gate!Boards
    BY <1>0, <1>N, <1>10 DEF Gate!Boards, Gate!Buckets, Gate!MergePR
  <2>4. /\ now' \in 0..MaxTime /\ head' \in 1..MaxHead
        /\ registered' \in 0..MaxTime /\ merged' \in 0..MaxHead
    BY <1>0, <1>10 DEF Gate!MergePR
  <2>5. QED
    BY <2>1, <2>2, <2>3, <2>4 DEF Gate!TypeOK
<1>11. ASSUME NEW c \in Checks, Gate!Register(c) PROVE Gate!TypeOK'
  <2>1. job' \in Gate!Job
    BY <1>0, <1>B, <1>N, <1>11 DEF Gate!Job, Gate!Phases, Gate!Register
  <2>2. recorded' \in BOOLEAN
    BY <1>0, <1>11 DEF Gate!Register
  <2>3. board' \in Gate!Boards
    BY <1>0, <1>N, <1>11 DEF Gate!Boards, Gate!Buckets, Gate!Register
  <2>4. /\ now' \in 0..MaxTime /\ head' \in 1..MaxHead
        /\ registered' \in 0..MaxTime /\ merged' \in 0..MaxHead
    BY <1>0, <1>11 DEF Gate!Register
  <2>5. QED
    BY <2>1, <2>2, <2>3, <2>4 DEF Gate!TypeOK
<1>12. ASSUME NEW c \in Checks, Gate!Rerun(c) PROVE Gate!TypeOK'
  <2>1. job' \in Gate!Job
    BY <1>0, <1>B, <1>N, <1>12 DEF Gate!Job, Gate!Phases, Gate!Rerun
  <2>2. recorded' \in BOOLEAN
    BY <1>0, <1>12 DEF Gate!Rerun
  <2>3. board' \in Gate!Boards
    BY <1>0, <1>N, <1>12 DEF Gate!Boards, Gate!Buckets, Gate!Rerun
  <2>4. /\ now' \in 0..MaxTime /\ head' \in 1..MaxHead
        /\ registered' \in 0..MaxTime /\ merged' \in 0..MaxHead
    BY <1>0, <1>12 DEF Gate!Rerun
  <2>5. QED
    BY <2>1, <2>2, <2>3, <2>4 DEF Gate!TypeOK
<1>13. ASSUME NEW c \in Checks, NEW b \in {"pass", "fail"}, Gate!Finish(c, b) PROVE Gate!TypeOK'
  <2>1. job' \in Gate!Job
    BY <1>0, <1>B, <1>N, <1>13 DEF Gate!Job, Gate!Phases, Gate!Finish
  <2>2. recorded' \in BOOLEAN
    BY <1>0, <1>13 DEF Gate!Finish
  <2>3. board' \in Gate!Boards
    BY <1>0, <1>N, <1>13 DEF Gate!Boards, Gate!Buckets, Gate!Finish
  <2>4. /\ now' \in 0..MaxTime /\ head' \in 1..MaxHead
        /\ registered' \in 0..MaxTime /\ merged' \in 0..MaxHead
    BY <1>0, <1>13 DEF Gate!Finish
  <2>5. QED
    BY <2>1, <2>2, <2>3, <2>4 DEF Gate!TypeOK
<1>14. CASE Gate!PushCommit
  <2>1. job' \in Gate!Job
    BY <1>0, <1>B, <1>N, <1>14 DEF Gate!Job, Gate!Phases, Gate!PushCommit, Gate!NoChecks
  <2>2. recorded' \in BOOLEAN
    BY <1>0, <1>14 DEF Gate!PushCommit
  <2>3. board' \in Gate!Boards
    BY <1>0, <1>N, <1>14 DEF Gate!Boards, Gate!Buckets, Gate!PushCommit, Gate!NoChecks
  <2>4. /\ now' \in 0..MaxTime /\ head' \in 1..MaxHead
        /\ registered' \in 0..MaxTime /\ merged' \in 0..MaxHead
    BY <1>0, <1>14 DEF Gate!PushCommit
  <2>5. QED
    BY <2>1, <2>2, <2>3, <2>4 DEF Gate!TypeOK
<1>15. CASE Gate!Tick
  <2>1. job' \in Gate!Job
    BY <1>0, <1>B, <1>N, <1>15 DEF Gate!Job, Gate!Phases, Gate!Tick
  <2>2. recorded' \in BOOLEAN
    BY <1>0, <1>15 DEF Gate!Tick
  <2>3. board' \in Gate!Boards
    BY <1>0, <1>N, <1>15 DEF Gate!Boards, Gate!Buckets, Gate!Tick
  <2>4. /\ now' \in 0..MaxTime /\ head' \in 1..MaxHead
        /\ registered' \in 0..MaxTime /\ merged' \in 0..MaxHead
    BY <1>0, <1>15 DEF Gate!Tick
  <2>5. QED
    BY <2>1, <2>2, <2>3, <2>4 DEF Gate!TypeOK
<1>16. CASE UNCHANGED Gate!vars
  BY <1>0, <1>16 DEF Gate!vars, Gate!TypeOK
<1>17. QED
  BY <1>1, <1>2, <1>3, <1>4, <1>5, <1>6, <1>7, <1>8, <1>9, <1>10, <1>11, <1>12, <1>13, <1>14, <1>15, <1>16 DEF Gate!Next, Gate!Step, Gate!Forge

LEMMA GateStep == GateInv /\ [Gate!Next]_(Gate!vars) => GateInv'
<1> DEFINE Rest == /\ NextIsDue /\ PolledIsThere /\ AgreedIsWhole
                   /\ WaitedForTwo /\ MergesForAReason
<1> SUFFICES ASSUME GateInv, [Gate!Next]_(Gate!vars)
             PROVE  Rest'
  BY GateTypes DEF GateInv
<1>0. /\ now \in Nat /\ head \in Nat \ {0} /\ registered \in Nat
      /\ board \in Gate!Boards /\ job \in Gate!Job /\ merged \in Nat
      /\ PollInterval \in Nat /\ RegisterGap \in Nat /\ RegisterGap < PollInterval
      /\ RegisterWindow \in Nat
      /\ NextIsDue /\ PolledIsThere /\ AgreedIsWhole
      /\ WaitedForTwo /\ MergesForAReason
  BY PartsAssumption DEF GateInv, Gate!TypeOK
<1>J. /\ job.seen \in Nat /\ job.before \in Nat /\ job.start \in Nat
      /\ job.wakeAt \in Nat /\ job.timeout \in Nat
      /\ job.last \in Gate!Boards /\ job.lastNames \subseteq Checks
  BY <1>0, PartsAssumption DEF Gate!Job
<1>S. /\ Gate!checkNameSet(board)' = Gate!checkNameSet(board')
      /\ Gate!checkNameSet(job.last)' = Gate!checkNameSet(job'.last)
  BY DEF Gate!checkNameSet
<1>1. ASSUME NEW o \in GateOptions, Gate!Begin(o) PROVE Rest'
  <2>1. NextIsDue'
    BY <1>0, <1>J, <1>S, <1>1 DEF NextIsDue, Gate!Job, Gate!Begin
  <2>2. PolledIsThere'
    BY <1>0, <1>J, <1>S, <1>1 DEF PolledIsThere, Gate!Job, Gate!Begin
  <2>3. AgreedIsWhole'
    BY <1>0, <1>J, <1>S, <1>1 DEF AgreedIsWhole, Gate!Job, Gate!Begin
  <2>4. WaitedForTwo'
    BY <1>0, <1>J, <1>S, <1>1 DEF WaitedForTwo, Gate!Job, Gate!Begin
  <2>5. MergesForAReason'
    BY <1>0, <1>J, <1>S, <1>1 DEF MergesForAReason, Gate!Job, Gate!Begin
  <2>6. QED
    BY <2>1, <2>2, <2>3, <2>4, <2>5
<1>2. CASE Gate!Poll
  <2>1. NextIsDue'
    BY <1>0, <1>J, <1>S, <1>2 DEF NextIsDue, Gate!Job, Gate!Poll
  <2>2. PolledIsThere'
    BY <1>0, <1>J, <1>S, <1>2 DEF PolledIsThere, Gate!Job, Gate!Poll
  <2>3. AgreedIsWhole'
    <3> SUFFICES ASSUME job'.wait, job'.polled, job'.before = job'.seen,
                        job'.lastNames = Gate!checkNameSet(job'.last),
                        Gate!checkNameSet(job'.last) # {}
                 PROVE  Gate!checkNameSet(job'.last) = Checks
      BY <1>S DEF AgreedIsWhole
    <3>1. /\ job'.polled = job.polled /\ job'.before = job.seen
          /\ job'.seen = head /\ job'.lastNames = job.lastNames
          /\ job'.last = board /\ job.phase = "poll"
      BY <1>0, <1>2 DEF Gate!Poll, Gate!Job
    <3>2. registered + PollInterval <= job.wakeAt /\ job.wakeAt <= now
      BY <1>0, <1>J, <3>1 DEF PolledIsThere
    <3>3. ~(now <= registered + RegisterGap)
      BY <1>0, <1>J, <3>2
    <3>4. QED
      BY <1>0, <3>1, <3>3 DEF NextIsDue
  <2>4. WaitedForTwo'
    BY <1>0, <1>J, <1>S, <1>2 DEF WaitedForTwo, Gate!Job, Gate!Poll
  <2>5. MergesForAReason'
    BY <1>0, <1>J, <1>S, <1>2 DEF MergesForAReason, Gate!Job, Gate!Poll
  <2>6. QED
    BY <2>1, <2>2, <2>3, <2>4, <2>5
<1>3. CASE Gate!PollFails
  <2>1. NextIsDue'
    BY <1>0, <1>J, <1>S, <1>3 DEF NextIsDue, Gate!Job, Gate!PollFails
  <2>2. PolledIsThere'
    BY <1>0, <1>J, <1>S, <1>3 DEF PolledIsThere, Gate!Job, Gate!PollFails
  <2>3. AgreedIsWhole'
    BY <1>0, <1>J, <1>S, <1>3 DEF AgreedIsWhole, Gate!Job, Gate!PollFails
  <2>4. WaitedForTwo'
    BY <1>0, <1>J, <1>S, <1>3 DEF WaitedForTwo, Gate!Job, Gate!PollFails
  <2>5. MergesForAReason'
    BY <1>0, <1>J, <1>S, <1>3 DEF MergesForAReason, Gate!Job, Gate!PollFails
  <2>6. QED
    BY <2>1, <2>2, <2>3, <2>4, <2>5
<1>4. CASE Gate!JudgeSettled
  <2>1. NextIsDue'
    BY <1>0, <1>J, <1>S, <1>4 DEF NextIsDue, Gate!Job, Gate!JudgeSettled, Gate!Settled, Gate!Stable, Gate!FirstEmpty
  <2>2. PolledIsThere'
    BY <1>0, <1>J, <1>S, <1>4 DEF PolledIsThere, Gate!Job, Gate!JudgeSettled, Gate!Settled, Gate!Stable, Gate!FirstEmpty
  <2>3. AgreedIsWhole'
    BY <1>0, <1>J, <1>S, <1>4 DEF AgreedIsWhole, Gate!Job, Gate!JudgeSettled, Gate!Settled, Gate!Stable, Gate!FirstEmpty
  <2>4. WaitedForTwo'
    BY <1>0, <1>J, <1>S, <1>4 DEF WaitedForTwo, Gate!Job, Gate!JudgeSettled, Gate!Settled, Gate!Stable, Gate!FirstEmpty
  <2>5. MergesForAReason'
    BY <1>0, <1>J, <1>S, <1>4 DEF MergesForAReason, Gate!Job, Gate!JudgeSettled, Gate!Settled, Gate!Stable, Gate!FirstEmpty
  <2>6. QED
    BY <2>1, <2>2, <2>3, <2>4, <2>5
<1>5. CASE Gate!JudgeTimedOut
  <2>1. NextIsDue'
    BY <1>0, <1>J, <1>S, <1>5 DEF NextIsDue, Gate!Job, Gate!JudgeTimedOut, Gate!Remember
  <2>2. PolledIsThere'
    BY <1>0, <1>J, <1>S, <1>5 DEF PolledIsThere, Gate!Job, Gate!JudgeTimedOut, Gate!Remember
  <2>3. AgreedIsWhole'
    BY <1>0, <1>J, <1>S, <1>5 DEF AgreedIsWhole, Gate!Job, Gate!JudgeTimedOut, Gate!Remember
  <2>4. WaitedForTwo'
    BY <1>0, <1>J, <1>S, <1>5 DEF WaitedForTwo, Gate!Job, Gate!JudgeTimedOut, Gate!Remember
  <2>5. MergesForAReason'
    BY <1>0, <1>J, <1>S, <1>5 DEF MergesForAReason, Gate!Job, Gate!JudgeTimedOut, Gate!Remember
  <2>6. QED
    BY <2>1, <2>2, <2>3, <2>4, <2>5
<1>6. CASE Gate!JudgeSleep
  <2>1. NextIsDue'
    BY <1>0, <1>J, <1>S, <1>6 DEF NextIsDue, Gate!Job, Gate!JudgeSleep, Gate!Remember
  <2>2. PolledIsThere'
    <3>1. /\ job'.seen = job.seen /\ job'.phase = "sleep"
          /\ job'.lastNames = Gate!checkNameSet(job.last)
          /\ job'.wakeAt = now + PollInterval /\ job.phase = "judge"
          /\ UNCHANGED <<now, head, registered, board>>
      BY <1>0, <1>6 DEF Gate!JudgeSleep, Gate!Remember, Gate!Job
    <3>2. registered + PollInterval <= job'.wakeAt
      BY <1>0, <3>1 DEF NextIsDue
    <3>3. QED
      BY <1>0, <1>J, <3>1, <3>2 DEF PolledIsThere
  <2>3. AgreedIsWhole'
    BY <1>0, <1>J, <1>S, <1>6 DEF AgreedIsWhole, Gate!Job, Gate!JudgeSleep, Gate!Remember
  <2>4. WaitedForTwo'
    BY <1>0, <1>J, <1>S, <1>6 DEF WaitedForTwo, Gate!Job, Gate!JudgeSleep, Gate!Remember
  <2>5. MergesForAReason'
    BY <1>0, <1>J, <1>S, <1>6 DEF MergesForAReason, Gate!Job, Gate!JudgeSleep, Gate!Remember
  <2>6. QED
    BY <2>1, <2>2, <2>3, <2>4, <2>5
<1>7. CASE Gate!Wake
  <2>1. NextIsDue'
    BY <1>0, <1>J, <1>S, <1>7 DEF NextIsDue, Gate!Job, Gate!Wake
  <2>2. PolledIsThere'
    BY <1>0, <1>J, <1>S, <1>7 DEF PolledIsThere, Gate!Job, Gate!Wake
  <2>3. AgreedIsWhole'
    BY <1>0, <1>J, <1>S, <1>7 DEF AgreedIsWhole, Gate!Job, Gate!Wake
  <2>4. WaitedForTwo'
    BY <1>0, <1>J, <1>S, <1>7 DEF WaitedForTwo, Gate!Job, Gate!Wake
  <2>5. MergesForAReason'
    BY <1>0, <1>J, <1>S, <1>7 DEF MergesForAReason, Gate!Job, Gate!Wake
  <2>6. QED
    BY <2>1, <2>2, <2>3, <2>4, <2>5
<1>8. CASE Gate!Decide
  <2>1. NextIsDue'
    BY <1>0, <1>J, <1>S, <1>8 DEF NextIsDue, Gate!Job, Gate!Decide, Gate!Verdict
  <2>2. PolledIsThere'
    BY <1>0, <1>J, <1>S, <1>8 DEF PolledIsThere, Gate!Job, Gate!Decide, Gate!Verdict
  <2>3. AgreedIsWhole'
    BY <1>0, <1>J, <1>S, <1>8 DEF AgreedIsWhole, Gate!Job, Gate!Decide, Gate!Verdict
  <2>4. WaitedForTwo'
    BY <1>0, <1>J, <1>S, <1>8 DEF WaitedForTwo, Gate!Job, Gate!Decide, Gate!Verdict
  <2>5. MergesForAReason'
    BY <1>0, <1>J, <1>S, <1>8 DEF MergesForAReason, Gate!Job, Gate!Decide, Gate!Verdict,
       Gate!NoneAllowed, Gate!EvaluateChecks, Gate!elapsed
  <2>6. QED
    BY <2>1, <2>2, <2>3, <2>4, <2>5
<1>9. CASE Gate!Comment
  <2>1. NextIsDue'
    BY <1>0, <1>J, <1>S, <1>9 DEF NextIsDue, Gate!Job, Gate!Comment
  <2>2. PolledIsThere'
    BY <1>0, <1>J, <1>S, <1>9 DEF PolledIsThere, Gate!Job, Gate!Comment
  <2>3. AgreedIsWhole'
    BY <1>0, <1>J, <1>S, <1>9 DEF AgreedIsWhole, Gate!Job, Gate!Comment
  <2>4. WaitedForTwo'
    BY <1>0, <1>J, <1>S, <1>9 DEF WaitedForTwo, Gate!Job, Gate!Comment
  <2>5. MergesForAReason'
    BY <1>0, <1>J, <1>S, <1>9 DEF MergesForAReason, Gate!Job, Gate!Comment
  <2>6. QED
    BY <2>1, <2>2, <2>3, <2>4, <2>5
<1>10. CASE Gate!MergePR
  <2>1. NextIsDue'
    BY <1>0, <1>J, <1>S, <1>10 DEF NextIsDue, Gate!Job, Gate!MergePR
  <2>2. PolledIsThere'
    BY <1>0, <1>J, <1>S, <1>10 DEF PolledIsThere, Gate!Job, Gate!MergePR
  <2>3. AgreedIsWhole'
    BY <1>0, <1>J, <1>S, <1>10 DEF AgreedIsWhole, Gate!Job, Gate!MergePR
  <2>4. WaitedForTwo'
    BY <1>0, <1>J, <1>S, <1>10 DEF WaitedForTwo, Gate!Job, Gate!MergePR
  <2>5. MergesForAReason'
    BY <1>0, <1>J, <1>S, <1>10 DEF MergesForAReason, Gate!Job, Gate!MergePR
  <2>6. QED
    BY <2>1, <2>2, <2>3, <2>4, <2>5
<1>11. ASSUME NEW c \in Checks, Gate!Register(c) PROVE Rest'
  <2>0. /\ Gate!checkNameSet(board') = Gate!checkNameSet(board) \union {c}
        /\ c \notin Gate!checkNameSet(board)
    BY <1>0, <1>11 DEF Gate!Register, Gate!checkNameSet, Gate!Boards
  <2>1. NextIsDue'
    BY <1>0, <1>J, <1>S, <1>11 DEF NextIsDue, Gate!Register
  <2>2. PolledIsThere'
    BY <1>0, <1>J, <1>S, <1>11, <2>0 DEF PolledIsThere, Gate!Register
  <2>3. AgreedIsWhole'
    BY <1>0, <1>J, <1>S, <1>11 DEF AgreedIsWhole, Gate!Job, Gate!Register
  <2>4. WaitedForTwo'
    BY <1>0, <1>J, <1>S, <1>11 DEF WaitedForTwo, Gate!Job, Gate!Register
  <2>5. MergesForAReason'
    BY <1>0, <1>J, <1>S, <1>11 DEF MergesForAReason, Gate!Job, Gate!Register
  <2>6. QED
    BY <2>1, <2>2, <2>3, <2>4, <2>5
<1>12. ASSUME NEW c \in Checks, Gate!Rerun(c) PROVE Rest'
  <2>0. Gate!checkNameSet(board') = Gate!checkNameSet(board)
    BY <1>0, <1>12 DEF Gate!Rerun, Gate!checkNameSet, Gate!Boards
  <2>1. NextIsDue'
    BY <1>0, <1>J, <1>S, <1>12, <2>0 DEF NextIsDue, Gate!Rerun
  <2>2. PolledIsThere'
    BY <1>0, <1>J, <1>S, <1>12, <2>0 DEF PolledIsThere, Gate!Rerun
  <2>3. AgreedIsWhole'
    BY <1>0, <1>J, <1>S, <1>12 DEF AgreedIsWhole, Gate!Job, Gate!Rerun
  <2>4. WaitedForTwo'
    BY <1>0, <1>J, <1>S, <1>12 DEF WaitedForTwo, Gate!Job, Gate!Rerun
  <2>5. MergesForAReason'
    BY <1>0, <1>J, <1>S, <1>12 DEF MergesForAReason, Gate!Job, Gate!Rerun
  <2>6. QED
    BY <2>1, <2>2, <2>3, <2>4, <2>5
<1>13. ASSUME NEW c \in Checks, NEW b \in {"pass", "fail"}, Gate!Finish(c, b) PROVE Rest'
  <2>0. Gate!checkNameSet(board') = Gate!checkNameSet(board)
    BY <1>0, <1>13 DEF Gate!Finish, Gate!checkNameSet, Gate!Boards
  <2>1. NextIsDue'
    BY <1>0, <1>J, <1>S, <1>13, <2>0 DEF NextIsDue, Gate!Finish
  <2>2. PolledIsThere'
    BY <1>0, <1>J, <1>S, <1>13, <2>0 DEF PolledIsThere, Gate!Finish
  <2>3. AgreedIsWhole'
    BY <1>0, <1>J, <1>S, <1>13 DEF AgreedIsWhole, Gate!Job, Gate!Finish
  <2>4. WaitedForTwo'
    BY <1>0, <1>J, <1>S, <1>13 DEF WaitedForTwo, Gate!Job, Gate!Finish
  <2>5. MergesForAReason'
    BY <1>0, <1>J, <1>S, <1>13 DEF MergesForAReason, Gate!Job, Gate!Finish
  <2>6. QED
    BY <2>1, <2>2, <2>3, <2>4, <2>5
<1>14. CASE Gate!PushCommit
  <2>1. NextIsDue'
    BY <1>0, <1>J, <1>S, <1>14 DEF NextIsDue, Gate!Job, Gate!PushCommit
  <2>2. PolledIsThere'
    BY <1>0, <1>J, <1>S, <1>14 DEF PolledIsThere, Gate!Job, Gate!PushCommit
  <2>3. AgreedIsWhole'
    BY <1>0, <1>J, <1>S, <1>14 DEF AgreedIsWhole, Gate!Job, Gate!PushCommit
  <2>4. WaitedForTwo'
    BY <1>0, <1>J, <1>S, <1>14 DEF WaitedForTwo, Gate!Job, Gate!PushCommit
  <2>5. MergesForAReason'
    BY <1>0, <1>J, <1>S, <1>14 DEF MergesForAReason, Gate!Job, Gate!PushCommit
  <2>6. QED
    BY <2>1, <2>2, <2>3, <2>4, <2>5
<1>15. CASE Gate!Tick
  <2>1. NextIsDue'
    BY <1>0, <1>J, <1>S, <1>15 DEF NextIsDue, Gate!Tick, Gate!Overdue
  <2>2. PolledIsThere'
    BY <1>0, <1>J, <1>S, <1>15 DEF PolledIsThere, Gate!Job, Gate!Tick
  <2>3. AgreedIsWhole'
    BY <1>0, <1>J, <1>S, <1>15 DEF AgreedIsWhole, Gate!Job, Gate!Tick
  <2>4. WaitedForTwo'
    BY <1>0, <1>J, <1>S, <1>15 DEF WaitedForTwo, Gate!Job, Gate!Tick
  <2>5. MergesForAReason'
    BY <1>0, <1>J, <1>S, <1>15 DEF MergesForAReason, Gate!Job, Gate!Tick
  <2>6. QED
    BY <2>1, <2>2, <2>3, <2>4, <2>5
<1>16. CASE UNCHANGED Gate!vars
  <2>1. NextIsDue'
    BY <1>0, <1>S, <1>16 DEF NextIsDue, Gate!vars
  <2>2. PolledIsThere'
    BY <1>0, <1>S, <1>16 DEF PolledIsThere, Gate!vars
  <2>3. AgreedIsWhole'
    BY <1>0, <1>S, <1>16 DEF AgreedIsWhole, Gate!vars
  <2>4. WaitedForTwo'
    BY <1>0, <1>S, <1>16 DEF WaitedForTwo, Gate!vars
  <2>5. MergesForAReason'
    BY <1>0, <1>S, <1>16 DEF MergesForAReason, Gate!vars
  <2>6. QED
    BY <2>1, <2>2, <2>3, <2>4, <2>5
<1>17. QED
  BY <1>1, <1>2, <1>3, <1>4, <1>5, <1>6, <1>7, <1>8, <1>9, <1>10, <1>11, <1>12, <1>13, <1>14, <1>15, <1>16 DEF Gate!Next, Gate!Step, Gate!Forge

LEMMA GateGives ==
  GateInv => Gate!CompleteListBelieved /\ Gate!MergedForAReason
<1> SUFFICES ASSUME GateInv
             PROVE  Gate!CompleteListBelieved /\ Gate!MergedForAReason
  OBVIOUS
<1>1. Gate!CompleteListBelieved
  BY DEF GateInv, WaitedForTwo, AgreedIsWhole, Gate!CompleteListBelieved
<1>2. Gate!MergedForAReason
  BY DEF GateInv, MergesForAReason, Gate!MergedForAReason, Gate!elapsed
<1>3. QED
  BY <1>1, <1>2

(* A list of checks that a waiting command acts on is complete, whatever   *)
(* the poll interval, as long as checks register in less than it.          *)
THEOREM GateBelievesTheWhole == Gate!Spec => []Gate!CompleteListBelieved
BY GateInit, GateStep, GateGives, PTL DEF Gate!Spec

(* Every merge has passed checks, an override on record or a caller who    *)
(* allowed a commit without any, past the register window.                 *)
THEOREM GateMergesForAReason == Gate!Spec => []Gate!MergedForAReason
BY GateInit, GateStep, GateGives, PTL DEF Gate!Spec

-----------------------------------------------------------------------------
(* OwnerDesk.  Copies of a command whose files nobody replaced since are   *)
(* the files as they are.                                                  *)
CopiesHold ==
  \A p \in Procs :
    /\ cmd[p].phase = "write" /\ p \notin stale => cmd[p].copy = file
    /\ cmd[p].phase = "confirm" /\ p \notin stale => cmd[p].rec = vault

(* What a command holds suits what it does.                                *)
CommandsHold ==
  \A p \in Procs :
    /\ cmd[p].phase \in {"new", "prove"} => cmd[p].name = "seal"
    /\ cmd[p].phase = "confirm" => cmd[p].name = "rotate"
    /\ cmd[p].phase = "sign" => cmd[p].name = "create"
    /\ cmd[p].phase \in {"load", "write"} =>
         cmd[p].name \in {"create", "revoke", "revokeAll"}
    /\ cmd[p].phase = "write" /\ cmd[p].name = "revoke" =>
         cmd[p].copy[cmd[p].invite] # "absent"

(* An invitation is signed once.                                           *)
SignedOnce ==
  \A p, q \in Procs :
    ( /\ cmd[p].name = "create" /\ cmd[q].name = "create"
      /\ cmd[p].phase \in {"load", "write", "done"}
      /\ cmd[q].phase \in {"load", "write", "done"}
      /\ cmd[p].invite = cmd[q].invite ) => p = q

(* Until its signer has written it an invitation is not on file, and       *)
(* nothing was said about it.                                              *)
Unheard(i) ==
  /\ file[i] = "absent"
  /\ <<"issued", i>> \notin answered
  /\ <<"revoked", i>> \notin answered

HeardWhenWritten ==
  ~clashed =>
    /\ \A i \in InviteIds : ~Desk!InHand(i) => Unheard(i)
    /\ \A p \in Procs :
         cmd[p].name = "create" /\ cmd[p].phase \in {"load", "write"}
           => Unheard(cmd[p].invite)

DeskInv ==
  /\ Desk!TypeOK
  /\ CopiesHold
  /\ CommandsHold
  /\ SignedOnce
  /\ HeardWhenWritten
  /\ Desk!ReportsHoldWithoutClash

LEMMA DeskInit == Desk!Init => DeskInv
<1> SUFFICES ASSUME Desk!Init PROVE DeskInv
  OBVIOUS
<1>1. Desk!TypeOK
  <2>1. 0 \in Desk!Secrets /\ drawn \in Desk!Secrets /\ server \in Desk!Secrets
    BY PartsAssumption DEF Desk!Init, Desk!Secrets
  <2>2. vault \in Desk!OwnerRecord
    BY <2>1 DEF Desk!Init, Desk!OwnerRecord
  <2>3. Desk!NoInvites \in Desk!Files /\ file \in Desk!Files
    BY DEF Desk!Init, Desk!Files, Desk!Statuses, Desk!NoInvites
  <2>4. cmd \in [Procs -> Desk!Cmd]
    BY <2>1, <2>2, <2>3 DEF Desk!Init, Desk!Cmd, Desk!Phases
  <2>5. signedBy \in [InviteIds -> Desk!Secrets]
    BY <2>1 DEF Desk!Init
  <2>6. clashed \in BOOLEAN
    BY DEF Desk!Init
  <2>7. QED
    BY <2>1, <2>2, <2>3, <2>4, <2>5, <2>6 DEF Desk!Init, Desk!TypeOK
<1>2. CopiesHold /\ CommandsHold /\ SignedOnce
  BY DEF Desk!Init, CopiesHold, CommandsHold, SignedOnce
<1>3. HeardWhenWritten
  BY DEF Desk!Init, HeardWhenWritten, Unheard, Desk!NoInvites
<1>4. Desk!ReportsHoldWithoutClash
  BY DEF Desk!Init, Desk!ReportsHoldWithoutClash
<1>5. QED
  BY <1>1, <1>2, <1>3, <1>4 DEF DeskInv

LEMMA DeskTypes == Desk!TypeOK /\ [Desk!Next]_(Desk!vars) => Desk!TypeOK'
<1> SUFFICES ASSUME Desk!TypeOK, [Desk!Next]_(Desk!vars)
             PROVE  Desk!TypeOK'
  OBVIOUS
<1>0. /\ vault \in Desk!OwnerRecord /\ drawn \in Desk!Secrets /\ file \in Desk!Files
      /\ signedBy \in [InviteIds -> Desk!Secrets] /\ server \in Desk!Secrets
      /\ cmd \in [Procs -> Desk!Cmd] /\ retired \subseteq Desk!Secrets
      /\ sealed \in Emails \union {NoOwner}
      /\ answered \subseteq {"issued", "revoked"} \X InviteIds
      /\ stale \subseteq Procs /\ clashed \in BOOLEAN
  BY DEF Desk!TypeOK
<1>1. \A p \in Procs, f \in Desk!Phases :
        Desk!GoTo(p, f) => cmd' \in [Procs -> Desk!Cmd]
  BY <1>0 DEF Desk!GoTo, Desk!Cmd
<1>2. \A p \in Procs, c \in Desk!Cmd :
        Desk!Put(p, c) => cmd' \in [Procs -> Desk!Cmd]
  BY <1>0 DEF Desk!Put
<1>3. \A p \in Procs : /\ cmd[p] \in Desk!Cmd /\ cmd[p].rec \in Desk!OwnerRecord
                       /\ cmd[p].email \in Emails /\ cmd[p].invite \in InviteIds
                       /\ cmd[p].copy \in Desk!Files
  BY <1>0 DEF Desk!Cmd
<1> USE DEF Desk!history
<1>4. ASSUME NEW p \in Procs, NEW e \in Emails, NEW force \in BOOLEAN, Desk!SealBegin(p, e, force) PROVE Desk!TypeOK'
  <2>1. /\ [cmd[p] EXCEPT !.phase = "prove", !.email = e] \in Desk!Cmd
        /\ "done" \in Desk!Phases
    BY <1>3 DEF Desk!Cmd, Desk!Phases
  <2>2. cmd' \in [Procs -> Desk!Cmd]
    BY <1>1, <1>2, <1>4, <2>1 DEF Desk!SealBegin
  <2>3. QED
    BY <1>0, <1>4, <2>1, <2>2 DEF Desk!TypeOK, Desk!SealBegin
<1>5. ASSUME NEW p \in Procs, Desk!SealSave(p) PROVE Desk!TypeOK'
  <2>1. cmd' \in [Procs -> Desk!Cmd]
    BY <1>1, <1>5 DEF Desk!SealSave, Desk!Phases
  <2>2. drawn + 1 \in Desk!Secrets
    BY <1>0, <1>5, PartsAssumption DEF Desk!SealSave, Desk!Secrets
  <2>3. vault' \in Desk!OwnerRecord /\ drawn' \in Desk!Secrets
        /\ sealed' \in Emails \union {NoOwner}
    BY <1>3, <1>5, <2>2 DEF Desk!SealSave, Desk!OwnerRecord
  <2>4. stale' \subseteq Procs
    BY <1>0, <1>5 DEF Desk!SealSave, Desk!Holders
  <2>5. QED
    BY <1>0, <1>5, <2>1, <2>2, <2>3, <2>4 DEF Desk!TypeOK, Desk!SealSave
<1>6. ASSUME NEW p \in Procs, Desk!RotateLoad(p) PROVE Desk!TypeOK'
  <2>1. [cmd[p] EXCEPT !.phase = "confirm", !.name = "rotate",
                            !.rec = vault] \in Desk!Cmd
    BY <1>0, <1>3 DEF Desk!Cmd, Desk!Phases
  <2>2. cmd' \in [Procs -> Desk!Cmd]
    BY <1>1, <1>2, <1>6, <2>1 DEF Desk!RotateLoad
  <2>3. QED
    BY <1>0, <1>6, <2>1, <2>2 DEF Desk!TypeOK, Desk!RotateLoad
<1>7. ASSUME NEW p \in Procs, Desk!RotateSave(p) PROVE Desk!TypeOK'
  <2>1. cmd' \in [Procs -> Desk!Cmd]
    BY <1>1, <1>7 DEF Desk!RotateSave, Desk!Phases
  <2>2. drawn + 1 \in Desk!Secrets
    BY <1>0, <1>7, PartsAssumption DEF Desk!RotateSave, Desk!Secrets
  <2>3. /\ vault' \in Desk!OwnerRecord /\ drawn' \in Desk!Secrets
        /\ retired' \subseteq Desk!Secrets
    BY <1>0, <1>3, <1>7, <2>2 DEF Desk!RotateSave, Desk!OwnerRecord
  <2>4. clashed' \in BOOLEAN
    BY <1>7 DEF Desk!RotateSave
  <2>5. stale' \subseteq Procs
    BY <1>0, <1>7 DEF Desk!RotateSave, Desk!Holders
  <2>6. QED
    BY <1>0, <1>7, <2>1, <2>2, <2>3, <2>4, <2>5 DEF Desk!TypeOK, Desk!RotateSave
<1>8. ASSUME NEW p \in Procs, NEW insecure \in BOOLEAN, Desk!CreateBegin(p, insecure) PROVE Desk!TypeOK'
  <2>1. [cmd[p] EXCEPT !.phase = "sign", !.name = "create",
                            !.rec = vault] \in Desk!Cmd
    BY <1>0, <1>3 DEF Desk!Cmd, Desk!Phases
  <2>2. cmd' \in [Procs -> Desk!Cmd]
    BY <1>1, <1>2, <1>8, <2>1 DEF Desk!CreateBegin
  <2>3. QED
    BY <1>0, <1>8, <2>1, <2>2 DEF Desk!TypeOK, Desk!CreateBegin
<1>9. ASSUME NEW p \in Procs, NEW i \in InviteIds, Desk!GenerateToken(p, i) PROVE Desk!TypeOK'
  <2>1. [cmd[p] EXCEPT !.phase = "load", !.invite = i] \in Desk!Cmd
    BY <1>0, <1>3 DEF Desk!Cmd, Desk!Phases
  <2>2. cmd' \in [Procs -> Desk!Cmd]
    BY <1>1, <1>2, <1>9, <2>1 DEF Desk!GenerateToken
  <2>3. signedBy' \in [InviteIds -> Desk!Secrets]
    BY <1>0, <1>3, <1>9 DEF Desk!GenerateToken, Desk!OwnerRecord
  <2>4. QED
    BY <1>0, <1>9, <2>1, <2>2, <2>3 DEF Desk!TypeOK, Desk!GenerateToken
<1>10. ASSUME NEW p \in Procs, NEW i \in InviteIds, Desk!RevokeBegin(p, i) PROVE Desk!TypeOK'
  <2>1. [cmd[p] EXCEPT !.phase = "load", !.name = "revoke",
                            !.invite = i] \in Desk!Cmd
    BY <1>0, <1>3 DEF Desk!Cmd, Desk!Phases
  <2>2. cmd' \in [Procs -> Desk!Cmd]
    BY <1>1, <1>2, <1>10, <2>1 DEF Desk!RevokeBegin
  <2>3. QED
    BY <1>0, <1>10, <2>1, <2>2 DEF Desk!TypeOK, Desk!RevokeBegin
<1>11. ASSUME NEW p \in Procs, Desk!RevokeAllBegin(p) PROVE Desk!TypeOK'
  <2>1. [cmd[p] EXCEPT !.phase = "load", !.name = "revokeAll"] \in Desk!Cmd
    BY <1>0, <1>3 DEF Desk!Cmd, Desk!Phases
  <2>2. cmd' \in [Procs -> Desk!Cmd]
    BY <1>1, <1>2, <1>11, <2>1 DEF Desk!RevokeAllBegin
  <2>3. QED
    BY <1>0, <1>11, <2>1, <2>2 DEF Desk!TypeOK, Desk!RevokeAllBegin
<1>12. ASSUME NEW p \in Procs, Desk!loadRecords(p) PROVE Desk!TypeOK'
  <2>1. \A f \in Desk!Phases : [cmd[p] EXCEPT !.copy = file, !.phase = f] \in Desk!Cmd
    BY <1>0, <1>3 DEF Desk!Cmd
  <2>2. \E f \in {"failed", "done", "write"} :
          Desk!Put(p, [cmd[p] EXCEPT !.copy = file, !.phase = f])
    BY <1>12 DEF Desk!loadRecords
  <2>3. cmd' \in [Procs -> Desk!Cmd]
    BY <1>2, <2>1, <2>2 DEF Desk!Phases
  <2>4. QED
    BY <1>0, <1>12, <2>1, <2>2, <2>3 DEF Desk!TypeOK, Desk!loadRecords
<1>13. ASSUME NEW p \in Procs, Desk!saveRecords(p) PROVE Desk!TypeOK'
  <2>1. cmd' \in [Procs -> Desk!Cmd]
    BY <1>1, <1>13 DEF Desk!saveRecords, Desk!Phases
  <2>2. file' \in Desk!Files
    BY <1>3, <1>13 DEF Desk!saveRecords, Desk!Changed, Desk!Files, Desk!Statuses
  <2>3. Desk!Reported(cmd[p]) \subseteq {"issued", "revoked"} \X InviteIds
    BY <1>3 DEF Desk!Reported
  <2>4. answered' \subseteq {"issued", "revoked"} \X InviteIds
    BY <1>0, <1>13, <2>3 DEF Desk!saveRecords
  <2>5. clashed' \in BOOLEAN
    BY <1>13 DEF Desk!saveRecords
  <2>6. stale' \subseteq Procs
    BY <1>0, <1>13 DEF Desk!saveRecords, Desk!Holders
  <2>7. QED
    BY <1>0, <1>13, <2>1, <2>2, <2>3, <2>4, <2>5, <2>6 DEF Desk!TypeOK, Desk!saveRecords
<1>14. ASSUME NEW p \in Procs, Desk!Fail(p) PROVE Desk!TypeOK'
  <2>1. cmd' \in [Procs -> Desk!Cmd]
    BY <1>1, <1>14 DEF Desk!Fail, Desk!Phases
  <2>2. QED
    BY <1>0, <1>14, <2>1 DEF Desk!TypeOK, Desk!Fail
<1>15. CASE Desk!ServerStart
  BY <1>0, <1>15 DEF Desk!ServerStart, Desk!TypeOK, Desk!OwnerRecord
<1>16. CASE UNCHANGED Desk!vars
  BY <1>0, <1>16 DEF Desk!vars, Desk!TypeOK
<1>17. QED
  BY <1>4, <1>5, <1>6, <1>7, <1>8, <1>9, <1>10, <1>11, <1>12, <1>13, <1>14, <1>15, <1>16 DEF Desk!Next

LEMMA DeskStep == DeskInv /\ [Desk!Next]_(Desk!vars) => DeskInv'
<1> DEFINE Rest == /\ CopiesHold /\ CommandsHold /\ SignedOnce
                   /\ HeardWhenWritten /\ Desk!ReportsHoldWithoutClash
<1> SUFFICES ASSUME DeskInv, [Desk!Next]_(Desk!vars)
             PROVE  Rest'
  BY DeskTypes DEF DeskInv
<1>0. /\ CopiesHold /\ CommandsHold /\ SignedOnce
      /\ HeardWhenWritten /\ Desk!ReportsHoldWithoutClash
      /\ cmd \in [Procs -> Desk!Cmd] /\ vault \in Desk!OwnerRecord
      /\ stale \subseteq Procs
  BY DEF DeskInv, Desk!TypeOK
<1> USE DEF Desk!history, Desk!Put, Desk!GoTo, Desk!Holders, Desk!Cmd
<1>1. ASSUME NEW p \in Procs, NEW e \in Emails, NEW force \in BOOLEAN, Desk!SealBegin(p, e, force) PROVE Rest'
  <2>0. /\ cmd[p].phase = "new" /\ cmd[p].name = "seal" /\ cmd'[p].name = "seal"
        /\ cmd'[p].phase \in {"done", "prove"}
        /\ \A q \in Procs \ {p} : cmd'[q] = cmd[q]
        /\ UNCHANGED <<file, answered, clashed, stale, vault>>
    BY <1>0, <1>1 DEF Desk!SealBegin, CommandsHold
  <2>1. CopiesHold'
    BY <1>0, <1>1 DEF CopiesHold, Desk!SealBegin
  <2>2. CommandsHold'
    BY <1>0, <2>0 DEF CommandsHold
  <2>3. SignedOnce'
    BY <1>0, <2>0 DEF SignedOnce
  <2>4. HeardWhenWritten'
    BY <1>0, <2>0 DEF HeardWhenWritten, Desk!InHand, Unheard
  <2>5. Desk!ReportsHoldWithoutClash'
    BY <1>0, <1>1 DEF Desk!ReportsHoldWithoutClash, Desk!SealBegin
  <2>6. QED
    BY <2>1, <2>2, <2>3, <2>4, <2>5
<1>2. ASSUME NEW p \in Procs, Desk!SealSave(p) PROVE Rest'
  <2>1. CopiesHold'
    BY <1>0, <1>2 DEF CopiesHold, Desk!SealSave, Desk!OwnerRecord
  <2>2. CommandsHold'
    BY <1>0, <1>2 DEF CommandsHold, Desk!SealSave
  <2>3. SignedOnce'
    BY <1>0, <1>2 DEF SignedOnce, CommandsHold, Desk!SealSave
  <2>4. HeardWhenWritten'
    BY <1>0, <1>2 DEF HeardWhenWritten, CommandsHold, Desk!SealSave, Desk!InHand, Unheard
  <2>5. Desk!ReportsHoldWithoutClash'
    BY <1>0, <1>2 DEF Desk!ReportsHoldWithoutClash, Desk!SealSave
  <2>6. QED
    BY <2>1, <2>2, <2>3, <2>4, <2>5
<1>3. ASSUME NEW p \in Procs, Desk!RotateLoad(p) PROVE Rest'
  <2>1. CopiesHold'
    BY <1>0, <1>3 DEF CopiesHold, Desk!RotateLoad
  <2>2. CommandsHold'
    BY <1>0, <1>3 DEF CommandsHold, Desk!RotateLoad
  <2>3. SignedOnce'
    BY <1>0, <1>3 DEF SignedOnce, Desk!RotateLoad
  <2>4. HeardWhenWritten'
    BY <1>0, <1>3 DEF HeardWhenWritten, Desk!RotateLoad, Desk!InHand, Unheard
  <2>5. Desk!ReportsHoldWithoutClash'
    BY <1>0, <1>3 DEF Desk!ReportsHoldWithoutClash, Desk!RotateLoad
  <2>6. QED
    BY <2>1, <2>2, <2>3, <2>4, <2>5
<1>4. ASSUME NEW p \in Procs, Desk!RotateSave(p) PROVE Rest'
  <2>1. CopiesHold'
    BY <1>0, <1>4 DEF CopiesHold, Desk!RotateSave, Desk!OwnerRecord
  <2>2. CommandsHold'
    BY <1>0, <1>4 DEF CommandsHold, Desk!RotateSave
  <2>3. SignedOnce'
    BY <1>0, <1>4 DEF SignedOnce, CommandsHold, Desk!RotateSave
  <2>4. HeardWhenWritten'
    BY <1>0, <1>4 DEF HeardWhenWritten, CommandsHold, Desk!RotateSave, Desk!InHand, Unheard
  <2>5. Desk!ReportsHoldWithoutClash'
    <3> SUFFICES ASSUME ~clashed' PROVE vault'.owner = sealed'
      BY <1>0, <1>4 DEF Desk!ReportsHoldWithoutClash, Desk!RotateSave
    <3>1. p \notin stale /\ ~clashed /\ cmd[p].phase = "confirm"
      BY <1>4 DEF Desk!RotateSave
    <3>2. vault' = [vault EXCEPT !.secret = drawn + 1] /\ sealed' = sealed
      BY <1>0, <1>4, <3>1 DEF Desk!RotateSave, CopiesHold
    <3>3. vault'.owner = vault.owner
      BY <1>0, <3>2 DEF Desk!OwnerRecord
    <3>4. QED
      BY <1>0, <3>1, <3>2, <3>3 DEF Desk!ReportsHoldWithoutClash
  <2>6. QED
    BY <2>1, <2>2, <2>3, <2>4, <2>5
<1>5. ASSUME NEW p \in Procs, NEW insecure \in BOOLEAN, Desk!CreateBegin(p, insecure) PROVE Rest'
  <2>1. CopiesHold'
    BY <1>0, <1>5 DEF CopiesHold, Desk!CreateBegin
  <2>2. CommandsHold'
    BY <1>0, <1>5 DEF CommandsHold, Desk!CreateBegin
  <2>3. SignedOnce'
    BY <1>0, <1>5 DEF SignedOnce, Desk!CreateBegin
  <2>4. HeardWhenWritten'
    BY <1>0, <1>5 DEF HeardWhenWritten, Desk!CreateBegin, Desk!InHand, Unheard
  <2>5. Desk!ReportsHoldWithoutClash'
    BY <1>0, <1>5 DEF Desk!ReportsHoldWithoutClash, Desk!CreateBegin
  <2>6. QED
    BY <2>1, <2>2, <2>3, <2>4, <2>5
<1>6. ASSUME NEW p \in Procs, NEW i \in InviteIds, Desk!GenerateToken(p, i) PROVE Rest'
  <2>1. CopiesHold'
    BY <1>0, <1>6 DEF CopiesHold, Desk!GenerateToken
  <2>2. CommandsHold'
    BY <1>0, <1>6 DEF CommandsHold, Desk!GenerateToken
  <2>3. SignedOnce'
    BY <1>0, <1>6 DEF SignedOnce, Desk!GenerateToken, Desk!InHand
  <2>4. HeardWhenWritten'
    BY <1>0, <1>6 DEF HeardWhenWritten, Desk!GenerateToken, Desk!InHand, Unheard
  <2>5. Desk!ReportsHoldWithoutClash'
    BY <1>0, <1>6 DEF Desk!ReportsHoldWithoutClash, Desk!GenerateToken
  <2>6. QED
    BY <2>1, <2>2, <2>3, <2>4, <2>5
<1>7. ASSUME NEW p \in Procs, NEW i \in InviteIds, Desk!RevokeBegin(p, i) PROVE Rest'
  <2>1. CopiesHold'
    BY <1>0, <1>7 DEF CopiesHold, Desk!RevokeBegin
  <2>2. CommandsHold'
    BY <1>0, <1>7 DEF CommandsHold, Desk!RevokeBegin
  <2>3. SignedOnce'
    BY <1>0, <1>7 DEF SignedOnce, Desk!RevokeBegin
  <2>4. HeardWhenWritten'
    BY <1>0, <1>7 DEF HeardWhenWritten, Desk!RevokeBegin, Desk!InHand, Unheard
  <2>5. Desk!ReportsHoldWithoutClash'
    BY <1>0, <1>7 DEF Desk!ReportsHoldWithoutClash, Desk!RevokeBegin
  <2>6. QED
    BY <2>1, <2>2, <2>3, <2>4, <2>5
<1>8. ASSUME NEW p \in Procs, Desk!RevokeAllBegin(p) PROVE Rest'
  <2>1. CopiesHold'
    BY <1>0, <1>8 DEF CopiesHold, Desk!RevokeAllBegin
  <2>2. CommandsHold'
    BY <1>0, <1>8 DEF CommandsHold, Desk!RevokeAllBegin
  <2>3. SignedOnce'
    BY <1>0, <1>8 DEF SignedOnce, Desk!RevokeAllBegin
  <2>4. HeardWhenWritten'
    BY <1>0, <1>8 DEF HeardWhenWritten, Desk!RevokeAllBegin, Desk!InHand, Unheard
  <2>5. Desk!ReportsHoldWithoutClash'
    BY <1>0, <1>8 DEF Desk!ReportsHoldWithoutClash, Desk!RevokeAllBegin
  <2>6. QED
    BY <2>1, <2>2, <2>3, <2>4, <2>5
<1>9. ASSUME NEW p \in Procs, Desk!loadRecords(p) PROVE Rest'
  <2>1. CopiesHold'
    BY <1>0, <1>9 DEF CopiesHold, Desk!loadRecords
  <2>2. CommandsHold'
    BY <1>0, <1>9 DEF CommandsHold, Desk!loadRecords
  <2>3. SignedOnce'
    BY <1>0, <1>9 DEF SignedOnce, Desk!loadRecords
  <2>4. HeardWhenWritten'
    BY <1>0, <1>9 DEF HeardWhenWritten, Desk!loadRecords, Desk!InHand, Unheard
  <2>5. Desk!ReportsHoldWithoutClash'
    BY <1>0, <1>9 DEF Desk!ReportsHoldWithoutClash, Desk!loadRecords
  <2>6. QED
    BY <2>1, <2>2, <2>3, <2>4, <2>5
<1>10. ASSUME NEW p \in Procs, Desk!saveRecords(p) PROVE Rest'
  <2>1. CopiesHold'
    BY <1>0, <1>10 DEF CopiesHold, Desk!saveRecords
  <2>2. CommandsHold'
    BY <1>0, <1>10 DEF CommandsHold, Desk!saveRecords
  <2>3. SignedOnce'
    BY <1>0, <1>10 DEF SignedOnce, Desk!saveRecords
  <2>4. HeardWhenWritten'
    <3> SUFFICES ASSUME ~clashed' PROVE HeardWhenWritten'
      BY DEF HeardWhenWritten
    <3>1. /\ ~clashed /\ p \notin stale /\ cmd[p].copy = file
          /\ cmd[p].phase = "write" /\ cmd[p].name \in {"create", "revoke", "revokeAll"}
          /\ cmd[p].name = "revoke" => file[cmd[p].invite] # "absent"
          /\ cmd[p].invite \in InviteIds
      BY <1>0, <1>10 DEF Desk!saveRecords, CopiesHold, CommandsHold
    <3>2. /\ cmd'[p].phase = "done" /\ cmd'[p].name = cmd[p].name
          /\ cmd'[p].invite = cmd[p].invite
          /\ \A q \in Procs \ {p} : cmd'[q] = cmd[q]
      BY <1>0, <1>10 DEF Desk!saveRecords
    <3>3. ASSUME NEW i \in InviteIds, Unheard(i),
                 cmd[p].name = "create" => i # cmd[p].invite
          PROVE  Unheard(i)'
      <4>1. file'[i] = "absent"
        BY <1>10, <3>1, <3>3 DEF Desk!saveRecords, Desk!Changed, Unheard
      <4>2. <<"issued", i>> \notin Desk!Reported(cmd[p])
        BY <3>3 DEF Desk!Reported
      <4>3. <<"revoked", i>> \notin Desk!Reported(cmd[p])
        BY <1>10, <4>1 DEF Desk!Reported, Desk!saveRecords
      <4>4. QED
        BY <1>10, <3>3, <4>1, <4>2, <4>3 DEF Desk!saveRecords, Unheard
    <3>4. ASSUME NEW i \in InviteIds, ~Desk!InHand(i)' PROVE Unheard(i)'
      <4>1. ~Desk!InHand(i)
        BY <3>1, <3>2, <3>4 DEF Desk!InHand
      <4>2. cmd[p].name = "create" => i # cmd[p].invite
        BY <3>2, <3>4 DEF Desk!InHand
      <4>3. QED
        BY <1>0, <3>1, <3>3, <4>1, <4>2 DEF HeardWhenWritten
    <3>5. ASSUME NEW q \in Procs, cmd'[q].name = "create",
                 cmd'[q].phase \in {"load", "write"}
          PROVE  Unheard(cmd[q].invite)' /\ cmd'[q] = cmd[q]
      <4>1. q # p /\ cmd'[q] = cmd[q] /\ cmd[q].invite \in InviteIds
        BY <1>0, <3>2, <3>5
      <4>2. cmd[p].name = "create" => cmd[q].invite # cmd[p].invite
        BY <1>0, <3>1, <3>5, <4>1 DEF SignedOnce
      <4>3. Unheard(cmd[q].invite)
        BY <1>0, <3>1, <3>5, <4>1 DEF HeardWhenWritten
      <4>4. \A i \in InviteIds : i = cmd[q].invite => Unheard(i)'
        BY <3>3, <4>2, <4>3
      <4>5. QED
        BY <4>1, <4>4 DEF Unheard
    <3>6. QED
      BY <3>4, <3>5 DEF HeardWhenWritten, Unheard
  <2>5. Desk!ReportsHoldWithoutClash'
    <3> SUFFICES ASSUME ~clashed', NEW i \in InviteIds
                 PROVE  /\ <<"issued", i>> \in answered' => file'[i] # "absent"
                        /\ <<"revoked", i>> \in answered' => file'[i] = "revoked"
      BY <1>0, <1>10 DEF Desk!ReportsHoldWithoutClash, Desk!saveRecords
    <3>1. /\ ~clashed /\ cmd[p].copy = file /\ cmd[p].invite \in InviteIds
          /\ cmd[p].name \in {"create", "revoke", "revokeAll"}
          /\ cmd[p].name = "create" => Unheard(cmd[p].invite)
      BY <1>0, <1>10 DEF Desk!saveRecords, CopiesHold, CommandsHold, HeardWhenWritten
    <3>2. /\ <<"issued", i>> \in answered => file[i] # "absent"
          /\ <<"revoked", i>> \in answered => file[i] = "revoked"
      BY <1>0, <3>1 DEF Desk!ReportsHoldWithoutClash
    <3>3. /\ file'[i] = Desk!Changed(cmd[p])[i]
          /\ answered' = answered \union Desk!Reported(cmd[p])
      BY <1>10 DEF Desk!saveRecords
    <3>4. CASE <<"issued", i>> \in answered'
      <4>1. CASE <<"issued", i>> \in answered
        <5>1. file'[i] \in {"active", "revoked", file[i]}
          BY <3>1, <3>3 DEF Desk!Changed
        <5>2. file[i] # "absent"
          BY <3>2, <4>1
        <5>3. file'[i] # "absent"
          BY <5>1, <5>2
        <5>4. <<"revoked", i>> \in Desk!Reported(cmd[p]) => file'[i] = "revoked"
          BY <3>3 DEF Desk!Reported
        <5>5. <<"revoked", i>> \in answered => file'[i] = "revoked"
          BY <3>1, <3>2, <3>3 DEF Desk!Changed, Unheard
        <5>6. QED
          BY <3>3, <5>3, <5>4, <5>5
      <4>2. CASE <<"issued", i>> \in Desk!Reported(cmd[p])
        <5>1. cmd[p].name = "create" /\ cmd[p].invite = i
          BY <4>2 DEF Desk!Reported
        <5>2. Desk!Reported(cmd[p]) = {<<"issued", i>>} /\ <<"revoked", i>> \notin answered
          BY <3>1, <5>1 DEF Desk!Reported, Unheard
        <5>3. file'[i] = "active"
          BY <3>3, <5>1 DEF Desk!Changed
        <5>4. QED
          BY <3>3, <5>2, <5>3
      <4>3. QED
        BY <3>3, <3>4, <4>1, <4>2
    <3>5. CASE <<"revoked", i>> \in answered'
      <4>1. CASE <<"revoked", i>> \in answered
        BY <3>1, <3>2, <3>3, <4>1 DEF Desk!Changed, Unheard
      <4>2. CASE <<"revoked", i>> \in Desk!Reported(cmd[p])
        BY <3>3, <4>2 DEF Desk!Reported
      <4>3. QED
        BY <3>3, <3>5, <4>1, <4>2
    <3>6. QED
      BY <3>4, <3>5
  <2>6. QED
    BY <2>1, <2>2, <2>3, <2>4, <2>5
<1>11. ASSUME NEW p \in Procs, Desk!Fail(p) PROVE Rest'
  <2>1. CopiesHold'
    BY <1>0, <1>11 DEF CopiesHold, Desk!Fail
  <2>2. CommandsHold'
    BY <1>0, <1>11 DEF CommandsHold, Desk!Fail
  <2>3. SignedOnce'
    BY <1>0, <1>11 DEF SignedOnce, Desk!Fail
  <2>4. HeardWhenWritten'
    BY <1>0, <1>11 DEF HeardWhenWritten, Desk!Fail, Desk!InHand, Unheard
  <2>5. Desk!ReportsHoldWithoutClash'
    BY <1>0, <1>11 DEF Desk!ReportsHoldWithoutClash, Desk!Fail
  <2>6. QED
    BY <2>1, <2>2, <2>3, <2>4, <2>5
<1>12. CASE Desk!ServerStart \/ UNCHANGED Desk!vars
  <2>1. CopiesHold'
    BY <1>0, <1>12 DEF CopiesHold, Desk!ServerStart, Desk!vars
  <2>2. CommandsHold'
    BY <1>0, <1>12 DEF CommandsHold, Desk!ServerStart, Desk!vars
  <2>3. SignedOnce'
    BY <1>0, <1>12 DEF SignedOnce, Desk!ServerStart, Desk!vars
  <2>4. HeardWhenWritten'
    BY <1>0, <1>12 DEF HeardWhenWritten, Desk!ServerStart, Desk!vars, Desk!InHand, Unheard
  <2>5. Desk!ReportsHoldWithoutClash'
    BY <1>0, <1>12 DEF Desk!ReportsHoldWithoutClash, Desk!ServerStart, Desk!vars
  <2>6. QED
    BY <2>1, <2>2, <2>3, <2>4, <2>5
<1>13. QED
  BY <1>1, <1>2, <1>3, <1>4, <1>5, <1>6, <1>7, <1>8, <1>9, <1>10, <1>11, <1>12 DEF Desk!Next

(* As long as no command writes over what another one changed, what was    *)
(* reported about an invitation and an owner is so, for all commands.      *)
THEOREM DeskReportsHold == Desk!Spec => []Desk!ReportsHoldWithoutClash
BY DeskInit, DeskStep, PTL DEF Desk!Spec, DeskInv

-----------------------------------------------------------------------------
(* AdminAuth, continued.  A submission is charged to one code, a code of   *)
(* its address that was issued.                                            *)
ChargedToItsOwn ==
  \A r \in Requests :
    /\ phase[r] = "grantCharged" =>
         /\ held[r] \in GrantIds
         /\ grantStatus[held[r]] # "absent"
         /\ emailOf[held[r]] = ask[r].email
    /\ phase[r] = "otpCharged" =>
         /\ held[r] \in OtpIds
         /\ otpStatus[held[r]] # "absent"
         /\ emailOf[held[r]] = ask[r].email

ChargedOnce ==
  \A r \in Requests :
    /\ phase[r] \in {"new", "received", "otp"} => charges[r] = {}
    /\ charges[r] = {} \/ \E c \in Admin!Codes : charges[r] = {c}

AdminInv ==
  /\ Admin!TypeOK
  /\ ChargedToItsOwn
  /\ ChargedOnce
  /\ Admin!VerifiedHasSpentACode

LEMMA AdminInit == Admin!Init => AdminInv
<1> SUFFICES ASSUME Admin!Init PROVE AdminInv
  OBVIOUS
<1>1. Admin!TypeOK
  BY PartsAssumption
     DEF Admin!Init, Admin!TypeOK, Admin!Grants!Init, Admin!Otps!Init,
         Admin!Phases, Admin!Codes
<1>2. ChargedToItsOwn /\ ChargedOnce /\ Admin!VerifiedHasSpentACode
  BY DEF Admin!Init, ChargedToItsOwn, ChargedOnce, Admin!VerifiedHasSpentACode
<1>3. QED
  BY <1>1, <1>2 DEF AdminInv

(* The newest usable code is a usable one.                                 *)
LEMMA NewestUsable ==
  ASSUME NEW e
  PROVE  /\ Admin!UsableGrants(e) # {}
              => Admin!Newest(Admin!UsableGrants(e)) \in Admin!UsableGrants(e)
         /\ Admin!UsableOtps(e) # {}
              => Admin!Newest(Admin!UsableOtps(e)) \in Admin!UsableOtps(e)
<1>1. /\ Admin!UsableGrants(e) \subseteq GrantIds
      /\ Admin!UsableOtps(e) \subseteq OtpIds
  BY DEF Admin!UsableGrants, Admin!UsableOtps
<1>2. /\ IsFiniteSet(Admin!UsableGrants(e)) /\ Admin!UsableGrants(e) \subseteq Nat
      /\ IsFiniteSet(Admin!UsableOtps(e)) /\ Admin!UsableOtps(e) \subseteq Nat
  BY <1>1, FS_Subset, PartsAssumption
<1>3. QED
  BY <1>2, NewestIsThere

LEMMA AdminTypes == Admin!TypeOK /\ [Admin!Next]_(Admin!vars) => Admin!TypeOK'
<1> SUFFICES ASSUME Admin!TypeOK, [Admin!Next]_(Admin!vars)
             PROVE  Admin!TypeOK'
  OBVIOUS
<1> USE DEF Admin!Grants!Issue, Admin!Otps!Issue, Admin!Grants!Charge, Admin!Otps!Charge,
         Admin!Grants!Redeem, Admin!Otps!Redeem, Admin!Grants!Die, Admin!Otps!Die,
         Admin!grants, Admin!otps
<1>0. /\ grantStatus \in [GrantIds -> {"absent", "live", "redeemed", "dead"}]
      /\ otpStatus \in [OtpIds -> {"absent", "live", "redeemed", "dead"}]
      /\ grantGuesses \in [GrantIds -> 0..MaxGuesses]
      /\ otpGuesses \in [OtpIds -> 0..MaxGuesses]
      /\ emailOf \in [Admin!Codes -> Emails]
      /\ phase \in [Requests -> Admin!Phases]
      /\ ask \in [Requests -> [email : Emails,
                               code : Admin!Codes \union {WrongSix, WrongEight}]]
      /\ held \in [Requests -> Admin!Codes \union {0}]
      /\ charges \in [Requests -> SUBSET Admin!Codes]
      /\ MaxGuesses \in Nat
  BY PartsAssumption DEF Admin!TypeOK
<1>1. ASSUME NEW e \in Emails, NEW c \in OtpIds,
             Admin!handleAdminChallenge(e, c)
      PROVE  Admin!TypeOK'
  <2>1. otpStatus' \in [OtpIds -> {"absent", "live", "redeemed", "dead"}]
    BY <1>0, <1>1 DEF Admin!handleAdminChallenge
  <2>2. emailOf' \in [Admin!Codes -> Emails]
    BY <1>0, <1>1 DEF Admin!handleAdminChallenge, Admin!Codes
  <2>3. QED
    BY <1>0, <1>1, <2>1, <2>2 DEF Admin!handleAdminChallenge, Admin!TypeOK
<1>2. ASSUME NEW e \in Emails, NEW g \in GrantIds,
             Admin!handleAdminGrantCreate(e, g)
      PROVE  Admin!TypeOK'
  <2>1. grantStatus' \in [GrantIds -> {"absent", "live", "redeemed", "dead"}]
    BY <1>0, <1>2 DEF Admin!handleAdminGrantCreate
  <2>2. emailOf' \in [Admin!Codes -> Emails]
    BY <1>0, <1>2 DEF Admin!handleAdminGrantCreate, Admin!Codes
  <2>3. QED
    BY <1>0, <1>2, <2>1, <2>2 DEF Admin!handleAdminGrantCreate, Admin!TypeOK
<1>3. ASSUME NEW r \in Requests, NEW e \in Emails,
             NEW code \in Admin!Codes \union {WrongSix, WrongEight},
             Admin!Submit(r, e, code)
      PROVE  Admin!TypeOK'
  <2>1. phase' \in [Requests -> Admin!Phases]
    BY <1>0, <1>3 DEF Admin!Submit, Admin!Phases
  <2>2. ask' \in [Requests -> [email : Emails,
                             code : Admin!Codes \union {WrongSix, WrongEight}]]
    BY <1>0, <1>3 DEF Admin!Submit
  <2>3. QED
    BY <1>0, <1>3, <2>1, <2>2 DEF Admin!Submit, Admin!TypeOK
<1>4. ASSUME NEW r \in Requests, Admin!GrantNotFound(r)
      PROVE  Admin!TypeOK'
  <2>1. phase' \in [Requests -> Admin!Phases]
    BY <1>0, <1>4 DEF Admin!GrantNotFound, Admin!Phases
  <2>2. QED
    BY <1>0, <1>4, <2>1 DEF Admin!GrantNotFound, Admin!TypeOK
<1>5. ASSUME NEW r \in Requests, Admin!ChargeGrant(r)
      PROVE  Admin!TypeOK'
  <2>1. PICK c \in GrantIds : /\ Admin!Grants!Charge(c)
                             /\ held' = [held EXCEPT ![r] = c]
                             /\ charges' = [charges EXCEPT ![r] = @ \union {c}]
    BY <1>5, NewestUsable DEF Admin!ChargeGrant, Admin!UsableGrants
  <2>2. grantGuesses' \in [GrantIds -> 0..MaxGuesses]
    BY <1>0, <1>5, <2>1 DEF Admin!ChargeGrant
  <2>3. phase' \in [Requests -> Admin!Phases]
    BY <1>0, <1>5, <2>1 DEF Admin!ChargeGrant, Admin!Phases
  <2>4. held' \in [Requests -> Admin!Codes \union {0}]
    BY <1>0, <1>5, <2>1 DEF Admin!ChargeGrant, Admin!Codes
  <2>5. charges' \in [Requests -> SUBSET Admin!Codes]
    BY <1>0, <1>5, <2>1 DEF Admin!ChargeGrant, Admin!Codes
  <2>6. QED
    BY <1>0, <1>5, <2>1, <2>2, <2>3, <2>4, <2>5 DEF Admin!ChargeGrant, Admin!TypeOK
<1>6. ASSUME NEW r \in Requests, Admin!GrantRefused(r)
      PROVE  Admin!TypeOK'
  <2>1. phase' \in [Requests -> Admin!Phases]
    BY <1>0, <1>6 DEF Admin!GrantRefused, Admin!Phases
  <2>2. QED
    BY <1>0, <1>6, <2>1 DEF Admin!GrantRefused, Admin!TypeOK
<1>7. ASSUME NEW r \in Requests, Admin!RedeemGrant(r)
      PROVE  Admin!TypeOK'
  <2>1. grantStatus' \in [GrantIds -> {"absent", "live", "redeemed", "dead"}]
    BY <1>0, <1>7 DEF Admin!RedeemGrant
  <2>2. phase' \in [Requests -> Admin!Phases]
    BY <1>0, <1>7 DEF Admin!RedeemGrant, Admin!Phases
  <2>3. QED
    BY <1>0, <1>7, <2>1, <2>2 DEF Admin!RedeemGrant, Admin!TypeOK
<1>8. ASSUME NEW r \in Requests, Admin!OtpRefused(r)
      PROVE  Admin!TypeOK'
  <2>1. phase' \in [Requests -> Admin!Phases]
    BY <1>0, <1>8 DEF Admin!OtpRefused, Admin!Phases
  <2>2. QED
    BY <1>0, <1>8, <2>1 DEF Admin!OtpRefused, Admin!TypeOK
<1>9. ASSUME NEW r \in Requests, Admin!ChargeOtp(r)
      PROVE  Admin!TypeOK'
  <2>1. PICK c \in OtpIds : /\ Admin!Otps!Charge(c)
                             /\ held' = [held EXCEPT ![r] = c]
                             /\ charges' = [charges EXCEPT ![r] = @ \union {c}]
    BY <1>9, NewestUsable DEF Admin!ChargeOtp, Admin!UsableOtps
  <2>2. otpGuesses' \in [OtpIds -> 0..MaxGuesses]
    BY <1>0, <1>9, <2>1 DEF Admin!ChargeOtp
  <2>3. phase' \in [Requests -> Admin!Phases]
    BY <1>0, <1>9, <2>1 DEF Admin!ChargeOtp, Admin!Phases
  <2>4. held' \in [Requests -> Admin!Codes \union {0}]
    BY <1>0, <1>9, <2>1 DEF Admin!ChargeOtp, Admin!Codes
  <2>5. charges' \in [Requests -> SUBSET Admin!Codes]
    BY <1>0, <1>9, <2>1 DEF Admin!ChargeOtp, Admin!Codes
  <2>6. QED
    BY <1>0, <1>9, <2>1, <2>2, <2>3, <2>4, <2>5 DEF Admin!ChargeOtp, Admin!TypeOK
<1>10. ASSUME NEW r \in Requests, Admin!OtpMismatch(r)
      PROVE  Admin!TypeOK'
  <2>1. phase' \in [Requests -> Admin!Phases]
    BY <1>0, <1>10 DEF Admin!OtpMismatch, Admin!Phases
  <2>2. QED
    BY <1>0, <1>10, <2>1 DEF Admin!OtpMismatch, Admin!TypeOK
<1>11. ASSUME NEW r \in Requests, Admin!RedeemOtp(r)
      PROVE  Admin!TypeOK'
  <2>1. otpStatus' \in [OtpIds -> {"absent", "live", "redeemed", "dead"}]
    BY <1>0, <1>11 DEF Admin!RedeemOtp
  <2>2. phase' \in [Requests -> Admin!Phases]
    BY <1>0, <1>11 DEF Admin!RedeemOtp, Admin!Phases
  <2>3. QED
    BY <1>0, <1>11, <2>1, <2>2 DEF Admin!RedeemOtp, Admin!TypeOK
<1>12. ASSUME NEW r \in Requests, Admin!Answer(r)
      PROVE  Admin!TypeOK'
  <2>1. phase' \in [Requests -> Admin!Phases]
    BY <1>0, <1>12 DEF Admin!Answer, Admin!Phases
  <2>2. QED
    BY <1>0, <1>12, <2>1 DEF Admin!Answer, Admin!TypeOK
<1>13. CASE Admin!Expire
  <2>1. grantStatus' \in [GrantIds -> {"absent", "live", "redeemed", "dead"}]
    BY <1>0, <1>13 DEF Admin!Expire
  <2>2. otpStatus' \in [OtpIds -> {"absent", "live", "redeemed", "dead"}]
    BY <1>0, <1>13 DEF Admin!Expire
  <2>3. QED
    BY <1>0, <1>13, <2>1, <2>2 DEF Admin!Expire, Admin!TypeOK
<1>14. CASE Admin!Restart
  <2>1. phase' \in [Requests -> Admin!Phases]
    BY <1>0, <1>14 DEF Admin!Restart, Admin!Phases, Admin!InFlight
  <2>2. QED
    BY <1>0, <1>14, <2>1 DEF Admin!Restart, Admin!TypeOK
<1>15. CASE UNCHANGED Admin!vars
  BY <1>0, <1>15 DEF Admin!vars, Admin!TypeOK
<1>16. QED
  BY <1>1, <1>2, <1>3, <1>4, <1>5, <1>6, <1>7, <1>8, <1>9, <1>10, <1>11, <1>12, <1>13, <1>14, <1>15 DEF Admin!Next, Admin!Verify

LEMMA AdminStep == AdminInv /\ [Admin!Next]_(Admin!vars) => AdminInv'
<1> DEFINE Rest == ChargedToItsOwn /\ ChargedOnce /\ Admin!VerifiedHasSpentACode
<1> SUFFICES ASSUME AdminInv, [Admin!Next]_(Admin!vars)
             PROVE  Rest'
  BY AdminTypes DEF AdminInv
<1> USE DEF Admin!Grants!Issue, Admin!Otps!Issue, Admin!Grants!Charge, Admin!Otps!Charge,
         Admin!Grants!Redeem, Admin!Otps!Redeem, Admin!Grants!Die, Admin!Otps!Die,
         Admin!grants, Admin!otps
<1>0. /\ grantStatus \in [GrantIds -> {"absent", "live", "redeemed", "dead"}]
      /\ otpStatus \in [OtpIds -> {"absent", "live", "redeemed", "dead"}]
      /\ emailOf \in [Admin!Codes -> Emails]
      /\ phase \in [Requests -> Admin!Phases]
      /\ ask \in [Requests -> [email : Emails,
                               code : Admin!Codes \union {WrongSix, WrongEight}]]
      /\ held \in [Requests -> Admin!Codes \union {0}]
      /\ charges \in [Requests -> SUBSET Admin!Codes]
      /\ ChargedToItsOwn /\ ChargedOnce /\ Admin!VerifiedHasSpentACode
      /\ GrantIds \intersect OtpIds = {}
  BY PartsAssumption DEF AdminInv, Admin!TypeOK
<1>1. ASSUME NEW e \in Emails, NEW c \in OtpIds,
             Admin!handleAdminChallenge(e, c)
      PROVE  Rest'
  <2>1. ChargedToItsOwn'
    BY <1>0, <1>1 DEF Admin!handleAdminChallenge, ChargedToItsOwn, Admin!Codes
  <2>2. ChargedOnce'
    BY <1>0, <1>1 DEF Admin!handleAdminChallenge, ChargedOnce, Admin!Codes
  <2>3. Admin!VerifiedHasSpentACode'
    BY <1>0, <1>1 DEF Admin!handleAdminChallenge, Admin!VerifiedHasSpentACode, Admin!Codes
  <2>4. QED
    BY <2>1, <2>2, <2>3
<1>2. ASSUME NEW e \in Emails, NEW g \in GrantIds,
             Admin!handleAdminGrantCreate(e, g)
      PROVE  Rest'
  <2>1. ChargedToItsOwn'
    BY <1>0, <1>2 DEF Admin!handleAdminGrantCreate, ChargedToItsOwn, Admin!Codes
  <2>2. ChargedOnce'
    BY <1>0, <1>2 DEF Admin!handleAdminGrantCreate, ChargedOnce, Admin!Codes
  <2>3. Admin!VerifiedHasSpentACode'
    BY <1>0, <1>2 DEF Admin!handleAdminGrantCreate, Admin!VerifiedHasSpentACode, Admin!Codes
  <2>4. QED
    BY <2>1, <2>2, <2>3
<1>3. ASSUME NEW r \in Requests, NEW e \in Emails,
             NEW code \in Admin!Codes \union {WrongSix, WrongEight},
             Admin!Submit(r, e, code)
      PROVE  Rest'
  <2>1. ChargedToItsOwn'
    BY <1>0, <1>3 DEF Admin!Submit, ChargedToItsOwn, Admin!Codes
  <2>2. ChargedOnce'
    BY <1>0, <1>3 DEF Admin!Submit, ChargedOnce, Admin!Codes
  <2>3. Admin!VerifiedHasSpentACode'
    BY <1>0, <1>3 DEF Admin!Submit, Admin!VerifiedHasSpentACode, Admin!Codes
  <2>4. QED
    BY <2>1, <2>2, <2>3
<1>4. ASSUME NEW r \in Requests, Admin!GrantNotFound(r)
      PROVE  Rest'
  <2>1. ChargedToItsOwn'
    BY <1>0, <1>4 DEF Admin!GrantNotFound, ChargedToItsOwn, Admin!Codes
  <2>2. ChargedOnce'
    BY <1>0, <1>4 DEF Admin!GrantNotFound, ChargedOnce, Admin!Codes
  <2>3. Admin!VerifiedHasSpentACode'
    BY <1>0, <1>4 DEF Admin!GrantNotFound, Admin!VerifiedHasSpentACode, Admin!Codes
  <2>4. QED
    BY <2>1, <2>2, <2>3
<1>5. ASSUME NEW r \in Requests, Admin!ChargeGrant(r)
      PROVE  Rest'
  <2>1. PICK c \in GrantIds : /\ grantStatus[c] = "live" /\ emailOf[c] = ask[r].email
                             /\ held' = [held EXCEPT ![r] = c]
                             /\ charges' = [charges EXCEPT ![r] = @ \union {c}]
    BY <1>5, NewestUsable DEF Admin!ChargeGrant, Admin!UsableGrants
  <2>2. ChargedToItsOwn'
    BY <1>0, <1>5, <2>1 DEF Admin!ChargeGrant, ChargedToItsOwn, Admin!Codes
  <2>3. ChargedOnce'
    BY <1>0, <1>5, <2>1, SMTT(30) DEF Admin!ChargeGrant, ChargedOnce, Admin!Codes
  <2>4. Admin!VerifiedHasSpentACode'
    BY <1>0, <1>5, <2>1 DEF Admin!ChargeGrant, Admin!VerifiedHasSpentACode, Admin!Codes
  <2>5. QED
    BY <2>2, <2>3, <2>4
<1>6. ASSUME NEW r \in Requests, Admin!GrantRefused(r)
      PROVE  Rest'
  <2>1. ChargedToItsOwn'
    BY <1>0, <1>6 DEF Admin!GrantRefused, ChargedToItsOwn, Admin!Codes
  <2>2. ChargedOnce'
    BY <1>0, <1>6 DEF Admin!GrantRefused, ChargedOnce, Admin!Codes
  <2>3. Admin!VerifiedHasSpentACode'
    BY <1>0, <1>6 DEF Admin!GrantRefused, Admin!VerifiedHasSpentACode, Admin!Codes
  <2>4. QED
    BY <2>1, <2>2, <2>3
<1>7. ASSUME NEW r \in Requests, Admin!RedeemGrant(r)
      PROVE  Rest'
  <2>1. ChargedToItsOwn'
    BY <1>0, <1>7 DEF Admin!RedeemGrant, ChargedToItsOwn, Admin!Codes
  <2>2. ChargedOnce'
    BY <1>0, <1>7 DEF Admin!RedeemGrant, ChargedOnce, Admin!Codes
  <2>3. Admin!VerifiedHasSpentACode'
    <3>1. /\ ask[r].code = held[r] /\ held[r] \in GrantIds /\ grantStatus[held[r]] = "live"
          /\ emailOf[held[r]] = ask[r].email
          /\ grantStatus' = [grantStatus EXCEPT ![held[r]] = "redeemed"]
          /\ phase' = [phase EXCEPT ![r] = "consumed"]
          /\ UNCHANGED <<otpStatus, emailOf, ask>>
      BY <1>0, <1>7 DEF Admin!RedeemGrant, ChargedToItsOwn
    <3>2. \A q \in Requests :
            phase[q] \in {"consumed", "verified"} => ask[q].code # held[r]
      BY <1>0, <3>1 DEF Admin!VerifiedHasSpentACode
    <3>3. grantStatus'[held[r]] = "redeemed"
      BY <1>0, <3>1
    <3>4. held[r] \notin OtpIds /\ held[r] \in Admin!Codes
      BY <1>0, <3>1 DEF Admin!Codes
    <3>5. \A q \in Requests \ {r} :
            phase'[q] \in {"consumed", "verified"} =>
              /\ phase[q] \in {"consumed", "verified"}
              /\ ask[q].code \in GrantIds => grantStatus'[ask[q].code] = grantStatus[ask[q].code]
              /\ ask[q].code \in OtpIds => otpStatus'[ask[q].code] = otpStatus[ask[q].code]
      BY <1>0, <3>1, <3>2
    <3>6. QED
      BY <1>0, <3>1, <3>2, <3>3, <3>4, <3>5 DEF Admin!VerifiedHasSpentACode
  <2>4. QED
    BY <2>1, <2>2, <2>3
<1>8. ASSUME NEW r \in Requests, Admin!OtpRefused(r)
      PROVE  Rest'
  <2>1. ChargedToItsOwn'
    BY <1>0, <1>8 DEF Admin!OtpRefused, ChargedToItsOwn, Admin!Codes
  <2>2. ChargedOnce'
    BY <1>0, <1>8 DEF Admin!OtpRefused, ChargedOnce, Admin!Codes
  <2>3. Admin!VerifiedHasSpentACode'
    BY <1>0, <1>8 DEF Admin!OtpRefused, Admin!VerifiedHasSpentACode, Admin!Codes
  <2>4. QED
    BY <2>1, <2>2, <2>3
<1>9. ASSUME NEW r \in Requests, Admin!ChargeOtp(r)
      PROVE  Rest'
  <2>1. PICK c \in OtpIds : /\ otpStatus[c] = "live" /\ emailOf[c] = ask[r].email
                             /\ held' = [held EXCEPT ![r] = c]
                             /\ charges' = [charges EXCEPT ![r] = @ \union {c}]
    BY <1>9, NewestUsable DEF Admin!ChargeOtp, Admin!UsableOtps
  <2>2. ChargedToItsOwn'
    BY <1>0, <1>9, <2>1 DEF Admin!ChargeOtp, ChargedToItsOwn, Admin!Codes
  <2>3. ChargedOnce'
    BY <1>0, <1>9, <2>1, ZenonT(40) DEF Admin!ChargeOtp, ChargedOnce, Admin!Codes
  <2>4. Admin!VerifiedHasSpentACode'
    BY <1>0, <1>9, <2>1 DEF Admin!ChargeOtp, Admin!VerifiedHasSpentACode, Admin!Codes
  <2>5. QED
    BY <2>2, <2>3, <2>4
<1>10. ASSUME NEW r \in Requests, Admin!OtpMismatch(r)
      PROVE  Rest'
  <2>1. ChargedToItsOwn'
    BY <1>0, <1>10 DEF Admin!OtpMismatch, ChargedToItsOwn, Admin!Codes
  <2>2. ChargedOnce'
    BY <1>0, <1>10 DEF Admin!OtpMismatch, ChargedOnce, Admin!Codes
  <2>3. Admin!VerifiedHasSpentACode'
    BY <1>0, <1>10 DEF Admin!OtpMismatch, Admin!VerifiedHasSpentACode, Admin!Codes
  <2>4. QED
    BY <2>1, <2>2, <2>3
<1>11. ASSUME NEW r \in Requests, Admin!RedeemOtp(r)
      PROVE  Rest'
  <2>1. ChargedToItsOwn'
    BY <1>0, <1>11 DEF Admin!RedeemOtp, ChargedToItsOwn, Admin!Codes
  <2>2. ChargedOnce'
    BY <1>0, <1>11 DEF Admin!RedeemOtp, ChargedOnce, Admin!Codes
  <2>3. Admin!VerifiedHasSpentACode'
    <3>1. /\ ask[r].code = held[r] /\ held[r] \in OtpIds /\ otpStatus[held[r]] = "live"
          /\ emailOf[held[r]] = ask[r].email
          /\ otpStatus' = [otpStatus EXCEPT ![held[r]] = "redeemed"]
          /\ phase' = [phase EXCEPT ![r] = "consumed"]
          /\ UNCHANGED <<grantStatus, emailOf, ask>>
      BY <1>0, <1>11 DEF Admin!RedeemOtp, ChargedToItsOwn
    <3>2. \A q \in Requests :
            phase[q] \in {"consumed", "verified"} => ask[q].code # held[r]
      BY <1>0, <3>1 DEF Admin!VerifiedHasSpentACode
    <3>3. otpStatus'[held[r]] = "redeemed"
      BY <1>0, <3>1
    <3>4. held[r] \notin GrantIds /\ held[r] \in Admin!Codes
      BY <1>0, <3>1 DEF Admin!Codes
    <3>5. \A q \in Requests \ {r} :
            phase'[q] \in {"consumed", "verified"} =>
              /\ phase[q] \in {"consumed", "verified"}
              /\ ask[q].code \in GrantIds => grantStatus'[ask[q].code] = grantStatus[ask[q].code]
              /\ ask[q].code \in OtpIds => otpStatus'[ask[q].code] = otpStatus[ask[q].code]
      BY <1>0, <3>1, <3>2
    <3>6. QED
      BY <1>0, <3>1, <3>2, <3>3, <3>4, <3>5 DEF Admin!VerifiedHasSpentACode
  <2>4. QED
    BY <2>1, <2>2, <2>3
<1>12. ASSUME NEW r \in Requests, Admin!Answer(r)
      PROVE  Rest'
  <2>1. ChargedToItsOwn'
    BY <1>0, <1>12 DEF Admin!Answer, ChargedToItsOwn, Admin!Codes
  <2>2. ChargedOnce'
    BY <1>0, <1>12 DEF Admin!Answer, ChargedOnce, Admin!Codes
  <2>3. Admin!VerifiedHasSpentACode'
    BY <1>0, <1>12 DEF Admin!Answer, Admin!VerifiedHasSpentACode, Admin!Codes
  <2>4. QED
    BY <2>1, <2>2, <2>3
<1>13. CASE Admin!Expire
  <2>1. ChargedToItsOwn'
    BY <1>0, <1>13 DEF Admin!Expire, ChargedToItsOwn, Admin!Codes
  <2>2. ChargedOnce'
    BY <1>0, <1>13 DEF Admin!Expire, ChargedOnce, Admin!Codes
  <2>3. Admin!VerifiedHasSpentACode'
    BY <1>0, <1>13 DEF Admin!Expire, Admin!VerifiedHasSpentACode, Admin!Codes
  <2>4. QED
    BY <2>1, <2>2, <2>3
<1>14. CASE Admin!Restart
  <2>1. ChargedToItsOwn'
    BY <1>0, <1>14 DEF Admin!Restart, ChargedToItsOwn, Admin!Codes, Admin!InFlight
  <2>2. ChargedOnce'
    BY <1>0, <1>14 DEF Admin!Restart, ChargedOnce, Admin!Codes, Admin!InFlight
  <2>3. Admin!VerifiedHasSpentACode'
    BY <1>0, <1>14 DEF Admin!Restart, Admin!VerifiedHasSpentACode, Admin!Codes, Admin!InFlight
  <2>4. QED
    BY <2>1, <2>2, <2>3
<1>15. CASE UNCHANGED Admin!vars
  BY <1>0, <1>15 DEF Admin!vars, ChargedToItsOwn, ChargedOnce, Admin!VerifiedHasSpentACode
<1>16. QED
  BY <1>1, <1>2, <1>3, <1>4, <1>5, <1>6, <1>7, <1>8, <1>9, <1>10, <1>11, <1>12, <1>13, <1>14, <1>15 DEF Admin!Next, Admin!Verify

LEMMA AdminChargesOnce == AdminInv => Admin!OneLedgerPays
BY DEF AdminInv, ChargedOnce, Admin!OneLedgerPays

(* Whoever is told "verified" has spent a code of the address, alone, and  *)
(* one submission costs one ledger an attempt, for any number of codes and *)
(* submissions that overlap in any way.                                    *)
THEOREM AdminCodesPayOnce ==
  Admin!Spec => [](Admin!VerifiedHasSpentACode /\ Admin!OneLedgerPays)
<1>1. AdminInv => Admin!VerifiedHasSpentACode /\ Admin!OneLedgerPays
  BY AdminChargesOnce DEF AdminInv
<1>2. QED
  BY <1>1, AdminInit, AdminStep, PTL DEF Admin!Spec

-----------------------------------------------------------------------------
(* The parts side by side: a step of PartsSpec is a step of each or leaves *)
(* it alone.                                                               *)
LEMMA PartsInits ==
  Init6 => Init /\ Admin!Init /\ Desk!Init /\ Gate!Init /\ Deliver!Init
BY DEF Init6

LEMMA PartsSteps ==
  [Next6]_all => /\ [Next]_vars
                 /\ [Admin!Next]_(Admin!vars)
                 /\ [Desk!Next]_(Desk!vars)
                 /\ [Gate!Next]_(Gate!vars)
                 /\ [Deliver!Next]_(Deliver!vars)
BY DEF Next6, On, Others, all, adminVars, deskVars, gateVars, deliverVars,
       Admin!vars, Desk!vars, Gate!vars, Deliver!vars

LEMMA PartsInvariance ==
  PartsSpec => [](IInv /\ AdminInv /\ DeskInv /\ GateInv /\ DeliverInv)
<1>1. Init => IInv
  BY InitEstablishesIInv
<1>2. IInv /\ [Next]_vars => IInv'
  BY TypeOKStep, CallStep, RegistriesStep, OffsetsStep, TokensStep, IndexStep
     DEF IInv
<1>3. QED
  BY <1>1, <1>2, PartsInits, PartsSteps, AdminInit, AdminStep, DeskInit, DeskStep,
     GateInit, GateStep, DeliverInit, DeliverStep, PTL DEF PartsSpec

(* The provisioner, the endpoints, the desk, the gate and the delivery     *)
(* keep their types.                                                       *)
THEOREM PartsTypeCorrect == PartsSpec => []PartsTypeOK
<1>1. IInv /\ AdminInv /\ DeskInv /\ GateInv /\ DeliverInv => PartsTypeOK
  BY DEF IInv, AdminInv, DeskInv, GateInv, DeliverInv, PartsTypeOK
<1>2. QED
  BY <1>1, PartsInvariance, PTL

(* No code is paid with twice and no submission pays twice.                *)
THEOREM CodesPayOnceAlways == PartsSpec => []CodesPayOnce
<1>1. AdminInv => CodesPayOnce
  BY AdminChargesOnce DEF AdminInv, CodesPayOnce
<1>2. QED
  BY <1>1, PartsInvariance, PTL

(* What create, revoke and init reported is so unless a command wrote over *)
(* another one, and a list of checks that was waited for is complete.      *)
THEOREM ReportsHoldAlways == PartsSpec => []ReportsHold
<1>1. DeskInv /\ GateInv => ReportsHold
  BY GateGives DEF DeskInv, ReportsHold
<1>2. QED
  BY <1>1, PartsInvariance, PTL

(* Every merge has a reason, and only what is merged is pruned.            *)
THEOREM MergesHaveReasons == PartsSpec => []MergedForAReason
<1>1. GateInv /\ DeliverInv => MergedForAReason
  BY GateGives DEF DeliverInv, MergedForAReason
<1>2. QED
  BY <1>1, PartsInvariance, PTL

=============================================================================
