-------------------------- MODULE ChallengesProofs --------------------------
(***************************************************************************)
(* Proofs about Challenges for every set of addresses, every number of     *)
(* rows, every attempt budget and every expiry: the guess budget, single   *)
(* redemption, newest-first, and the refinement of OneTimeCodes.           *)
(***************************************************************************)
EXTENDS Challenges, TLAPS

(* The row a VerifyCode call works on is one of the caller's address, and  *)
(* stays in the table, unverified, as long as the call holds the mutex.    *)
HeldRowOK ==
  /\ verifier.phase # "idle" => verifier.row \in ChallengeIds
  /\ verifier.phase \in {"fetched", "counted"} =>
       /\ rows[verifier.row].where = "saved"
       /\ ~rows[verifier.row].verified
       /\ rows[verifier.row].email = verifier.email

(* Every comparison was charged to the row first.                          *)
BudgetOK ==
  /\ \A c \in ChallengeIds : /\ rows[c].attempts <= MaxAttempts
                             /\ compared[c] <= rows[c].attempts
  /\ verifier.phase = "counted" =>
       compared[verifier.row] < rows[verifier.row].attempts

(* An answer "verified" is only ever given about a row already consumed.   *)
RedemptionOK ==
  /\ \A c \in ChallengeIds : /\ redeemed[c] <= 1
                             /\ redeemed[c] = 1 => rows[c].verified
  /\ verifier.phase = "consumed" =>
       rows[verifier.row].verified /\ redeemed[verifier.row] = 0

(* Nothing is charged or verified before it is in the table.               *)
FreshOK ==
  \A c \in ChallengeIds :
    rows[c].where \in {"unused", "drawn"} =>
      ~rows[c].verified /\ rows[c].attempts = 0

IInv == TypeOK /\ HeldRowOK /\ BudgetOK /\ RedemptionOK /\ FreshOK
                /\ NewestIsCompared

-----------------------------------------------------------------------------
(* The initial table satisfies the inductive invariant.                    *)
LEMMA InitEstablishesIInv == Init => IInv
BY ChallengeIdsAssumption, NoChallengeAssumption, MaxAttemptsAssumption
   DEF Init, IInv, TypeOK, Row, Verifier, HeldRowOK, BudgetOK, RedemptionOK,
       FreshOK, NewestIsCompared

(* Counting one more for a row leaves a function of natural numbers.       *)
LEMMA BumpType ==
  ASSUME NEW S, NEW f \in [S -> Nat], NEW r \in S
  PROVE  [f EXCEPT ![r] = @ + 1] \in [S -> Nat]
OBVIOUS

(* Consuming a row leaves a table.                                         *)
LEMMA MarkType ==
  ASSUME NEW f \in [ChallengeIds -> Row], NEW r \in ChallengeIds
  PROVE  [f EXCEPT ![r].verified = TRUE] \in [ChallengeIds -> Row]
<1>1. [f[r] EXCEPT !.verified = TRUE] \in Row
  BY DEF Row
<1> QED
  BY <1>1

(* Every step keeps the types.                                             *)
LEMMA TypeOKStep == TypeOK /\ HeldRowOK /\ [Next]_vars => TypeOK'
<1> SUFFICES ASSUME TypeOK, HeldRowOK, [Next]_vars PROVE TypeOK'
  OBVIOUS
<1> USE ChallengeIdsAssumption, NoChallengeAssumption, TimeAssumption,
        MaxAttemptsAssumption DEF TypeOK, Row, Verifier
<1>1. ASSUME NEW c \in ChallengeIds, NEW e \in Emails, Draw(c, e)
      PROVE TypeOK'
  BY <1>1 DEF Draw
<1>2. ASSUME NEW c \in ChallengeIds, Save(c) PROVE TypeOK'
  BY <1>2 DEF Save, SaveChallenge
<1>3. ASSUME NEW e \in Emails, NEW c \in ChallengeIds,
             NEW code \in ChallengeIds \union {NoChallenge},
             VerifyFetch(e, code, c)
      PROVE TypeOK'
  BY <1>3 DEF VerifyFetch
<1>4. CASE VerifyExpired
  BY <1>4, ZenonT(40) DEF VerifyExpired, PruneExpired, Release
<1>5. CASE VerifyRefuse
  BY <1>5 DEF VerifyRefuse, Release
<1>6. CASE VerifyCount
  <2>1. verifier.row \in ChallengeIds
    BY <1>6 DEF VerifyCount, HeldRowOK
  <2>2. rows' \in [ChallengeIds -> Row]
    BY <1>6, <2>1 DEF VerifyCount, IncrementAttempts
  <2>3. verifier' \in Verifier
    BY <1>6 DEF VerifyCount
  <2> QED
    BY <1>6, <2>2, <2>3 DEF VerifyCount
<1>7. CASE VerifyWrong
  <2>1. verifier.row \in ChallengeIds
    BY <1>7 DEF VerifyWrong, HeldRowOK
  <2>2. verifier' \in Verifier
    BY <1>7 DEF VerifyWrong, Release
  <2> QED
    BY <1>7, <2>1, <2>2, BumpType DEF VerifyWrong
<1>8. CASE VerifyConsume
  <2>1. verifier.row \in ChallengeIds
    BY <1>8 DEF VerifyConsume, HeldRowOK
  <2>2. rows' \in [ChallengeIds -> Row]
    BY <1>8, <2>1, MarkType DEF VerifyConsume, MarkVerified
  <2>3. verifier' \in Verifier
    BY <1>8 DEF VerifyConsume
  <2> QED
    BY <1>8, <2>1, <2>2, <2>3, BumpType DEF VerifyConsume
<1>9. CASE VerifyAnswer
  <2>1. verifier.row \in ChallengeIds
    BY <1>9 DEF VerifyAnswer, HeldRowOK
  <2>2. verifier' \in Verifier
    BY <1>9 DEF VerifyAnswer, Release
  <2> QED
    BY <1>9, <2>1, <2>2, BumpType DEF VerifyAnswer
<1>10. CASE CountFails
  BY <1>10 DEF CountFails, Release
<1>11. CASE MarkFails
  <2>1. verifier.row \in ChallengeIds
    BY <1>11 DEF MarkFails, HeldRowOK
  <2>2. verifier' \in Verifier
    BY <1>11 DEF MarkFails, Release
  <2> QED
    BY <1>11, <2>1, <2>2, BumpType DEF MarkFails
<1>12. CASE Clear
  BY <1>12 DEF Clear, PruneExpired
<1>13. CASE Restart
  BY <1>13, ZenonT(40) DEF Restart, Release
<1>14. CASE Tick
  BY <1>14 DEF Tick
<1>15. CASE UNCHANGED vars
  BY <1>15 DEF vars
<1> QED
  BY <1>1, <1>2, <1>3, <1>4, <1>5, <1>6, <1>7, <1>8, <1>9, <1>10, <1>11,
     <1>12, <1>13, <1>14, <1>15 DEF Next, VerifyStep

-----------------------------------------------------------------------------
(* Saving, pruning and restarting move rows between the places a row can   *)
(* be in, and change nothing else about them.                              *)
LEMMA RowFrame ==
  ASSUME TypeOK, HeldRowOK,
         \/ Clear \/ Restart \/ VerifyExpired
         \/ \E c \in ChallengeIds : Save(c)
  PROVE  \A d \in ChallengeIds :
           /\ rows'[d].attempts = rows[d].attempts
           /\ rows'[d].verified = rows[d].verified
           /\ rows'[d].email = rows[d].email
           /\ rows'[d].expires = rows[d].expires
           /\ rows'[d].where = "unused" <=> rows[d].where = "unused"
           /\ rows'[d].where = "drawn" => rows[d].where = "drawn"
<1>1. CASE Clear
  BY <1>1 DEF Clear, PruneExpired, TypeOK, Row
<1>2. CASE Restart
  BY <1>2 DEF Restart, TypeOK, Row
<1>3. CASE VerifyExpired
  BY <1>3 DEF VerifyExpired, PruneExpired, TypeOK, Row
<1>4. ASSUME NEW c \in ChallengeIds, Save(c)
      PROVE  \A d \in ChallengeIds :
               /\ rows'[d].attempts = rows[d].attempts
               /\ rows'[d].verified = rows[d].verified
               /\ rows'[d].email = rows[d].email
               /\ rows'[d].expires = rows[d].expires
               /\ rows'[d].where = "unused" <=> rows[d].where = "unused"
               /\ rows'[d].where = "drawn" => rows[d].where = "drawn"
  BY <1>4 DEF Save, SaveChallenge, TypeOK, Row
<1> QED
  BY <1>1, <1>2, <1>3, <1>4

(* Every step keeps the strengthening.                                     *)
LEMMA HeldRowStep == IInv /\ [Next]_vars => HeldRowOK'
<1> SUFFICES ASSUME IInv, [Next]_vars PROVE HeldRowOK'
  OBVIOUS
<1> USE NoChallengeAssumption DEF IInv, HeldRowOK, TypeOK, Row, Verifier
<1>1. ASSUME NEW c \in ChallengeIds, NEW e \in Emails, Draw(c, e)
      PROVE HeldRowOK'
  BY <1>1 DEF Draw
<1>2. ASSUME NEW c \in ChallengeIds, Save(c) PROVE HeldRowOK'
  BY <1>2 DEF Save, Idle
<1>3. ASSUME NEW e \in Emails, NEW c \in ChallengeIds,
             NEW code \in ChallengeIds \union {NoChallenge},
             VerifyFetch(e, code, c)
      PROVE HeldRowOK'
  BY <1>3 DEF VerifyFetch, IsActive, Candidates
<1>4. CASE VerifyExpired \/ VerifyRefuse \/ VerifyWrong \/ VerifyAnswer
           \/ CountFails \/ MarkFails \/ Restart
  BY <1>4 DEF VerifyExpired, VerifyRefuse, VerifyWrong, VerifyAnswer,
              CountFails, MarkFails, Restart, Release
<1>5. CASE VerifyCount
  BY <1>5 DEF VerifyCount, IncrementAttempts
<1>6. CASE VerifyConsume
  BY <1>6 DEF VerifyConsume
<1>7. CASE Clear
  BY <1>7 DEF Clear, Idle
<1>8. CASE Tick \/ UNCHANGED vars
  BY <1>8 DEF Tick, vars
<1> QED
  BY <1>1, <1>2, <1>3, <1>4, <1>5, <1>6, <1>7, <1>8 DEF Next, VerifyStep

(* A charge precedes its comparison, and the budget bounds the charges.    *)
LEMMA BudgetStep == IInv /\ [Next]_vars => BudgetOK'
<1> SUFFICES ASSUME IInv, [Next]_vars PROVE BudgetOK'
  OBVIOUS
<1> USE NoChallengeAssumption, MaxAttemptsAssumption
    DEF IInv, HeldRowOK, BudgetOK, TypeOK, Row, Verifier
<1>1. ASSUME NEW c \in ChallengeIds, NEW e \in Emails, Draw(c, e)
      PROVE BudgetOK'
  BY <1>1 DEF Draw, FreshOK
<1>2. ASSUME NEW c \in ChallengeIds, Save(c) PROVE BudgetOK'
  BY <1>2, RowFrame DEF Save, Idle
<1>3. ASSUME NEW e \in Emails, NEW c \in ChallengeIds,
             NEW code \in ChallengeIds \union {NoChallenge},
             VerifyFetch(e, code, c)
      PROVE BudgetOK'
  BY <1>3 DEF VerifyFetch
<1>4. CASE VerifyExpired
  BY <1>4, RowFrame DEF VerifyExpired, Release
<1>5. CASE VerifyCount
  BY <1>5 DEF VerifyCount, IncrementAttempts
<1>6. CASE VerifyConsume
  BY <1>6 DEF VerifyConsume, MarkVerified
<1>7. CASE VerifyRefuse \/ VerifyAnswer \/ CountFails
  BY <1>7 DEF VerifyRefuse, VerifyAnswer, CountFails, Release
<1>8. CASE VerifyWrong \/ MarkFails
  <2>1. verifier.row \in ChallengeIds /\ verifier.phase = "counted"
    BY <1>8 DEF VerifyWrong, MarkFails
  <2>2. /\ compared' = [compared EXCEPT ![verifier.row] = @ + 1]
        /\ rows' = rows
        /\ verifier'.phase = "idle"
    BY <1>8 DEF VerifyWrong, MarkFails, Release
  <2>3. \A c \in ChallengeIds : compared'[c] <= rows[c].attempts
    BY <2>1, <2>2
  <2> QED
    BY <2>2, <2>3
<1>9. CASE Restart
  BY <1>9, RowFrame DEF Restart, Release
<1>10. CASE Clear
  BY <1>10, RowFrame DEF Clear, Idle
<1>11. CASE Tick \/ UNCHANGED vars
  BY <1>11 DEF Tick, vars
<1> QED
  BY <1>1, <1>2, <1>3, <1>4, <1>5, <1>6, <1>7, <1>8, <1>9, <1>10, <1>11
     DEF Next, VerifyStep

(* An answer follows the consumption of its row, and no row is consumed    *)
(* twice.                                                                  *)
LEMMA RedemptionStep == IInv /\ [Next]_vars => RedemptionOK'
<1> SUFFICES ASSUME IInv, [Next]_vars PROVE RedemptionOK'
  OBVIOUS
<1> USE NoChallengeAssumption
    DEF IInv, HeldRowOK, RedemptionOK, TypeOK, Row, Verifier
<1>1. ASSUME NEW c \in ChallengeIds, NEW e \in Emails, Draw(c, e)
      PROVE RedemptionOK'
  BY <1>1 DEF Draw, FreshOK
<1>2. ASSUME NEW c \in ChallengeIds, Save(c) PROVE RedemptionOK'
  BY <1>2, RowFrame DEF Save, Idle
<1>3. ASSUME NEW e \in Emails, NEW c \in ChallengeIds,
             NEW code \in ChallengeIds \union {NoChallenge},
             VerifyFetch(e, code, c)
      PROVE RedemptionOK'
  BY <1>3 DEF VerifyFetch
<1>4. CASE VerifyExpired
  BY <1>4, RowFrame DEF VerifyExpired, Release
<1>5. CASE VerifyCount
  BY <1>5 DEF VerifyCount, IncrementAttempts
<1>6. CASE VerifyConsume
  <2> DEFINE r == verifier.row
  <2>1. r \in ChallengeIds /\ ~rows[r].verified
    BY <1>6 DEF VerifyConsume
  <2>2. redeemed[r] = 0
    BY <2>1
  <2>3. rows'[r].verified /\ verifier'.row = r
    BY <1>6, <2>1 DEF VerifyConsume, MarkVerified
  <2>4. \A c \in ChallengeIds : rows[c].verified => rows'[c].verified
    BY <1>6, <2>1 DEF VerifyConsume, MarkVerified
  <2>5. redeemed' = redeemed
    BY <1>6 DEF VerifyConsume
  <2> QED
    BY <2>2, <2>3, <2>4, <2>5
<1>7. CASE VerifyAnswer
  <2>1. verifier.row \in ChallengeIds /\ verifier.phase = "consumed"
    BY <1>7 DEF VerifyAnswer
  <2>2. /\ redeemed' = [redeemed EXCEPT ![verifier.row] = @ + 1]
        /\ rows' = rows
        /\ verifier'.phase = "idle"
    BY <1>7 DEF VerifyAnswer, Release
  <2>3. \A c \in ChallengeIds :
          /\ redeemed'[c] <= 1
          /\ redeemed'[c] = 1 => rows'[c].verified
    BY <2>1, <2>2
  <2> QED
    BY <2>2, <2>3
<1>8. CASE VerifyRefuse \/ CountFails \/ VerifyWrong \/ MarkFails
  BY <1>8 DEF VerifyRefuse, CountFails, VerifyWrong, MarkFails, Release
<1>9. CASE Restart
  BY <1>9, RowFrame DEF Restart, Release
<1>10. CASE Clear
  BY <1>10, RowFrame DEF Clear, Idle
<1>11. CASE Tick \/ UNCHANGED vars
  BY <1>11 DEF Tick, vars
<1> QED
  BY <1>1, <1>2, <1>3, <1>4, <1>5, <1>6, <1>7, <1>8, <1>9, <1>10, <1>11
     DEF Next, VerifyStep

(* A row that reaches the table is fresh.                                  *)
LEMMA FreshStep == IInv /\ [Next]_vars => FreshOK'
<1> SUFFICES ASSUME IInv, [Next]_vars PROVE FreshOK'
  OBVIOUS
<1> USE DEF IInv, HeldRowOK, FreshOK, TypeOK, Row
<1>1. ASSUME NEW c \in ChallengeIds, NEW e \in Emails, Draw(c, e)
      PROVE FreshOK'
  BY <1>1 DEF Draw
<1>2. CASE (\E c \in ChallengeIds : Save(c)) \/ VerifyExpired \/ Clear
           \/ Restart
  BY <1>2, RowFrame
<1>3. CASE VerifyCount
  BY <1>3 DEF VerifyCount, IncrementAttempts
<1>4. CASE VerifyConsume
  BY <1>4 DEF VerifyConsume, MarkVerified
<1>5. ASSUME rows' = rows PROVE FreshOK'
  BY <1>5
<1> QED
  BY <1>1, <1>2, <1>3, <1>4, <1>5
     DEF Next, VerifyStep, VerifyFetch, VerifyRefuse, VerifyWrong,
         VerifyAnswer, CountFails, MarkFails, Tick, vars

(* No newer candidate appears while a call holds the mutex.                *)
LEMMA NewestStep == IInv /\ [Next]_vars => NewestIsCompared'
<1> SUFFICES ASSUME IInv, [Next]_vars PROVE NewestIsCompared'
  OBVIOUS
<1> USE DEF IInv, HeldRowOK, NewestIsCompared, TypeOK, Row, Verifier
<1>1. ASSUME NEW c \in ChallengeIds, NEW e \in Emails, Draw(c, e)
      PROVE NewestIsCompared'
  BY <1>1 DEF Draw
<1>2. CASE (\E c \in ChallengeIds : Save(c)) \/ Clear
  BY <1>2 DEF Save, Clear, Idle
<1>3. ASSUME NEW e \in Emails, NEW c \in ChallengeIds,
             NEW code \in ChallengeIds \union {NoChallenge},
             VerifyFetch(e, code, c)
      PROVE NewestIsCompared'
  BY <1>3 DEF VerifyFetch, IsActive, Candidates
<1>4. CASE VerifyExpired \/ VerifyRefuse \/ VerifyWrong \/ VerifyAnswer
           \/ CountFails \/ MarkFails \/ Restart
  BY <1>4 DEF VerifyExpired, VerifyRefuse, VerifyWrong, VerifyAnswer,
              CountFails, MarkFails, Restart, Release
<1>5. CASE VerifyCount
  BY <1>5 DEF VerifyCount, IncrementAttempts
<1>6. CASE VerifyConsume
  BY <1>6 DEF VerifyConsume
<1>7. CASE Tick \/ UNCHANGED vars
  BY <1>7 DEF Tick, vars
<1> QED
  BY <1>1, <1>2, <1>3, <1>4, <1>5, <1>6, <1>7 DEF Next, VerifyStep

(* The inductive invariant holds in every reachable state.                 *)
THEOREM Invariance == Spec => []IInv
<1>1. IInv /\ [Next]_vars => IInv'
  BY TypeOKStep, HeldRowStep, BudgetStep, RedemptionStep, FreshStep,
     NewestStep DEF IInv
<1> QED
  BY InitEstablishesIInv, <1>1, PTL DEF Spec

(* Every reachable state of the table and the mutex is well typed.         *)
THEOREM TypeCorrect == Spec => []TypeOK
BY Invariance, PTL DEF IInv

(* A mailed code is compared with at most MaxAttempts submissions, for     *)
(* every budget and every number of rows.                                  *)
THEOREM GuessBudgetHolds == Spec => []GuessBudget
<1>1. IInv => GuessBudget
  BY MaxAttemptsAssumption DEF IInv, BudgetOK, GuessBudget, TypeOK, Row
<1> QED
  BY Invariance, <1>1, PTL

(* No mailed code answers "verified" twice.                                *)
THEOREM SingleRedemptionHolds == Spec => []SingleRedemption
<1>1. IInv => SingleRedemption
  BY DEF IInv, RedemptionOK, SingleRedemption
<1> QED
  BY Invariance, <1>1, PTL

(* A call never compares a row while a newer one could be redeemed.        *)
THEOREM NewestIsComparedHolds == Spec => []NewestIsCompared
BY Invariance, PTL DEF IInv

(* While an address is locked out, no step charges or consumes one of its  *)
(* codes, the older ones included.                                         *)
THEOREM LockoutCoversOlderCodesHolds == Spec => LockoutCoversOlderCodes
<1>1. ASSUME IInv, [Next]_vars,
             NEW e \in Emails, NEW c \in ChallengeIds,
             LockedOut(e), rows[c].email = e
      PROVE  /\ rows'[c].attempts = rows[c].attempts
             /\ rows'[c].verified = rows[c].verified
  <2> USE <1>1 DEF IInv, TypeOK, Row, Verifier
  <2>1. ASSUME NEW d \in ChallengeIds, NEW f \in Emails, Draw(d, f)
        PROVE  /\ rows'[c].attempts = rows[c].attempts
               /\ rows'[c].verified = rows[c].verified
    BY <2>1 DEF Draw, FreshOK
  <2>2. CASE (\E d \in ChallengeIds : Save(d)) \/ VerifyExpired \/ Clear
             \/ Restart
    BY <2>2, RowFrame
  <2>3. CASE VerifyCount
    <3>1. CASE c = verifier.row
      <4>1. verifier.phase = "fetched" /\ rows[c].attempts < MaxAttempts
        BY <2>3, <3>1 DEF VerifyCount
      <4>2. PICK l \in ChallengeIds :
              /\ rows[l].where = "saved" /\ rows[l].email = e
              /\ ~rows[l].verified /\ rows[l].expires > now
              /\ rows[l].attempts >= MaxAttempts
              /\ \A d \in ChallengeIds :
                   ( /\ rows[d].where = "saved" /\ rows[d].email = e
                     /\ ~rows[d].verified ) => d <= l
        BY DEF LockedOut
      <4>3. /\ rows[c].where = "saved" /\ ~rows[c].verified
            /\ verifier.email = e
        BY <3>1, <4>1 DEF HeldRowOK
      <4>4. c <= l
        BY <4>2, <4>3
      <4>5. l <= c
        BY <3>1, <4>1, <4>2, <4>3 DEF NewestIsCompared
      <4>6. l = c
        BY <4>4, <4>5, ChallengeIdsAssumption
      <4> QED
        BY <4>1, <4>2, <4>6, MaxAttemptsAssumption
    <3>2. CASE c # verifier.row
      BY <2>3, <3>2 DEF VerifyCount, IncrementAttempts
    <3> QED
      BY <3>1, <3>2
  <2>4. CASE VerifyConsume
    <3>1. verifier.phase = "counted" /\ verifier.row # c
      BY <2>4 DEF VerifyConsume, HeldRowOK, LockedOut
    <3> QED
      BY <2>4, <3>1 DEF VerifyConsume, MarkVerified
  <2>5. CASE rows' = rows
    BY <2>5
  <2> QED
    BY <2>1, <2>2, <2>3, <2>4, <2>5
       DEF Next, VerifyStep, VerifyFetch, VerifyRefuse, VerifyWrong,
           VerifyAnswer, CountFails, MarkFails, Tick, vars
<1>2. IInv /\ [Next]_vars =>
        [\A e \in Emails, c \in ChallengeIds :
           LockedOut(e) /\ rows[c].email = e
             => /\ rows'[c].attempts = rows[c].attempts
                /\ rows'[c].verified = rows[c].verified]_vars
  BY <1>1
<1> QED
  BY Invariance, <1>2, PTL DEF Spec, LockoutCoversOlderCodes

-----------------------------------------------------------------------------
(* A step that charges nothing and at most kills live codes is a step of   *)
(* OneTimeCodes, or changes nothing there.                                 *)
LEMMA KeepOrDie ==
  ASSUME \A c \in ChallengeIds :
           \/ Status(c)' = Status(c)
           \/ Status(c) = "live" /\ Status(c)' = "dead",
         \A c \in ChallengeIds : rows'[c].attempts = rows[c].attempts
  PROVE  [Codes!Next]_(Codes!vars)
<1> DEFINE C == {c \in ChallengeIds : Status(c)' # Status(c)}
<1>1. [c \in ChallengeIds |-> Status(c)']
        = [c \in ChallengeIds |-> IF c \in C THEN "dead" ELSE Status(c)]
  BY Zenon
<1>2. \A c \in C : Status(c) = "live"
  BY Zenon
<1>3. [c \in ChallengeIds |-> rows'[c].attempts]
        = [c \in ChallengeIds |-> rows[c].attempts]
  BY Zenon
<1>4. C \in SUBSET ChallengeIds
  OBVIOUS
<1> HIDE DEF C
<1>5. Codes!Die(C)
  BY <1>1, <1>2, <1>3, <1>4 DEF Codes!Die
<1> QED
  BY <1>4, <1>5 DEF Codes!Next

(* The empty table is an empty ledger.                                     *)
LEMMA RefinesInit == Init => Codes!Init
BY DEF Init, Codes!Init, Status

(* Every step of the table and the mutex is a step of the ledger, or one   *)
(* that the ledger does not see.                                           *)
LEMMA RefinesNext == IInv /\ [Next]_vars => [Codes!Next]_(Codes!vars)
<1> SUFFICES ASSUME IInv, [Next]_vars PROVE [Codes!Next]_(Codes!vars)
  OBVIOUS
<1> USE ChallengeIdsAssumption, NoChallengeAssumption, MaxAttemptsAssumption
    DEF IInv, HeldRowOK, TypeOK, Row, Verifier
<1> DEFINE Kept(c) == Status(c)' = Status(c)
           Died(c) == Status(c) = "live" /\ Status(c)' = "dead"
<1>1. ASSUME NEW c \in ChallengeIds, NEW e \in Emails, Draw(c, e)
      PROVE [Codes!Next]_(Codes!vars)
  <2>1. \A d \in ChallengeIds : Kept(d)
    BY <1>1 DEF Draw, Status, Redeemable, HeldPastCheck, HeldAtExpiry
  <2>2. \A d \in ChallengeIds : rows'[d].attempts = rows[d].attempts
    BY <1>1 DEF Draw, FreshOK
  <2> QED
    BY <2>1, <2>2, KeepOrDie
<1>2. ASSUME NEW c \in ChallengeIds, Save(c)
      PROVE [Codes!Next]_(Codes!vars)
  <2>1. \A d \in ChallengeIds : rows'[d].attempts = rows[d].attempts
    BY <1>2, RowFrame
  <2>2. \A d \in ChallengeIds : d # c => Kept(d)
    BY <1>2 DEF Save, SaveChallenge, Status, Redeemable, HeldPastCheck,
                HeldAtExpiry
  <2>3. Status(c) = "absent"
    BY <1>2 DEF Save, Status
  <2>4. Status(c)' \in {"absent", "live", "dead"}
    BY <1>2 DEF Save, SaveChallenge, Status, FreshOK
  <2>5. CASE Status(c)' = "absent"
    BY <2>1, <2>2, <2>3, <2>5, KeepOrDie
  <2>6. CASE Status(c)' \in {"live", "dead"}
    <3>1. [d \in ChallengeIds |-> Status(d)']
            = [[d \in ChallengeIds |-> Status(d)] EXCEPT ![c] = Status(c)']
      BY <2>2, Zenon
    <3>2. [d \in ChallengeIds |-> rows'[d].attempts]
            = [d \in ChallengeIds |-> rows[d].attempts]
      BY <2>1, Zenon
    <3>3. Codes!Issue(c)
      BY <2>3, <2>6, <3>1, <3>2 DEF Codes!Issue
    <3> QED
      BY <3>3 DEF Codes!Next
  <2> QED
    BY <2>4, <2>5, <2>6
<1>3. ASSUME NEW e \in Emails, NEW c \in ChallengeIds,
             NEW code \in ChallengeIds \union {NoChallenge},
             VerifyFetch(e, code, c)
      PROVE [Codes!Next]_(Codes!vars)
  <2>1. \A d \in ChallengeIds : Kept(d)
    BY <1>3 DEF VerifyFetch, Idle, IsActive, Candidates, Status, Redeemable,
                HeldPastCheck, HeldAtExpiry
  <2> QED
    BY <1>3, <2>1, KeepOrDie DEF VerifyFetch
<1>4. CASE VerifyExpired
  <2>1. \A d \in ChallengeIds : Kept(d)
    BY <1>4 DEF VerifyExpired, IsExpired, PruneExpired, Release, Status,
                Redeemable, HeldPastCheck, HeldAtExpiry
  <2> QED
    BY <1>4, <2>1, RowFrame, KeepOrDie
<1>5. CASE VerifyRefuse \/ CountFails \/ VerifyWrong \/ MarkFails
           \/ VerifyAnswer
  <2>1. rows' = rows /\ now' = now /\ verifier'.phase = "idle"
    BY <1>5 DEF VerifyRefuse, CountFails, VerifyWrong, MarkFails,
                VerifyAnswer, Release
  <2>2. \A d \in ChallengeIds : Kept(d) \/ Died(d)
    BY <2>1 DEF Status, Redeemable, HeldPastCheck, HeldAtExpiry
  <2> QED
    BY <2>1, <2>2, KeepOrDie
<1>6. CASE VerifyCount
  <2>1. PICK r \in ChallengeIds : r = verifier.row
    BY <1>6 DEF VerifyCount
  <2>2. \A d \in ChallengeIds : d # r => Kept(d)
    BY <1>6, <2>1 DEF VerifyCount, IncrementAttempts, Status, Redeemable,
                      HeldPastCheck, HeldAtExpiry
  <2>3. /\ rows[r].where = "saved" /\ ~rows[r].verified
        /\ rows[r].attempts < MaxAttempts
        /\ rows[r].expires > now \/ HeldAtExpiry(r)
    BY <1>6, <2>1 DEF VerifyCount, IsExpired, HeldAtExpiry
  <2>4. Status(r) = "live"
    BY <2>3 DEF Status, Redeemable
  <2>5. [d \in ChallengeIds |-> Status(d)']
          = [d \in ChallengeIds |-> Status(d)]
    <3>1. Status(r)' = "live"
      BY <1>6, <2>1, <2>3 DEF VerifyCount, IncrementAttempts, Status,
                              Redeemable, HeldPastCheck
    <3> QED
      BY <2>2, <2>4, <3>1, Zenon
  <2>6. [d \in ChallengeIds |-> rows'[d].attempts]
          = [[d \in ChallengeIds |-> rows[d].attempts] EXCEPT ![r] = @ + 1]
    BY <1>6, <2>1 DEF VerifyCount, IncrementAttempts
  <2>7. Codes!Charge(r)
    BY <2>3, <2>4, <2>5, <2>6 DEF Codes!Charge
  <2> QED
    BY <2>7 DEF Codes!Next
<1>7. CASE VerifyConsume
  <2>1. PICK r \in ChallengeIds : r = verifier.row
    BY <1>7 DEF VerifyConsume
  <2>2. rows[r].attempts > 0 /\ Status(r) = "live"
    BY <1>7, <2>1 DEF VerifyConsume, BudgetOK, Status, Redeemable,
                      HeldPastCheck
  <2>3. \A d \in ChallengeIds : d # r => Kept(d)
    BY <1>7, <2>1 DEF VerifyConsume, MarkVerified, Status, Redeemable,
                      HeldPastCheck, HeldAtExpiry
  <2>4. Status(r)' = "redeemed"
    BY <1>7, <2>1 DEF VerifyConsume, MarkVerified, Status
  <2>5. \A d \in ChallengeIds : rows'[d].attempts = rows[d].attempts
    BY <1>7 DEF VerifyConsume, MarkVerified
  <2>6. [d \in ChallengeIds |-> Status(d)']
          = [[d \in ChallengeIds |-> Status(d)] EXCEPT ![r] = "redeemed"]
    BY <2>3, <2>4, Zenon
  <2>7. [d \in ChallengeIds |-> rows'[d].attempts]
          = [d \in ChallengeIds |-> rows[d].attempts]
    BY <2>5, Zenon
  <2>8. Codes!Redeem(r)
    BY <2>2, <2>6, <2>7 DEF Codes!Redeem
  <2> QED
    BY <2>8 DEF Codes!Next
<1>8. CASE Clear
  <2>1. \A d \in ChallengeIds : Kept(d)
    BY <1>8 DEF Clear, Idle, PruneExpired, Status, Redeemable, HeldPastCheck,
                HeldAtExpiry
  <2> QED
    BY <1>8, <2>1, RowFrame, KeepOrDie
<1>9. CASE Restart
  <2>1. \A d \in ChallengeIds : Kept(d) \/ Died(d)
    BY <1>9 DEF Restart, Release, Status, Redeemable, HeldPastCheck,
                HeldAtExpiry
  <2> QED
    BY <1>9, <2>1, RowFrame, KeepOrDie
<1>10. CASE Tick
  <2>1. \A d \in ChallengeIds : Kept(d) \/ Died(d)
    BY <1>10 DEF Tick, Status, Redeemable, HeldPastCheck, HeldAtExpiry
  <2> QED
    BY <1>10, <2>1, KeepOrDie DEF Tick
<1>11. CASE UNCHANGED vars
  <2>1. \A d \in ChallengeIds : Kept(d)
    BY <1>11 DEF vars, Status, Redeemable, HeldPastCheck, HeldAtExpiry
  <2> QED
    BY <1>11, <2>1, KeepOrDie DEF vars
<1> QED
  BY <1>1, <1>2, <1>3, <1>4, <1>5, <1>6, <1>7, <1>8, <1>9, <1>10, <1>11
     DEF Next, VerifyStep

(* The table under its mutex is a ledger of one-time codes, for every      *)
(* number of addresses, rows and attempts.                                 *)
THEOREM Refinement == Spec => ImplementsOneTimeCodes
BY RefinesInit, RefinesNext, Invariance, PTL
   DEF Spec, ImplementsOneTimeCodes, Codes!Spec

=============================================================================
