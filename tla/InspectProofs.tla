---------------------------- MODULE InspectProofs ----------------------------
(***************************************************************************)
(* Proofs about MCInspect for every value of its constants: the grants of  *)
(* an administrator (AdminGrants), what the audit and the doctor answer    *)
(* (Audit, Doctor), and what the commands that set up and check the files  *)
(* of a workspace write and answer (Bootstrap).  Of each part, first its   *)
(* inductive invariant, then the step of every action; the parts together  *)
(* come last.                                                              *)
(***************************************************************************)
EXTENDS MCInspect, SequenceTheorems, FiniteSetTheorems, TLAPS

-----------------------------------------------------------------------------
(* Grants: what they keep. *)

(* The grant a VerifyGrant call works on is one of the caller's address    *)
(* and stays in the table, unused, until that call marks it.               *)
HeldOK ==
  /\ verifier.phase # "idle" => verifier.grant \in GrantIds
  /\ verifier.phase \in {"fetched", "compared"} =>
       /\ grants[verifier.grant].where = "saved"
       /\ ~grants[verifier.grant].used
       /\ grants[verifier.grant].email = verifier.email
  /\ verifier.phase = "fetched" => compared[verifier.grant] < MaxComparisons
  /\ verifier.phase = "compared" => compared[verifier.grant] > 0

(* Who is told that a grant was redeemed marked it, and was the only one.  *)
RedemptionOK ==
  /\ \A g \in GrantIds : redeemed[g] <= 1 /\ (redeemed[g] = 1 => grants[g].used)
  /\ verifier.phase = "consumed" =>
       grants[verifier.grant].used /\ redeemed[verifier.grant] = 0

(* Only what is in the table is used, and what was revoked is. *)
UsedOK ==
  /\ \A g \in GrantIds : grants[g].used => grants[g].where = "saved"
  /\ \A g \in revoked : grants[g].used

IInv == TypeOK /\ HeldOK /\ RedemptionOK /\ UsedOK /\ NewestUsableIsCompared

-----------------------------------------------------------------------------
LEMMA InitEstablishesIInv == Init => IInv
BY GrantBoundsAssumption
   DEF Init, IInv, TypeOK, GrantRecord, Verifier, HeldOK, RedemptionOK, UsedOK,
       NewestUsableIsCompared

LEMMA BumpType ==
  ASSUME NEW S, NEW f \in [S -> Nat], NEW r \in S
  PROVE  [f EXCEPT ![r] = @ + 1] \in [S -> Nat]
OBVIOUS

LEMMA MarkType ==
  ASSUME TypeOK, NEW g \in GrantIds
  PROVE  /\ MarkUsed(g) \in [GrantIds -> GrantRecord]
         /\ MarkUsed(g)[g].used
         /\ MarkUsed(g)[g].where = grants[g].where
         /\ \A h \in GrantIds \ {g} : MarkUsed(g)[h] = grants[h]
         /\ \A h \in GrantIds : /\ MarkUsed(g)[h].email = grants[h].email
                                /\ MarkUsed(g)[h].expires = grants[h].expires
<1>1. [grants[g] EXCEPT !.used = TRUE] \in GrantRecord
  BY DEF TypeOK, GrantRecord
<1> QED BY <1>1 DEF TypeOK, GrantRecord, MarkUsed

(* Release leaves an idle verifier. *)
LEMMA ReleaseType ==
  ASSUME TypeOK, Release
  PROVE  verifier' \in Verifier /\ verifier'.phase = "idle"
BY DEF TypeOK, Verifier, Release

(* A step that gives the mutex back and leaves the table alone. *)
LEMMA ReleaseKeepsIInv ==
  ASSUME IInv, Release, UNCHANGED <<now, grants, compared, redeemed, revoked>>,
         wrong' \in [GrantIds -> Nat]
  PROVE  IInv'
<1>1. verifier' \in Verifier /\ verifier'.phase = "idle"
  BY ReleaseType DEF IInv
<1> QED
  BY <1>1 DEF IInv, TypeOK, HeldOK, RedemptionOK, UsedOK, NewestUsableIsCompared

LEMMA CreateKeepsIInv ==
  ASSUME IInv, NEW g \in GrantIds, NEW e \in Emails, NEW ttl \in TTLs,
         CreateGrant(g, e, ttl)
  PROVE  IInv'
<1> USE DEF IInv
<1>1. now + ttl \in Nat
  BY GrantBoundsAssumption DEF TypeOK
<1>2. [where |-> "drawn", email |-> e, used |-> FALSE, expires |-> now + ttl]
        \in GrantRecord
  BY <1>1 DEF GrantRecord
<1>3. TypeOK'
  BY <1>2 DEF CreateGrant, TypeOK
<1>4. ~grants[g].used /\ redeemed[g] = 0
  BY DEF CreateGrant, UsedOK, RedemptionOK, TypeOK
<1>5. grants'[g].where = "drawn" /\ ~grants'[g].used
  BY DEF CreateGrant, TypeOK
<1>6. \A h \in GrantIds \ {g} : grants'[h] = grants[h]
  BY DEF CreateGrant, TypeOK
<1>7. HeldOK'
  BY <1>6 DEF CreateGrant, HeldOK
<1>8. RedemptionOK'
  BY <1>4, <1>6 DEF CreateGrant, RedemptionOK, UsedOK, HeldOK
<1>9. UsedOK'
  BY <1>4, <1>5, <1>6 DEF CreateGrant, UsedOK, TypeOK
<1>10. NewestUsableIsCompared'
  BY <1>5, <1>6 DEF CreateGrant, NewestUsableIsCompared
<1> QED BY <1>3, <1>7, <1>8, <1>9, <1>10

LEMMA StoreKeepsIInv ==
  ASSUME IInv, NEW g \in GrantIds, StoreGrant(g)
  PROVE  IInv'
<1> USE DEF IInv
<1>1. PICK w \in {"saved", "lost"} : grants' = [grants EXCEPT ![g].where = w]
  BY DEF StoreGrant, SaveGrant
<1>2. [grants[g] EXCEPT !.where = w] \in GrantRecord
  BY DEF TypeOK, GrantRecord
<1>3. TypeOK'
  BY <1>1, <1>2 DEF StoreGrant, TypeOK
<1>4. /\ \A h \in GrantIds : grants'[h].used = grants[h].used
      /\ \A h \in GrantIds \ {g} : grants'[h] = grants[h]
      /\ ~grants[g].used
  BY <1>1 DEF StoreGrant, TypeOK, GrantRecord, UsedOK
<1>5. verifier'.phase = "idle" /\ UNCHANGED <<verifier, compared, redeemed, revoked>>
  BY DEF StoreGrant, Idle
<1>6. UsedOK'
  BY <1>4, <1>5 DEF UsedOK, TypeOK
<1> QED
  BY <1>3, <1>4, <1>5, <1>6 DEF HeldOK, RedemptionOK, NewestUsableIsCompared

LEMMA FetchKeepsIInv ==
  ASSUME IInv, NEW e \in Emails, NEW g \in GrantIds,
         NEW code \in GrantIds \union {NoGrant}, VerifyFetch(e, code, g)
  PROVE  IInv'
BY DEF IInv, VerifyFetch, GetGrant, Candidates, TypeOK, Verifier, HeldOK,
       RedemptionOK, UsedOK, NewestUsableIsCompared

LEMMA CompareKeepsIInv == IInv /\ VerifyCompare => IInv'
<1> SUFFICES ASSUME IInv, VerifyCompare PROVE IInv'
  OBVIOUS
<1> USE DEF IInv
<1>1. verifier.grant \in GrantIds /\ compared[verifier.grant] \in Nat
  BY DEF VerifyCompare, HeldOK, TypeOK
<1>2. TypeOK'
  BY <1>1, BumpType DEF VerifyCompare, TypeOK, Verifier
<1>3. /\ verifier'.phase = "compared" /\ verifier'.grant = verifier.grant
      /\ verifier'.email = verifier.email
      /\ compared'[verifier.grant] > 0
  BY <1>1 DEF VerifyCompare, TypeOK, Verifier
<1>4. HeldOK' /\ RedemptionOK' /\ UsedOK' /\ NewestUsableIsCompared'
  BY <1>3 DEF VerifyCompare, HeldOK, RedemptionOK, UsedOK, NewestUsableIsCompared
<1> QED BY <1>2, <1>4

(* Marking the grant in hand, and either giving the mutex back or going on *)
(* to answer, keeps the invariant.                                         *)
LEMMA MarkKeepsIInv ==
  ASSUME IInv, verifier.phase = "compared", grants' = MarkUsed(verifier.grant),
         verifier' \in Verifier,
         \/ verifier'.phase = "idle"
         \/ verifier'.phase = "consumed" /\ verifier'.grant = verifier.grant,
         wrong' \in [GrantIds -> Nat],
         UNCHANGED <<now, compared, redeemed, revoked>>
  PROVE  IInv'
<1> USE DEF IInv
<1>1. verifier.grant \in GrantIds /\ grants[verifier.grant].where = "saved"
      /\ ~grants[verifier.grant].used
  BY DEF HeldOK
<1>2. /\ grants' \in [GrantIds -> GrantRecord]
      /\ grants'[verifier.grant].used
      /\ grants'[verifier.grant].where = "saved"
      /\ \A h \in GrantIds \ {verifier.grant} : grants'[h] = grants[h]
  BY <1>1, MarkType
<1>3. redeemed[verifier.grant] = 0
  BY <1>1 DEF RedemptionOK, TypeOK
<1>4. TypeOK'
  BY <1>2 DEF TypeOK
<1>5. HeldOK' /\ NewestUsableIsCompared'
  BY <1>1 DEF HeldOK, NewestUsableIsCompared
<1>6. RedemptionOK'
  BY <1>1, <1>2, <1>3 DEF RedemptionOK
<1>7. UsedOK'
  BY <1>1, <1>2 DEF UsedOK, TypeOK
<1> QED BY <1>4, <1>5, <1>6, <1>7

LEMMA WrongKeepsIInv == IInv /\ VerifyWrong => IInv'
<1> SUFFICES ASSUME IInv, VerifyWrong PROVE IInv'
  OBVIOUS
<1>1. verifier.grant \in GrantIds /\ verifier.phase = "compared"
  BY DEF IInv, HeldOK, VerifyWrong
<1>2. wrong' \in [GrantIds -> Nat]
  BY <1>1, BumpType DEF VerifyWrong, IInv, TypeOK
<1>3. CASE grants' = grants
  BY <1>2, <1>3, ReleaseKeepsIInv DEF VerifyWrong
<1>4. CASE grants' = MarkUsed(verifier.grant)
  <2>1. verifier' \in Verifier /\ verifier'.phase = "idle"
    BY ReleaseType DEF VerifyWrong, IInv
  <2> QED BY <1>1, <1>2, <1>4, <2>1, MarkKeepsIInv DEF VerifyWrong
<1> QED BY <1>3, <1>4 DEF VerifyWrong

LEMMA ConsumeKeepsIInv == IInv /\ VerifyConsume => IInv'
<1> SUFFICES ASSUME IInv, VerifyConsume PROVE IInv'
  OBVIOUS
<1>1. /\ verifier' \in Verifier
      /\ verifier'.phase = "consumed" /\ verifier'.grant = verifier.grant
  BY DEF VerifyConsume, IInv, TypeOK, Verifier
<1>2. wrong' \in [GrantIds -> Nat] /\ UNCHANGED <<now, compared, redeemed, revoked>>
  BY DEF VerifyConsume, IInv, TypeOK
<1> QED BY <1>1, <1>2, MarkKeepsIInv DEF VerifyConsume

LEMMA AnswerKeepsIInv == IInv /\ VerifyAnswer => IInv'
<1> SUFFICES ASSUME IInv, VerifyAnswer PROVE IInv'
  OBVIOUS
<1> USE DEF IInv
<1>1. verifier' \in Verifier /\ verifier'.phase = "idle"
  BY ReleaseType DEF VerifyAnswer
<1>2. verifier.grant \in GrantIds
  BY DEF VerifyAnswer, HeldOK
<1>3. redeemed' \in [GrantIds -> Nat]
  BY <1>2, BumpType DEF VerifyAnswer, TypeOK
<1>4. TypeOK'
  BY <1>1, <1>3 DEF VerifyAnswer, TypeOK
<1>5. RedemptionOK'
  BY <1>1, <1>2 DEF VerifyAnswer, RedemptionOK, TypeOK
<1>6. HeldOK' /\ UsedOK' /\ NewestUsableIsCompared'
  BY <1>1 DEF VerifyAnswer, HeldOK, UsedOK, NewestUsableIsCompared
<1> QED BY <1>4, <1>5, <1>6

LEMMA RevokeKeepsIInv ==
  ASSUME IInv, NEW e \in Emails, NEW g \in GrantIds, RevokeGrant(e, g)
  PROVE  IInv'
<1> USE DEF IInv
<1>1. /\ grants' \in [GrantIds -> GrantRecord]
      /\ grants'[g].used /\ grants'[g].where = "saved"
      /\ \A h \in GrantIds \ {g} : grants'[h] = grants[h]
  BY MarkType DEF RevokeGrant, GetGrant, Candidates
<1>2. verifier'.phase = "idle" /\ UNCHANGED <<now, verifier, compared, wrong, redeemed>>
  BY DEF RevokeGrant, Idle
<1>3. TypeOK'
  BY <1>1, <1>2 DEF RevokeGrant, TypeOK
<1>4. HeldOK' /\ RedemptionOK' /\ NewestUsableIsCompared'
  BY <1>1, <1>2 DEF HeldOK, RedemptionOK, NewestUsableIsCompared
<1>5. UsedOK'
  BY <1>1 DEF RevokeGrant, UsedOK, TypeOK
<1> QED BY <1>3, <1>4, <1>5

LEMMA RestartKeepsIInv == IInv /\ Restart => IInv'
<1> SUFFICES ASSUME IInv, Restart PROVE IInv'
  OBVIOUS
<1> USE DEF IInv
<1>1. verifier' \in Verifier /\ verifier'.phase = "idle"
  BY ReleaseType DEF Restart
<1>2. \A g \in GrantIds : [grants[g] EXCEPT !.where = "lost"] \in GrantRecord
  BY DEF TypeOK, GrantRecord
<1>3. TypeOK'
  BY <1>1, <1>2 DEF Restart, TypeOK
<1>4. \A g \in GrantIds :
        /\ grants'[g].used = grants[g].used
        /\ grants[g].where = "saved" => grants'[g].where = "saved"
  BY DEF Restart, TypeOK, GrantRecord
<1>5. HeldOK' /\ NewestUsableIsCompared'
  BY <1>1 DEF HeldOK, NewestUsableIsCompared
<1>6. RedemptionOK' /\ UsedOK'
  BY <1>1, <1>4 DEF Restart, RedemptionOK, UsedOK, TypeOK
<1> QED BY <1>3, <1>5, <1>6

LEMMA TickKeepsIInv == IInv /\ Tick => IInv'
<1> SUFFICES ASSUME IInv, Tick PROVE IInv'
  OBVIOUS
<1>1. TypeOK' /\ HeldOK' /\ RedemptionOK' /\ UsedOK'
  BY DEF IInv, Tick, TypeOK, HeldOK, RedemptionOK, UsedOK
<1>2. \A g \in GrantIds : grants[g].expires > now' => grants[g].expires > now
  BY DEF IInv, Tick, TypeOK, GrantRecord
<1>3. NewestUsableIsCompared'
  BY <1>2 DEF IInv, Tick, NewestUsableIsCompared
<1> QED BY <1>1, <1>3 DEF IInv

LEMMA StepKeepsIInv == IInv /\ [Next]_vars => IInv'
<1> SUFFICES ASSUME IInv, [Next]_vars PROVE IInv'
  OBVIOUS
<1>1. CASE VerifyExpired \/ VerifyConsumeFails
  BY <1>1, ReleaseKeepsIInv DEF VerifyExpired, VerifyConsumeFails, IInv, TypeOK
<1>2. CASE UNCHANGED vars
  BY <1>2 DEF vars, IInv, TypeOK, HeldOK, RedemptionOK, UsedOK, NewestUsableIsCompared
<1> QED
  BY <1>1, <1>2, CreateKeepsIInv, StoreKeepsIInv, FetchKeepsIInv, CompareKeepsIInv,
     WrongKeepsIInv, ConsumeKeepsIInv, AnswerKeepsIInv, RevokeKeepsIInv,
     RestartKeepsIInv, TickKeepsIInv
  DEF Next

(* The inductive invariant of the grants: what a verification holds is in  *)
(* the table and unused, and what was answered or revoked is used.         *)
THEOREM Invariance == Spec => []IInv
BY InitEstablishesIInv, StepKeepsIInv, PTL DEF Spec

(* Every reachable state has its type. *)
THEOREM TypeCorrect == Spec => []TypeOK
<1>1. IInv => TypeOK
  BY DEF IInv
<1> QED BY <1>1, Invariance, PTL

(* A grant is redeemed at most once, also when the store fails to record   *)
(* it, and is not compared while a newer one of its address is stored,     *)
(* unused and unexpired (grant.go, VerifyGrant).                           *)
THEOREM GoodOnceNewestFirstHolds == Spec => []GoodOnceNewestFirst
<1>1. IInv => GoodOnceNewestFirst
  BY DEF IInv, GoodOnceNewestFirst, RedemptionOK, SingleUse
<1> QED BY <1>1, Invariance, PTL

-----------------------------------------------------------------------------
(* A step that charges nothing and at most kills live grants is a step of  *)
(* OneTimeCodes, or changes nothing there.                                 *)
LEMMA KeepOrDie ==
  ASSUME \A g \in GrantIds :
           \/ Status(g)' = Status(g)
           \/ Status(g) = "live" /\ Status(g)' = "dead",
         UNCHANGED compared
  PROVE  [Codes!Next]_(Codes!vars)
<1> DEFINE C == {g \in GrantIds : Status(g)' # Status(g)}
<1>1. [g \in GrantIds |-> Status(g)']
        = [g \in GrantIds |-> IF g \in C THEN "dead" ELSE Status(g)]
  BY Zenon
<1>2. \A g \in C : Status(g) = "live"
  BY Zenon
<1>3. C \in SUBSET GrantIds
  OBVIOUS
<1> HIDE DEF C
<1>4. Codes!Die(C)
  BY <1>1, <1>2, <1>3 DEF Codes!Die
<1> QED BY <1>3, <1>4 DEF Codes!Next

(* A grant in hand behind its expiry check, with a comparison charged to   *)
(* it, that is marked and not revoked was redeemed.                        *)
LEMMA MarkRedeems ==
  ASSUME IInv, verifier.phase = "compared", grants' = MarkUsed(verifier.grant),
         verifier'.phase \in {"idle", "consumed"}, UNCHANGED <<now, compared, revoked>>
  PROVE  [Codes!Next]_(Codes!vars)
<1>0. PICK r \in GrantIds : r = verifier.grant
  BY DEF IInv, HeldOK
<1>1. /\ grants[r].where = "saved" /\ ~grants[r].used
      /\ compared[r] > 0 /\ r \notin revoked
  BY <1>0 DEF IInv, HeldOK, UsedOK
<1>2. /\ grants'[r].used /\ grants'[r].where = "saved"
      /\ \A g \in GrantIds \ {r} : grants'[g] = grants[g]
  <2>1. TypeOK /\ grants' = MarkUsed(r)
    BY <1>0 DEF IInv
  <2>2. /\ MarkUsed(r)[r].used /\ MarkUsed(r)[r].where = grants[r].where
        /\ \A g \in GrantIds \ {r} : MarkUsed(r)[g] = grants[g]
    BY <2>1, MarkType
  <2> QED BY <1>1, <2>1, <2>2
<1>3. Status(r) = "live" /\ Status(r)' = "redeemed"
  <2>1. Status(r) = "live"
    BY <1>0, <1>1 DEF Status, HeldPastCheck
  <2>2. Status(r)' = "redeemed"
    BY <1>1, <1>2, Zenon DEF Status
  <2> QED BY <2>1, <2>2
<1>4. \A g \in GrantIds \ {r} : Status(g)' = Status(g)
  BY <1>0, <1>1, <1>2 DEF Status, HeldPastCheck, HeldAtExpiry
<1>5. [g \in GrantIds |-> Status(g)']
        = [[g \in GrantIds |-> Status(g)] EXCEPT ![r] = "redeemed"]
  BY <1>1, <1>3, <1>4, Zenon
<1>6. Codes!Redeem(r)
  BY <1>1, <1>3, <1>5 DEF Codes!Redeem
<1> QED BY <1>1, <1>6 DEF Codes!Next

LEMMA RefinesInit == Init => Codes!Init
BY DEF Init, Codes!Init, Status

LEMMA RefinesNext == IInv /\ [Next]_vars => [Codes!Next]_(Codes!vars)
<1> SUFFICES ASSUME IInv, [Next]_vars PROVE [Codes!Next]_(Codes!vars)
  OBVIOUS
<1> USE GrantIdsAssumption, NoGrantAssumption
    DEF IInv, TypeOK, GrantRecord, Verifier, HeldOK
<1> DEFINE Kept(g) == Status(g)' = Status(g)
           Died(g) == Status(g) = "live" /\ Status(g)' = "dead"
<1>1. ASSUME NEW g \in GrantIds, NEW e \in Emails, NEW ttl \in TTLs,
             CreateGrant(g, e, ttl)
      PROVE  [Codes!Next]_(Codes!vars)
  <2>1. \A h \in GrantIds : Kept(h)
    BY <1>1 DEF CreateGrant, Status, HeldPastCheck, HeldAtExpiry
  <2> QED BY <1>1, <2>1, KeepOrDie DEF CreateGrant
<1>2. ASSUME NEW g \in GrantIds, StoreGrant(g)
      PROVE  [Codes!Next]_(Codes!vars)
  <2>1. \A h \in GrantIds \ {g} : Kept(h)
    BY <1>2 DEF StoreGrant, SaveGrant, Status, HeldPastCheck, HeldAtExpiry
  <2>2. Status(g) = "absent" /\ ~grants[g].used
    BY <1>2 DEF StoreGrant, Status, UsedOK
  <2>3. ~grants'[g].used
    BY <1>2, <2>2 DEF StoreGrant, SaveGrant
  <2>4. Status(g)' \in {"absent", "live", "dead"}
    BY <2>3 DEF Status
  <2>5. CASE Status(g)' = "absent"
    BY <1>2, <2>1, <2>2, <2>5, KeepOrDie DEF StoreGrant
  <2>6. CASE Status(g)' \in {"live", "dead"}
    <3>1. [h \in GrantIds |-> Status(h)']
            = [[h \in GrantIds |-> Status(h)] EXCEPT ![g] = Status(g)']
      BY <2>1, Zenon
    <3>2. Codes!Issue(g)
      BY <1>2, <2>2, <2>6, <3>1 DEF Codes!Issue, StoreGrant
    <3> QED BY <3>2 DEF Codes!Next
  <2> QED BY <2>4, <2>5, <2>6
<1>3. ASSUME NEW e \in Emails, NEW g \in GrantIds,
             NEW code \in GrantIds \union {NoGrant}, VerifyFetch(e, code, g)
      PROVE  [Codes!Next]_(Codes!vars)
  <2>1. \A h \in GrantIds : Kept(h)
    BY <1>3 DEF VerifyFetch, Idle, GetGrant, Candidates, Status, HeldPastCheck,
                HeldAtExpiry
  <2> QED BY <1>3, <2>1, KeepOrDie DEF VerifyFetch
<1>4. CASE VerifyExpired \/ VerifyConsumeFails \/ VerifyAnswer
           \/ (VerifyWrong /\ grants' = grants)
  <2>1. grants' = grants /\ now' = now /\ verifier'.phase = "idle"
        /\ UNCHANGED <<compared, revoked>>
    BY <1>4 DEF VerifyExpired, VerifyConsumeFails, VerifyAnswer, VerifyWrong, Release
  <2>2. \A g \in GrantIds : Kept(g) \/ Died(g)
    BY <2>1 DEF Status, HeldPastCheck, HeldAtExpiry
  <2> QED BY <2>1, <2>2, KeepOrDie
<1>5. CASE VerifyCompare
  <2>1. PICK r \in GrantIds : r = verifier.grant
    BY <1>5 DEF VerifyCompare
  <2>2. /\ grants[r].where = "saved" /\ ~grants[r].used
        /\ compared[r] < MaxComparisons
    BY <1>5, <2>1 DEF VerifyCompare
  <2>8. grants[r].expires > now \/ HeldAtExpiry(r)
    <3>1. grants[r].expires \in Nat /\ now \in Nat /\ ~(now > grants[r].expires)
      BY <1>5, <2>1 DEF VerifyCompare, IsExpired
    <3> QED BY <1>5, <2>1, <3>1 DEF VerifyCompare, HeldAtExpiry
  <2>3. Status(r) = "live" /\ Status(r)' = "live"
    BY <1>5, <2>1, <2>2, <2>8 DEF VerifyCompare, Status, HeldPastCheck
  <2>4. \A g \in GrantIds \ {r} : Kept(g)
    BY <1>5, <2>1 DEF VerifyCompare, Status, HeldPastCheck, HeldAtExpiry
  <2>5. [g \in GrantIds |-> Status(g)'] = [g \in GrantIds |-> Status(g)]
    BY <2>3, <2>4, Zenon
  <2>6. compared' = [compared EXCEPT ![r] = @ + 1]
    BY <1>5, <2>1 DEF VerifyCompare
  <2>7. Codes!Charge(r)
    BY <2>2, <2>3, <2>5, <2>6 DEF Codes!Charge
  <2> QED BY <2>7 DEF Codes!Next
<1>6. CASE VerifyConsume \/ (VerifyWrong /\ grants' = MarkUsed(verifier.grant))
  <2>1. /\ verifier.phase = "compared" /\ grants' = MarkUsed(verifier.grant)
        /\ verifier'.phase \in {"idle", "consumed"}
        /\ UNCHANGED <<now, compared, revoked>>
    BY <1>6 DEF VerifyConsume, VerifyWrong, Release
  <2> QED BY <2>1, MarkRedeems
<1>7. ASSUME NEW e \in Emails, NEW g \in GrantIds, RevokeGrant(e, g)
      PROVE  [Codes!Next]_(Codes!vars)
  <2>1. /\ grants'[g].used /\ grants'[g].where = "saved"
        /\ \A h \in GrantIds \ {g} : grants'[h] = grants[h]
    BY <1>7, MarkType DEF RevokeGrant, GetGrant, Candidates
  <2>2. Died(g)
    BY <1>7, <2>1 DEF RevokeGrant, GetGrant, Candidates, Status
  <2>3. \A h \in GrantIds \ {g} : Kept(h)
    BY <1>7, <2>1 DEF RevokeGrant, Status, HeldPastCheck, HeldAtExpiry
  <2> QED BY <1>7, <2>2, <2>3, KeepOrDie DEF RevokeGrant
<1>8. CASE Restart
  <2>1. \A g \in GrantIds : Kept(g) \/ Died(g)
    BY <1>8 DEF Restart, Release, Status, HeldPastCheck, HeldAtExpiry
  <2> QED BY <1>8, <2>1, KeepOrDie DEF Restart
<1>9. CASE Tick
  <2>1. \A g \in GrantIds : Kept(g) \/ Died(g)
    BY <1>9 DEF Tick, Status, HeldPastCheck, HeldAtExpiry
  <2> QED BY <1>9, <2>1, KeepOrDie DEF Tick
<1>10. CASE UNCHANGED vars
  <2>1. \A g \in GrantIds : Kept(g)
    BY <1>10 DEF vars, Status, HeldPastCheck, HeldAtExpiry
  <2> QED BY <1>10, <2>1, KeepOrDie DEF vars
<1>11. VerifyWrong => grants' = grants \/ grants' = MarkUsed(verifier.grant)
  BY DEF VerifyWrong
<1> QED
  BY <1>1, <1>2, <1>3, <1>4, <1>5, <1>6, <1>7, <1>8, <1>9, <1>10, <1>11 DEF Next

(* But for the budget, which is whatever bounds the comparisons, the table *)
(* of grants is a ledger of one-time codes.                                *)
THEOREM Refinement == Spec => ImplementsUnlimitedCodes
BY RefinesInit, RefinesNext, Invariance, PTL
   DEF Spec, ImplementsUnlimitedCodes, Codes!Spec
-----------------------------------------------------------------------------
(* Sequences as the sets of what they hold. *)
Told(s) == {s[i] : i \in DOMAIN s}

LEMMA ToldOf ==
  /\ Told(<<>>) = {}
  /\ \A x : Told(<<x>>) = {x}
  /\ \A x, y : Told(<<x, y>>) = {x, y}
  /\ \A x, y, z : Told(<<x, y, z>>) = {x, y, z}
<1>1. Told(<<>>) = {}
  BY DEF Told
<1>2. ASSUME NEW x PROVE Told(<<x>>) = {x}
  <2>1. DOMAIN <<x>> = {1} /\ <<x>>[1] = x
    OBVIOUS
  <2> QED
    BY <2>1 DEF Told
<1>3. ASSUME NEW x, NEW y PROVE Told(<<x, y>>) = {x, y}
  <2>1. DOMAIN <<x, y>> = {1, 2} /\ <<x, y>>[1] = x /\ <<x, y>>[2] = y
    OBVIOUS
  <2> QED
    BY <2>1 DEF Told
<1>4. ASSUME NEW x, NEW y, NEW z PROVE Told(<<x, y, z>>) = {x, y, z}
  <2>1. DOMAIN <<x, y, z>> = {1, 2, 3} /\ <<x, y, z>>[1] = x /\ <<x, y, z>>[2] = y
        /\ <<x, y, z>>[3] = z
    OBVIOUS
  <2> QED
    BY <2>1 DEF Told
<1> QED
  BY <1>1, <1>2, <1>3, <1>4

LEMMA ToldIn ==
  ASSUME NEW S, NEW s \in Seq(S)
  PROVE  Told(s) \subseteq S
BY DEF Told

LEMMA ToldConcat ==
  ASSUME NEW S, NEW s \in Seq(S), NEW t \in Seq(S)
  PROVE  s \o t \in Seq(S) /\ Told(s \o t) = Told(s) \union Told(t)
<1> DEFINE u == s \o t
<1>1. /\ u \in Seq(S) /\ Len(u) = Len(s) + Len(t)
      /\ \A i \in 1..(Len(s) + Len(t)) :
           u[i] = IF i <= Len(s) THEN s[i] ELSE t[i - Len(s)]
  BY ONLY s \in Seq(S), t \in Seq(S), ConcatProperties
<1> HIDE DEF u
<1>2. /\ DOMAIN u = 1..(Len(s) + Len(t)) /\ DOMAIN s = 1..Len(s) /\ DOMAIN t = 1..Len(t)
      /\ Len(s) \in Nat /\ Len(t) \in Nat
  BY <1>1
<1>3. ASSUME NEW i \in DOMAIN u PROVE u[i] \in Told(s) \union Told(t)
  <2>1. CASE i <= Len(s)
    BY <1>1, <1>2, <2>1 DEF Told
  <2>2. CASE ~(i <= Len(s))
    <3>1. i - Len(s) \in DOMAIN t /\ u[i] = t[i - Len(s)]
      BY <1>1, <1>2, <2>2
    <3> QED
      BY <3>1 DEF Told
  <2> QED
    BY <2>1, <2>2
<1>4. ASSUME NEW i \in DOMAIN s PROVE s[i] \in Told(u)
  <2>1. i \in DOMAIN u /\ u[i] = s[i]
    BY <1>1, <1>2
  <2> QED
    BY <2>1 DEF Told
<1>5. ASSUME NEW i \in DOMAIN t PROVE t[i] \in Told(u)
  <2>1. i + Len(s) \in DOMAIN u /\ u[i + Len(s)] = t[i]
    BY <1>1, <1>2
  <2> QED
    BY <2>1 DEF Told
<1>6. Told(u) = Told(s) \union Told(t)
  BY <1>3, <1>4, <1>5 DEF Told
<1> QED
  BY <1>1, <1>6 DEF u

LEMMA ToldTail ==
  ASSUME NEW S, NEW s \in Seq(S), s # <<>>
  PROVE  /\ Head(s) \in S /\ Tail(s) \in Seq(S)
         /\ Told(s) = {Head(s)} \union Told(Tail(s))
<1>1. /\ Head(s) \in S /\ Tail(s) \in Seq(S) /\ Len(Tail(s)) = Len(s) - 1
      /\ \A i \in 1..Len(Tail(s)) : Tail(s)[i] = s[i + 1]
  BY HeadTailProperties
<1> DEFINE t == Tail(s)
<1>2. /\ t \in Seq(S) /\ Len(t) = Len(s) - 1 /\ \A i \in 1..Len(t) : t[i] = s[i + 1]
  BY <1>1
<1> HIDE DEF t
<1>3. /\ DOMAIN s = 1..Len(s) /\ DOMAIN t = 1..Len(t) /\ Len(s) \in Nat /\ Len(s) # 0
      /\ Head(s) = s[1]
  BY <1>2
<1>4. ASSUME NEW i \in DOMAIN s PROVE s[i] \in {Head(s)} \union Told(t)
  <2>1. CASE i = 1
    BY <1>3, <2>1
  <2>2. CASE i # 1
    <3>1. i - 1 \in DOMAIN t /\ t[i - 1] = s[i]
      BY <1>2, <1>3, <2>2
    <3> QED
      BY <3>1 DEF Told
  <2> QED
    BY <2>1, <2>2
<1>5. ASSUME NEW i \in DOMAIN t PROVE t[i] \in Told(s)
  <2>1. i + 1 \in DOMAIN s /\ t[i] = s[i + 1]
    BY <1>2, <1>3
  <2> QED
    BY <2>1 DEF Told
<1>6. Head(s) \in Told(s)
  BY <1>3 DEF Told
<1> QED
  BY <1>1, <1>4, <1>5, <1>6 DEF Told, t

-----------------------------------------------------------------------------
(* Audit: what it keeps.                                                   *)
AuditChecks == {"versions", "deps", "usage", "agents", "tests", "upstream", "merges"}

AuditJobs ==
  [ at : {"idle", "next", "visit", "asked", "done"}, todo : Seq(AuditChecks),
    remote : BOOLEAN, left : SUBSET AuditRepos, read : SUBSET (AuditRepos \X BOOLEAN),
    ran : SUBSET AuditChecks, code : 0..2 ]

RepoType ==
  [ cloned : BOOLEAN, head : {"origin", "other"},
    pins : {"match", "drift", "invalid"}, deps : {"pinned", "floating"},
    lock : {"none", "one", "many"}, kit : {"installed", "shadowed", "missing"},
    imports : {"known", "unknown", "namespace"}, tests : BOOLEAN,
    advisory : BOOLEAN,
    merges : {"passed", "failed", "unsettled", "unchecked", "overridden",
              "beyond", "unread"} ]

WorldType ==
  [ manifest : BOOLEAN, pins : BOOLEAN, network : BOOLEAN, editors : BOOLEAN,
    gates : {"clean", "findings", "unverified", "absent", "mute"},
    mcp : {"same", "drift", "unverified"},
    recall : {"good", "low", "silent"} ]

Subjects == AuditRepos \union AuditChecks \union {Shared}

Labels == AuditChecks \union {"clone", "audit"}

Reasons ==
  { "not cloned", "not cloned (tests)", "package.json", "bun.lock", "kit", "namespace",
    "exports", "merges", "check-all", "check-all missing", "recall", "mcp", "editor",
    "osv", "registry", "billing", "pins", "lookup", "--remote", "manifest" }

Gaps == (AuditRepos \union {Shared}) \X Reasons

Pages ==
  [ findings : SUBSET (Labels \X Aud!Severities \X Subjects), gaps : SUBSET Gaps,
    accepted : SUBSET (AuditChecks \X Gaps) ]

AuditTypes ==
  /\ tree \in [AuditRepos -> RepoType]
  /\ world \in WorldType
  /\ audit \in AuditJobs
  /\ page \in Pages
  /\ report \in Pages
  /\ auditChanges \in 0..AuditChanges

(* What a command remembers of the facts frames those of the moment. *)
Framed ==
  audit.at # "idle" =>
    /\ auditSteady \subseteq Aud!Facts(tree, world)
    /\ Aud!Facts(tree, world) \subseteq auditEver

Underway == audit.at \in {"visit", "asked"}

Error(f) == <<f[2][1], "ERROR", f[2][2]>>

(* Without --remote, upstream and merges do not look. *)
Looks(c, remote) == c \in {"upstream", "merges"} => remote

(* A gap stands for a fact; for a defect its check looks for, only where   *)
(* that could not be seen at some time.                                    *)
StandsFor(g, f) ==
  /\ Aud!Hides(g, f)
  /\ f[1] = "defect" /\ Looks(f[2][1], audit.remote) => ~Aud!Visible(f[2])

Known(f) ==
  \/ Aud!Blind(f)
  \/ f[1] = "defect" /\ Error(f) \in page.findings
  \/ \E g \in page.gaps : StandsFor(g, f)

(* What the check under way will still see. *)
Ahead(f) ==
  \/ /\ audit.at = "visit"
     /\ f[2][2] \in audit.left
     /\ ~(f[1] = "unseen" /\ f[2][3] = "not cloned")
  \/ /\ audit.at = "visit" /\ f[2][1] = "upstream"
     /\ \/ f[1] = "defect" /\ <<f[2][2], TRUE>> \in audit.read
        \/ f[1] = "unseen" /\ \E b \in BOOLEAN : <<f[2][2], b>> \in audit.read
  \/ audit.remote /\ f = <<"unseen", <<"upstream", Shared, "lookup">>>>

PageOK ==
  Underway =>
    /\ audit.todo # <<>>
    /\ \A f \in auditSteady : f[2][1] = Aud!Check => Known(f) \/ Ahead(f)
    /\ \A f \in page.findings :
         f[2] = "ERROR" => f[1] = Aud!Check /\ <<"defect", <<f[1], f[3]>>>> \in auditEver
    /\ \A p \in audit.read :
         p[2] => <<"defect", <<"upstream", p[1]>>>> \in auditEver
    /\ Aud!Check = "upstream" /\ <<Shared, "pins">> \in page.gaps =>
         <<"unseen", <<"upstream", Shared, "lookup">>>> \notin auditSteady

(* The gap was accepted by name and in time. *)
AcceptedFor(g, f) ==
  /\ <<f[2][1], g>> \in report.accepted
  /\ \E e \in rules.accepted : e.check = f[2][1] /\ e.what = g[2] /\ ~e.expired

Answered(f) ==
  \/ Aud!Blind(f)
  \/ f[1] = "defect" /\ Aud!Excepted(f[2])
  \/ f[1] = "defect" /\ Error(f) \in report.findings
  \/ \E g : StandsFor(g, f) /\ (g \in report.gaps \/ AcceptedFor(g, f))

ReportOK ==
  audit.at # "idle" =>
    /\ \A f \in auditSteady : f[2][1] \in audit.ran => Answered(f)
    /\ \A f \in report.findings :
         f[2] = "ERROR" => /\ f[1] \in audit.ran
                           /\ <<"defect", <<f[1], f[3]>>>> \in auditEver
                           /\ ~Aud!Excepted(<<f[1], f[3]>>)

CodeOK ==
  audit.at = "done" => audit.todo = <<>> /\ audit.code = Aud!ExitCode(report)

AuditInv == AuditTypes /\ Framed /\ PageOK /\ ReportOK /\ CodeOK

-----------------------------------------------------------------------------
(* The facts, one by one. *)
DefectOf(c, s, t, w) ==
  \/ c = "versions" /\ s \in AuditRepos /\ t[s].cloned /\ t[s].pins = "drift"
  \/ /\ c = "deps" /\ s \in AuditRepos /\ t[s].cloned /\ t[s].pins # "invalid"
     /\ t[s].deps = "floating"
  \/ /\ c = "upstream" /\ s \in AuditRepos /\ t[s].cloned /\ t[s].advisory
     /\ t[s].lock # "none"
  \/ c = "merges" /\ s \in AuditRepos /\ t[s].merges \in {"failed", "unsettled", "unchecked"}
  \/ c = "agents" /\ s = Shared /\ (w.gates = "findings" \/ w.recall = "low")

UnseenHere(c, x, u, w) ==
  \/ c \in {"versions", "deps", "usage"} /\ u = "not cloned" /\ ~x.cloned
  \/ c = "tests" /\ u = "not cloned (tests)" /\ ~x.cloned
  \/ /\ c \in {"versions", "deps"} /\ u = "package.json"
     /\ x.cloned /\ x.pins = "invalid"
  \/ c = "merges" /\ u = "merges" /\ (~w.network \/ x.merges = "unread")
  \/ c = "upstream" /\ u = "osv" /\ ~w.network /\ x.cloned /\ x.lock # "none"

UnseenOf(c, s, u, t, w) ==
  \/ s \in AuditRepos /\ UnseenHere(c, t[s], u, w)
  \/ /\ s = Shared
     /\ \/ c \in Aud!PerRepo /\ u = "manifest" /\ ~w.manifest
        \/ c \in {"versions", "upstream"} /\ u = "pins" /\ ~w.pins
        \/ c = "upstream" /\ u = "lookup" /\ ~w.network /\ w.pins
        \/ /\ c = "agents"
           /\ \/ u = "check-all" /\ w.gates = "unverified"
              \/ u = "check-all missing" /\ w.gates = "absent"
              \/ u = "mcp" /\ w.mcp = "unverified"
              \/ u = "recall" /\ w.recall = "silent"
              \/ u = "editor" /\ ~w.editors

LEMMA DefectsAre ==
  ASSUME NEW t, NEW w, NEW d
  PROVE  d \in Aud!Defects(t, w) <=> \E c, s : d = <<c, s>> /\ DefectOf(c, s, t, w)
BY DEF Aud!Defects, Aud!When, DefectOf

LEMMA UnseenInAre ==
  ASSUME NEW r, NEW x, NEW w, NEW d
  PROVE  d \in Aud!UnseenIn(r, x, w) <=>
           \E c, u : d = <<c, r, u>> /\ UnseenHere(c, x, u, w)
BY DEF Aud!UnseenIn, Aud!When, UnseenHere

LEMMA UnseenAre ==
  ASSUME NEW t, NEW w, NEW d
  PROVE  d \in Aud!Unseen(t, w) <=>
           \E c, s, u : d = <<c, s, u>> /\ UnseenOf(c, s, u, t, w)
<1>1. ASSUME d \in Aud!Unseen(t, w)
      PROVE  \E c, s, u : d = <<c, s, u>> /\ UnseenOf(c, s, u, t, w)
  <2>1. CASE \E r \in AuditRepos : d \in Aud!UnseenIn(r, t[r], w)
    BY <2>1, UnseenInAre DEF UnseenOf
  <2>2. CASE ~\E r \in AuditRepos : d \in Aud!UnseenIn(r, t[r], w)
    BY <1>1, <2>2 DEF Aud!Unseen, Aud!When, UnseenOf
  <2> QED
    BY <2>1, <2>2
<1>2. ASSUME NEW c, NEW s, NEW u, d = <<c, s, u>>, UnseenOf(c, s, u, t, w)
      PROVE  d \in Aud!Unseen(t, w)
  <2>1. CASE d \in Aud!UnseenIn(s, t[s], w) /\ s \in AuditRepos
    BY <2>1 DEF Aud!Unseen
  <2>2. CASE s = Shared
    BY <1>2, <2>2, InspectAssumption DEF UnseenOf, Aud!Unseen, Aud!When
  <2>3. CASE s \in AuditRepos
    <3>1. d \in Aud!UnseenIn(s, t[s], w)
      BY <1>2, <2>3, UnseenInAre, InspectAssumption DEF UnseenOf
    <3> QED
      BY <3>1, <2>3, <2>1
  <2> QED
    BY <1>2, <2>2, <2>3 DEF UnseenOf
<1> QED
  BY <1>1, <1>2

LEMMA FactsAre ==
  ASSUME NEW t, NEW w, NEW f
  PROVE  f \in Aud!Facts(t, w) <=>
           \/ \E c, s : f = <<"defect", <<c, s>>>> /\ DefectOf(c, s, t, w)
           \/ \E c, s, u : f = <<"unseen", <<c, s, u>>>> /\ UnseenOf(c, s, u, t, w)
BY DefectsAre, UnseenAre DEF Aud!Facts

-----------------------------------------------------------------------------
(* What the operators of the report give. *)
LEMMA AddType ==
  ASSUME NEW a \in Pages, NEW b \in Pages
  PROVE  /\ Aud!Add(a, b) \in Pages
         /\ Aud!Add(a, b).findings = a.findings \union b.findings
         /\ Aud!Add(a, b).gaps = a.gaps \union b.gaps
         /\ Aud!Add(a, b).accepted = a.accepted \union b.accepted
BY DEF Aud!Add, Pages

LEMMA ReportType ==
  ASSUME NEW fs, NEW gs
  PROVE  /\ Aud!Report(fs, gs).findings = fs
         /\ Aud!Report(fs, gs).gaps = gs
         /\ Aud!Report(fs, gs).accepted = {}
         /\ fs \subseteq Labels \X Aud!Severities \X Subjects /\ gs \subseteq Gaps
              => Aud!Report(fs, gs) \in Pages
BY DEF Aud!Report, Pages

LEMMA EmptyType == Aud!Empty \in Pages
BY DEF Aud!Empty, Pages

LEMMA SensorIs ==
  ASSUME NEW r, NEW x, NEW w
  PROVE  /\ Aud!Sensor("versions", r, x, w) = Aud!VersionsOf(r, x, w)
         /\ Aud!Sensor("deps", r, x, w) = Aud!DepsOf(r, x, w)
         /\ Aud!Sensor("usage", r, x, w) = Aud!UsageOf(r, x, w)
         /\ Aud!Sensor("tests", r, x, w) = Aud!TestsOf(r, x, w)
         /\ Aud!Sensor("merges", r, x, w) = Aud!MergesOf(r, x, w)
         /\ \A c : c \notin {"versions", "deps", "usage", "tests", "merges"}
               => Aud!Sensor(c, r, x, w) = Aud!Empty
BY DEF Aud!Sensor

LEMMA SensorType ==
  ASSUME NEW c, NEW r \in AuditRepos, NEW x, NEW w
  PROVE  Aud!Sensor(c, r, x, w) \in Pages
<1> DEFINE F == Labels \X Aud!Severities \X Subjects
<1>1. /\ <<"versions", "ERROR", r>> \in F /\ <<"deps", "ERROR", r>> \in F
      /\ <<"deps", "WARN", r>> \in F /\ <<"usage", "WARN", r>> \in F
      /\ <<"tests", "WARN", r>> \in F /\ <<"merges", "ERROR", r>> \in F
  BY DEF Aud!Severities, Subjects, Labels, AuditChecks
<1>2. \A u \in Reasons : <<r, u>> \in Gaps
  BY DEF Gaps
<1>0. Pages = [findings : SUBSET F, gaps : SUBSET Gaps, accepted : SUBSET (AuditChecks \X Gaps)]
  BY DEF Pages
<1> HIDE DEF F
<1> USE DEF Aud!Report, Aud!When
<1>3. Aud!VersionsOf(r, x, w) \in Pages
  BY <1>0, <1>1, <1>2 DEF Reasons, Aud!VersionsOf
<1>4. Aud!DepsOf(r, x, w) \in Pages
  BY <1>0, <1>1, <1>2 DEF Reasons, Aud!DepsOf
<1>5. Aud!UsageOf(r, x, w) \in Pages
  BY <1>0, <1>1, <1>2 DEF Reasons, Aud!UsageOf
<1>6. Aud!TestsOf(r, x, w) \in Pages
  BY <1>0, <1>1, <1>2 DEF Reasons, Aud!TestsOf
<1>7. Aud!MergesOf(r, x, w) \in Pages
  BY <1>0, <1>1, <1>2 DEF Reasons, Aud!MergesOf
<1> QED
  BY <1>3, <1>4, <1>5, <1>6, <1>7, EmptyType, SensorIs

(* A sensor reports errors of its own check, about what it reads. *)
LEMMA SensorErrors ==
  ASSUME NEW c, NEW r \in AuditRepos, NEW t, NEW w,
         NEW f \in Aud!Sensor(c, r, t[r], w).findings, f[2] = "ERROR"
  PROVE  f[1] = c /\ f[3] = r /\ DefectOf(c, r, t, w)
<1> USE DEF Aud!Report, Aud!When
<1>1. CASE c = "versions"
  <2>1. f \in Aud!VersionsOf(r, t[r], w).findings
    BY <1>1, SensorIs
  <2> QED
    BY <1>1, <2>1 DEF Aud!VersionsOf, DefectOf, Aud!Drifts
<1>2. CASE c = "deps"
  <2>1. f \in Aud!DepsOf(r, t[r], w).findings
    BY <1>2, SensorIs
  <2> QED
    BY <1>2, <2>1 DEF Aud!DepsOf, DefectOf, Aud!Parses, Aud!Floats
<1>3. CASE c = "usage"
  <2>1. f \in Aud!UsageOf(r, t[r], w).findings
    BY <1>3, SensorIs
  <2> QED
    BY <1>3, <2>1 DEF Aud!UsageOf
<1>4. CASE c = "tests"
  <2>1. f \in Aud!TestsOf(r, t[r], w).findings
    BY <1>4, SensorIs
  <2> QED
    BY <1>4, <2>1 DEF Aud!TestsOf
<1>5. CASE c = "merges"
  <2>1. f \in Aud!MergesOf(r, t[r], w).findings
    BY <1>5, SensorIs
  <2> QED
    BY <1>5, <2>1 DEF Aud!MergesOf, DefectOf, Aud!Bypasses
<1>6. CASE c \notin {"versions", "deps", "usage", "tests", "merges"}
  BY <1>6, SensorIs DEF Aud!Empty
<1> QED
  BY <1>1, <1>2, <1>3, <1>4, <1>5, <1>6

(* And it sees them, or names what hides them. *)
LEMMA SensorSees ==
  ASSUME NEW c, NEW r \in AuditRepos, NEW t, NEW w
  PROVE  /\ DefectOf(c, r, t, w) /\ c \in {"versions", "deps"}
              => <<c, "ERROR", r>> \in Aud!Sensor(c, r, t[r], w).findings
         /\ DefectOf(c, r, t, w) /\ c = "merges"
              => \/ <<c, "ERROR", r>> \in Aud!Sensor(c, r, t[r], w).findings
                 \/ /\ <<r, "merges">> \in Aud!Sensor(c, r, t[r], w).gaps
                    /\ UnseenHere(c, t[r], "merges", w)
         /\ \A u : UnseenHere(c, t[r], u, w) /\ u # "not cloned" /\ c # "upstream"
              => <<r, u>> \in Aud!Sensor(c, r, t[r], w).gaps
<1> USE DEF Aud!Report, Aud!When
<1>1. CASE c = "versions"
  <2>1. Aud!Sensor(c, r, t[r], w) = Aud!VersionsOf(r, t[r], w)
    BY <1>1, SensorIs
  <2>2. DefectOf(c, r, t, w) => <<c, "ERROR", r>> \in Aud!VersionsOf(r, t[r], w).findings
    BY <1>1, InspectAssumption DEF DefectOf, Aud!VersionsOf, Aud!Drifts
  <2>3. ASSUME NEW u, UnseenHere(c, t[r], u, w), u # "not cloned"
        PROVE  <<r, u>> \in Aud!VersionsOf(r, t[r], w).gaps
    BY <1>1, <2>3 DEF UnseenHere, Aud!VersionsOf, Aud!Parses
  <2> QED
    BY <1>1, <2>1, <2>2, <2>3
<1>2. CASE c = "deps"
  <2>1. Aud!Sensor(c, r, t[r], w) = Aud!DepsOf(r, t[r], w)
    BY <1>2, SensorIs
  <2>2. DefectOf(c, r, t, w) => <<c, "ERROR", r>> \in Aud!DepsOf(r, t[r], w).findings
    BY <1>2, InspectAssumption DEF DefectOf, Aud!DepsOf, Aud!Parses, Aud!Floats
  <2>3. ASSUME NEW u, UnseenHere(c, t[r], u, w), u # "not cloned"
        PROVE  <<r, u>> \in Aud!DepsOf(r, t[r], w).gaps
    BY <1>2, <2>3 DEF UnseenHere, Aud!DepsOf, Aud!Parses
  <2> QED
    BY <1>2, <2>1, <2>2, <2>3
<1>3. CASE c = "tests"
  <2>1. Aud!Sensor(c, r, t[r], w) = Aud!TestsOf(r, t[r], w)
    BY <1>3, SensorIs
  <2>3. ASSUME NEW u, UnseenHere(c, t[r], u, w), u # "not cloned"
        PROVE  <<r, u>> \in Aud!TestsOf(r, t[r], w).gaps
    BY <1>3, <2>3 DEF UnseenHere, Aud!TestsOf
  <2> QED
    BY <1>3, <2>1, <2>3
<1>4. CASE c = "merges"
  <2>1. Aud!Sensor(c, r, t[r], w) = Aud!MergesOf(r, t[r], w)
    BY <1>4, SensorIs
  <2>2. DefectOf(c, r, t, w) /\ w.network
          => <<c, "ERROR", r>> \in Aud!MergesOf(r, t[r], w).findings
    BY <1>4, InspectAssumption DEF DefectOf, Aud!MergesOf, Aud!Bypasses, Aud!Listed
  <2>3. ~w.network => /\ <<r, "merges">> \in Aud!MergesOf(r, t[r], w).gaps
                      /\ UnseenHere(c, t[r], "merges", w)
    BY <1>4 DEF UnseenHere, Aud!MergesOf
  <2>4. ASSUME NEW u, UnseenHere(c, t[r], u, w), u # "not cloned"
        PROVE  <<r, u>> \in Aud!MergesOf(r, t[r], w).gaps
    BY <1>4, <2>4 DEF UnseenHere, Aud!MergesOf
  <2> QED
    BY <1>4, <2>1, <2>2, <2>3, <2>4
<1>5. CASE c \notin {"versions", "deps", "tests", "merges"}
  BY <1>5 DEF UnseenHere
<1> QED
  BY <1>1, <1>2, <1>3, <1>4, <1>5

(* What a check says before it visits the repositories. *)
LEMMA OverallIs ==
  ASSUME NEW remote, NEW w
  PROVE  /\ Aud!Overall("agents", remote, w) = Aud!AgentsReport(w)
         /\ Aud!Overall("versions", remote, w) =
              Aud!Add(Aud!Scan(w), Aud!Report({}, Aud!When(~w.pins, <<Shared, "pins">>)))
         /\ \A c \in {"deps", "usage"} :
              Aud!Overall(c, remote, w) = Aud!Add(Aud!Scan(w), Aud!Report({}, {}))
         /\ \A c \in {"upstream", "merges"} :
              ~remote => Aud!Overall(c, remote, w) = Aud!Report({}, {<<Shared, "--remote">>})
         /\ remote => Aud!Overall("upstream", remote, w) =
                         Aud!Report({}, Aud!When(~w.pins, <<Shared, "pins">>))
         /\ remote => Aud!Overall("merges", remote, w) = Aud!Manifest(w)
         /\ Aud!Overall("tests", remote, w) = Aud!Manifest(w)
         /\ \A c : c \notin AuditChecks => Aud!Overall(c, remote, w) = Aud!Empty
<1>2. ASSUME NEW c \in {"deps", "usage"}
      PROVE  Aud!Overall(c, remote, w) = Aud!Add(Aud!Scan(w), Aud!Report({}, {}))
  <2>1. Aud!When(c = "versions" /\ ~w.pins, <<Shared, "pins">>) = {}
    BY DEF Aud!When
  <2>2. Aud!Overall(c, remote, w) = Aud!Add(Aud!Scan(w),
          Aud!Report({}, Aud!When(c = "versions" /\ ~w.pins, <<Shared, "pins">>)))
    BY DEF Aud!Overall
  <2> QED
    BY <2>1, <2>2
<1>3. /\ Aud!Overall("agents", remote, w) = Aud!AgentsReport(w)
      /\ Aud!Overall("versions", remote, w) =
           Aud!Add(Aud!Scan(w), Aud!Report({}, Aud!When(~w.pins, <<Shared, "pins">>)))
  BY DEF Aud!Overall
<1>4. ASSUME NEW c \in {"upstream", "merges"}, ~remote
      PROVE  Aud!Overall(c, remote, w) = Aud!Report({}, {<<Shared, "--remote">>})
  <2>1. CASE c = "upstream"
    BY <1>4, <2>1 DEF Aud!Overall
  <2>2. CASE c = "merges"
    BY <1>4, <2>2 DEF Aud!Overall
  <2> QED
    BY <2>1, <2>2
<1>5. /\ remote => Aud!Overall("upstream", remote, w) =
                      Aud!Report({}, Aud!When(~w.pins, <<Shared, "pins">>))
      /\ remote => Aud!Overall("merges", remote, w) = Aud!Manifest(w)
      /\ Aud!Overall("tests", remote, w) = Aud!Manifest(w)
  BY DEF Aud!Overall
<1>6. \A c : c \notin AuditChecks => Aud!Overall(c, remote, w) = Aud!Empty
  BY DEF AuditChecks, Aud!Overall
<1> QED
  BY <1>2, <1>3, <1>4, <1>5, <1>6

LEMMA OverallType ==
  ASSUME NEW c, NEW remote, NEW w
  PROVE  Aud!Overall(c, remote, w) \in Pages
<1> DEFINE F == Labels \X Aud!Severities \X Subjects
<1>0. Pages = [findings : SUBSET F, gaps : SUBSET Gaps, accepted : SUBSET (AuditChecks \X Gaps)]
  BY DEF Pages
<1>1. /\ <<"agents", "ERROR", Shared>> \in F /\ <<"agents", "WARN", Shared>> \in F
      /\ \A r \in AuditRepos : <<"clone", "WARN", r>> \in F
  BY DEF Aud!Severities, Subjects, Labels, AuditChecks
<1>2. \A u \in Reasons, s \in AuditRepos \union {Shared} : <<s, u>> \in Gaps
  BY DEF Gaps
<1> HIDE DEF F
<1> USE DEF Aud!Report, Aud!When
<1>3. Aud!CheckAll(w) \in Pages
  BY <1>0, <1>1, <1>2 DEF Reasons, Aud!CheckAll
<1>4. Aud!Recall(w) \in Pages
  BY <1>0, <1>1, <1>2 DEF Reasons, Aud!Recall
<1>5. Aud!Editors(w) \in Pages
  BY <1>0, <1>1, <1>2 DEF Reasons, Aud!Editors
<1>6. Aud!AgentsReport(w) \in Pages
  BY <1>3, <1>4, <1>5, AddType DEF Aud!AgentsReport
<1>16. Aud!Manifest(w) \in Pages
  BY <1>0, <1>2 DEF Reasons, Aud!Manifest
<1>7. Aud!Scan(w) \in Pages
  <2> DEFINE listed == {r \in AuditRepos : w.manifest}
             absent == {r \in listed : ~tree[r].cloned}
             fs == {<<"clone", "WARN", r>> :
                      r \in {x \in listed \ absent : Aud!Behind(tree[x])}}
             gs == {<<r, "not cloned">> : r \in absent}
             own == [findings |-> fs, gaps |-> gs, accepted |-> {}]
  <2>1. fs \subseteq F
    BY <1>1
  <2>2. gs \subseteq Gaps
    BY <1>2 DEF Reasons
  <2>3. Aud!Scan(w) = Aud!Add(Aud!Manifest(w), own)
    BY DEF Aud!Scan
  <2>4. own \in Pages
    BY <1>0, <2>1, <2>2
  <2> HIDE DEF own
  <2> QED
    BY <1>16, <2>3, <2>4, AddType
<1>8. ASSUME NEW gs \in SUBSET {<<Shared, "pins">>, <<Shared, "--remote">>}
      PROVE  Aud!Report({}, gs) \in Pages
  BY <1>0, <1>2 DEF Reasons
<1>9. Aud!Report({}, Aud!When(~w.pins, <<Shared, "pins">>)) \in Pages
  <2>1. Aud!When(~w.pins, <<Shared, "pins">>)
          \in SUBSET {<<Shared, "pins">>, <<Shared, "--remote">>}
    OBVIOUS
  <2> QED
    BY <2>1, <1>8
<1>10. Aud!Report({}, {<<Shared, "--remote">>}) \in Pages /\ Aud!Report({}, {}) \in Pages
  BY <1>8
<1> HIDE DEF Aud!Report, Aud!When
<1>11. CASE c = "agents"
  BY <1>6, <1>11, OverallIs
<1>12. CASE c = "versions"
  BY <1>7, <1>9, <1>12, AddType, OverallIs
<1>13. CASE c \in {"deps", "usage"}
  BY <1>7, <1>10, <1>13, AddType, OverallIs
<1>14. CASE c = "upstream"
  BY <1>9, <1>10, <1>14, OverallIs
<1>15. CASE c \in {"tests", "merges"}
  BY <1>16, <1>10, <1>15, OverallIs
<1>17. CASE c \notin AuditChecks
  BY <1>17, OverallIs, EmptyType
<1>18. \/ c \notin AuditChecks \/ c = "agents" \/ c = "versions" \/ c = "upstream"
       \/ c \in {"deps", "usage"} \/ c \in {"tests", "merges"}
  BY DEF AuditChecks
<1> QED
  BY <1>11, <1>12, <1>13, <1>14, <1>15, <1>17, <1>18

LEMMA OverallErrors ==
  ASSUME NEW c, NEW remote, NEW w,
         NEW f \in Aud!Overall(c, remote, w).findings, f[2] = "ERROR"
  PROVE  f[1] = c /\ f[3] = Shared /\ DefectOf(c, Shared, tree, w)
<1> USE DEF Aud!Report, Aud!Add, Aud!When
<1>1. CASE c = "agents"
  <2>1. f \in Aud!AgentsReport(w).findings
    BY <1>1, OverallIs
  <2>2. \/ f \in Aud!CheckAll(w).findings \/ f \in Aud!Editors(w).findings
        \/ f \in Aud!Recall(w).findings
    BY <2>1 DEF Aud!AgentsReport
  <2> QED
    BY <1>1, <2>2 DEF Aud!CheckAll, Aud!Recall, Aud!Editors, DefectOf
<1>2. CASE c \in {"versions", "deps", "usage"}
  <2>1. f \in Aud!Scan(w).findings
    BY <1>2, OverallIs
  <2> QED
    BY <2>1 DEF Aud!Scan, Aud!Manifest
<1>3. CASE c \notin {"agents", "versions", "deps", "usage"}
  <2> SUFFICES Aud!Overall(c, remote, w).findings = {}
    OBVIOUS
  <2> HIDE DEF Aud!Report, Aud!Add, Aud!When
  <2>1. CASE c \in {"upstream", "merges"} /\ ~remote
    <3>1. Aud!Overall(c, remote, w) = Aud!Report({}, {<<Shared, "--remote">>})
      BY <2>1, OverallIs
    <3> QED
      BY <3>1 DEF Aud!Report
  <2>2. CASE c = "upstream" /\ remote
    <3>1. Aud!Overall(c, remote, w) = Aud!Report({}, Aud!When(~w.pins, <<Shared, "pins">>))
      BY <2>2, OverallIs
    <3> QED
      BY <3>1 DEF Aud!Report
  <2>3. CASE c = "tests" \/ (c = "merges" /\ remote)
    <3>1. Aud!Overall(c, remote, w) = Aud!Manifest(w)
      BY <2>3, OverallIs
    <3> QED
      BY <3>1 DEF Aud!Manifest, Aud!Report
  <2>4. CASE c \notin {"upstream", "merges", "tests"}
    <3>1. Aud!Overall(c, remote, w) = Aud!Empty
      BY <1>3, <2>4, OverallIs DEF AuditChecks
    <3> QED
      BY <3>1 DEF Aud!Empty
  <2> QED
    BY <2>1, <2>2, <2>3, <2>4
<1> QED
  BY <1>1, <1>2, <1>3

LEMMA OverallSees ==
  ASSUME NEW c, NEW remote \in BOOLEAN, NEW w, NEW u
  PROVE  /\ DefectOf(c, Shared, tree, w)
              => <<c, "ERROR", Shared>> \in Aud!Overall(c, remote, w).findings
         /\ UnseenOf(c, Shared, u, tree, w)
              => \/ <<Shared, u>> \in Aud!Overall(c, remote, w).gaps
                 \/ c = "upstream" /\ u = "lookup" /\ remote
                 \/ c = "upstream" /\ u = "manifest" /\ remote /\ ~w.manifest
                 \/ <<Shared, "--remote">> \in Aud!Overall(c, remote, w).gaps
         /\ \A r \in AuditRepos :
              c \in {"versions", "deps", "usage"} /\ w.manifest /\ ~tree[r].cloned
                => <<r, "not cloned">> \in Aud!Overall(c, remote, w).gaps
         /\ c \in {"versions", "deps", "usage", "tests"} \/ (c = "merges" /\ remote)
              => (~w.manifest => <<Shared, "manifest">> \in Aud!Overall(c, remote, w).gaps)
         /\ c = "versions" /\ ~w.pins => <<Shared, "pins">> \in Aud!Overall(c, remote, w).gaps
         /\ c \in {"upstream", "merges"} /\ ~remote
              => <<Shared, "--remote">> \in Aud!Overall(c, remote, w).gaps
<1> USE DEF Aud!Report, Aud!Add, Aud!When
<1>1. CASE c = "agents"
  <2>1. /\ Aud!Overall(c, remote, w).findings =
             Aud!CheckAll(w).findings \union (Aud!Editors(w).findings \union Aud!Recall(w).findings)
        /\ Aud!Overall(c, remote, w).gaps =
             Aud!CheckAll(w).gaps \union (Aud!Editors(w).gaps \union Aud!Recall(w).gaps)
    BY <1>1, OverallIs DEF Aud!AgentsReport
  <2>2. DefectOf(c, Shared, tree, w)
          => <<c, "ERROR", Shared>> \in Aud!CheckAll(w).findings \union Aud!Recall(w).findings
    BY <1>1, InspectAssumption DEF DefectOf, Aud!CheckAll, Aud!Recall
  <2>3. UnseenOf(c, Shared, u, tree, w)
          => <<Shared, u>> \in Aud!CheckAll(w).gaps
                               \union (Aud!Editors(w).gaps \union Aud!Recall(w).gaps)
    BY <1>1, InspectAssumption
       DEF UnseenOf, UnseenHere, Aud!PerRepo, Aud!CheckAll, Aud!Recall, Aud!Editors
  <2> QED
    BY <1>1, <2>1, <2>2, <2>3
<1>2. CASE c \in {"versions", "deps", "usage"}
  <2>1. Aud!Scan(w).gaps \subseteq Aud!Overall(c, remote, w).gaps
    BY <1>2, OverallIs
  <2>2. /\ \A r \in AuditRepos :
             w.manifest /\ ~tree[r].cloned => <<r, "not cloned">> \in Aud!Scan(w).gaps
        /\ ~w.manifest => <<Shared, "manifest">> \in Aud!Scan(w).gaps
    BY DEF Aud!Scan, Aud!Manifest
  <2>3. c = "versions" /\ ~w.pins => <<Shared, "pins">> \in Aud!Overall(c, remote, w).gaps
    BY OverallIs
  <2> QED
    BY <1>2, <2>1, <2>2, <2>3, InspectAssumption DEF DefectOf, UnseenOf
<1>3. CASE c \in {"upstream", "merges"} /\ ~remote
  <2>1. Aud!Overall(c, remote, w) = Aud!Report({}, {<<Shared, "--remote">>})
    BY <1>3, OverallIs
  <2>2. <<Shared, "--remote">> \in Aud!Overall(c, remote, w).gaps
    BY <2>1
  <2>3. ~DefectOf(c, Shared, tree, w)
    BY <1>3, InspectAssumption DEF DefectOf
  <2> QED
    BY <1>3, <2>2, <2>3
<1>4. CASE c \in {"upstream", "merges"} /\ remote
  <2>1. ~w.pins => <<Shared, "pins">> \in Aud!Overall("upstream", remote, w).gaps
    <3>1. Aud!Overall("upstream", remote, w) = Aud!Report({}, Aud!When(~w.pins, <<Shared, "pins">>))
      BY <1>4, OverallIs
    <3> QED
      BY <3>1
  <2>2. ~DefectOf(c, Shared, tree, w)
    BY <1>4, InspectAssumption DEF DefectOf
  <2>3. UnseenOf(c, Shared, u, tree, w) =>
          \/ c = "upstream" /\ ((u = "pins" /\ ~w.pins) \/ u = "lookup")
          \/ u = "manifest" /\ ~w.manifest
    BY <1>4, InspectAssumption DEF UnseenOf
  <2>4. c = "merges" /\ ~w.manifest
          => <<Shared, "manifest">> \in Aud!Overall(c, remote, w).gaps
    <3>1. c = "merges" => Aud!Overall(c, remote, w) = Aud!Manifest(w)
      BY <1>4, OverallIs
    <3> QED
      BY <3>1 DEF Aud!Manifest
  <2> QED
    BY <1>4, <2>1, <2>2, <2>3, <2>4
<1>5. CASE c = "tests"
  <2>1. Aud!Overall(c, remote, w) = Aud!Manifest(w)
    BY <1>5, OverallIs
  <2>2. ~w.manifest => <<Shared, "manifest">> \in Aud!Overall(c, remote, w).gaps
    BY <2>1 DEF Aud!Manifest
  <2>3. /\ ~DefectOf(c, Shared, tree, w)
        /\ UnseenOf(c, Shared, u, tree, w) => u = "manifest" /\ ~w.manifest
    BY <1>5, InspectAssumption DEF DefectOf, UnseenOf
  <2> QED
    BY <1>5, <2>2, <2>3
<1>6. CASE c \notin AuditChecks
  BY <1>6, InspectAssumption DEF DefectOf, UnseenOf, AuditChecks, Aud!PerRepo
<1> QED
  BY <1>1, <1>2, <1>3, <1>4, <1>5, <1>6 DEF AuditChecks

(* Something about the subject of d, or about all, cannot be seen. *)
Obscured(d, facts) ==
  \E f \in facts : f[1] = "unseen" /\ f[2][1] = d[1] /\ f[2][2] \in {d[2], Shared}

LEMMA UnseenIsFact ==
  ASSUME NEW t, NEW w, NEW d, NEW s, NEW u, NEW c, UnseenOf(c, s, u, t, w),
         d[1] = c, s \in {d[2], Shared}
  PROVE  Obscured(d, Aud!Facts(t, w))
<1>1. <<"unseen", <<c, s, u>>>> \in Aud!Facts(t, w)
  BY FactsAre
<1> DEFINE f == <<"unseen", <<c, s, u>>>>
<1>2. f[1] = "unseen" /\ f[2] = <<c, s, u>>
  OBVIOUS
<1>3. f[2][1] = c /\ f[2][2] = s
  BY <1>2
<1> QED
  BY <1>1, <1>2, <1>3 DEF Obscured

(* Upstream does not say that it could not read the manifest. *)
BlindNow(c, remote, f) ==
  /\ c = "upstream" /\ remote
  /\ Aud!NoManifest("upstream") \in Aud!Facts(tree, world)
  /\ f[2][2] # Shared \/ f = Aud!NoManifest("upstream")

(* Each fact is told at the beginning of its check, or will be visited. *)
LEMMA BeginSees ==
  ASSUME NEW c, NEW remote \in BOOLEAN, NEW f \in Aud!Facts(tree, world), f[2][1] = c
  PROVE  \/ f[1] = "defect" /\ Error(f) \in Aud!Overall(c, remote, world).findings
         \/ \E g \in Aud!Overall(c, remote, world).gaps :
              /\ Aud!Hides(g, f)
              /\ f[1] = "defect" /\ Looks(c, remote) => Obscured(f[2], Aud!Facts(tree, world))
         \/ BlindNow(c, remote, f)
         \/ /\ f[2][2] \in Aud!Visits(c, remote, world)
            /\ ~(f[1] = "unseen" /\ f[2][3] = "not cloned")
         \/ remote /\ f = <<"unseen", <<"upstream", Shared, "lookup">>>>
<1> DEFINE Said == \/ f[1] = "defect" /\ Error(f) \in Aud!Overall(c, remote, world).findings
                   \/ \E g \in Aud!Overall(c, remote, world).gaps :
                        /\ Aud!Hides(g, f)
                        /\ f[1] = "defect" /\ Looks(c, remote)
                             => Obscured(f[2], Aud!Facts(tree, world))
           V == Aud!Visits(c, remote, world)
<1>0. ASSUME NEW r \in AuditRepos, world.manifest
      PROVE  /\ c = "versions" /\ world.pins /\ tree[r].cloned => r \in V
             /\ c = "deps" /\ tree[r].cloned => r \in V
             /\ c \in {"upstream", "merges"} /\ remote => r \in V
             /\ c = "tests" => r \in V
  <2>1. c = "versions" /\ world.pins /\ tree[r].cloned => r \in V
    BY <1>0 DEF Aud!Visits
  <2>2. c = "deps" /\ tree[r].cloned => r \in V
    BY <1>0 DEF Aud!Visits
  <2>3. c \in {"upstream", "merges"} /\ remote => r \in V
    BY <1>0 DEF Aud!Visits
  <2>4. c = "tests" => r \in V
    BY <1>0 DEF Aud!Visits
  <2> QED
    BY <2>1, <2>2, <2>3, <2>4
<1>1. c \in {"upstream", "merges"} /\ ~remote => Said
  <2>1. Aud!Hides(<<Shared, "--remote">>, f)
    BY DEF Aud!Hides
  <2> QED
    BY <2>1, OverallSees DEF Looks
<1>2. c = "versions" /\ ~world.pins => Said
  <2>1. c = "versions" => Aud!Hides(<<Shared, "pins">>, f)
    BY DEF Aud!Hides
  <2>2. c = "versions" /\ ~world.pins => Obscured(f[2], Aud!Facts(tree, world))
    <3>1. ~world.pins => <<"unseen", <<"versions", Shared, "pins">>>> \in Aud!Facts(tree, world)
      BY FactsAre DEF UnseenOf
    <3> QED
      BY <3>1 DEF Obscured
  <2> QED
    BY <2>1, <2>2, OverallSees
<1>6. ~world.manifest /\ c \in Aud!PerRepo
        => Aud!NoManifest(c) \in Aud!Facts(tree, world)
  BY FactsAre DEF UnseenOf, Aud!NoManifest
<1>7. \/ c \in {"versions", "deps", "usage", "tests"}
      \/ c = "merges" /\ remote
      => (~world.manifest => Said)
  <2> SUFFICES ASSUME \/ c \in {"versions", "deps", "usage", "tests"}
                      \/ c = "merges" /\ remote,
                      ~world.manifest
               PROVE  Said
    OBVIOUS
  <2>1. Aud!Hides(<<Shared, "manifest">>, f)
    BY DEF Aud!Hides
  <2>2. UnseenOf(c, Shared, "manifest", tree, world)
    BY DEF UnseenOf, Aud!PerRepo
  <2>3. Obscured(f[2], Aud!Facts(tree, world))
    BY <2>2, UnseenIsFact
  <2>4. <<Shared, "manifest">> \in Aud!Overall(c, remote, world).gaps
    BY OverallSees
  <2> QED
    BY <2>1, <2>3, <2>4
<1>8. c = "upstream" /\ remote /\ ~world.manifest
        /\ (f[2][2] # Shared \/ f = Aud!NoManifest("upstream")) => BlindNow(c, remote, f)
  BY <1>6 DEF BlindNow, Aud!PerRepo
<1> HIDE DEF Said, V
<1>3. CASE \E s : f = <<"defect", <<c, s>>>> /\ DefectOf(c, s, tree, world)
  <2>1. PICK s : f = <<"defect", <<c, s>>>> /\ DefectOf(c, s, tree, world)
    BY <1>3
  <2>2. CASE s = Shared
    <3>1. <<c, "ERROR", Shared>> \in Aud!Overall(c, remote, world).findings
      BY <2>1, <2>2, OverallSees
    <3> QED
      BY <2>1, <2>2, <3>1 DEF Error, Said
  <2>3. CASE s \in AuditRepos
    <3>1. \/ c \in {"upstream", "merges"}
          \/ c \in {"versions", "deps"} /\ tree[s].cloned
      BY <2>1, <2>3, InspectAssumption DEF DefectOf
    <3>2. f[2][2] = s /\ f[2][2] # Shared
      <4>1. f[2] = <<c, s>>
        BY <2>1
      <4>2. f[2][2] = s
        BY <4>1
      <4> QED
        BY <2>3, <4>2, InspectAssumption
    <3>3. Said \/ s \in V \/ BlindNow(c, remote, f)
      BY <3>1, <3>2, <2>3, <1>0, <1>1, <1>2, <1>7, <1>8
    <3> QED
      BY <2>1, <3>3 DEF Said, V
  <2> QED
    BY <2>1, <2>2, <2>3 DEF DefectOf
<1>4. CASE \E s, u : f = <<"unseen", <<c, s, u>>>> /\ UnseenOf(c, s, u, tree, world)
  <2>1. PICK s, u : f = <<"unseen", <<c, s, u>>>> /\ UnseenOf(c, s, u, tree, world)
    BY <1>4
  <2>2. Aud!Hides(<<s, u>>, f)
    BY <2>1 DEF Aud!Hides
  <2>3. CASE s = Shared
    <3>1. \/ <<Shared, u>> \in Aud!Overall(c, remote, world).gaps
          \/ c = "upstream" /\ u = "lookup" /\ remote
          \/ c = "upstream" /\ u = "manifest" /\ remote /\ ~world.manifest
          \/ <<Shared, "--remote">> \in Aud!Overall(c, remote, world).gaps
      BY <2>1, <2>3, OverallSees
    <3>2. Aud!Hides(<<Shared, "--remote">>, f)
      BY <2>1, <2>3 DEF Aud!Hides
    <3>3. f[1] # "defect"
      BY <2>1
    <3> QED
      BY <2>1, <2>2, <2>3, <3>1, <3>2, <3>3, <1>8 DEF Said, Aud!NoManifest
  <2>4. CASE s \in AuditRepos /\ u = "not cloned"
    <3>1. c \in {"versions", "deps", "usage"} /\ ~tree[s].cloned
      BY <2>1, <2>4, InspectAssumption DEF UnseenOf, UnseenHere
    <3>2. world.manifest => <<s, u>> \in Aud!Overall(c, remote, world).gaps
      BY <3>1, <2>4, OverallSees
    <3>3. f[1] # "defect"
      BY <2>1
    <3> QED
      BY <2>2, <3>1, <3>2, <3>3, <1>7 DEF Said
  <2>5. CASE s \in AuditRepos /\ u # "not cloned"
    <3>1. \/ c \in {"upstream", "merges", "tests"}
          \/ c \in {"versions", "deps"} /\ tree[s].cloned
      BY <2>1, <2>5, InspectAssumption DEF UnseenOf, UnseenHere
    <3>3. ~(f[1] = "unseen" /\ f[2][3] = "not cloned") /\ f[2][2] = s
      <4>1. f[2] = <<c, s, u>>
        BY <2>1
      <4>2. f[2][2] = s /\ f[2][3] = u
        BY <4>1
      <4> QED
        BY <4>2, <2>5
    <3>4. Said \/ s \in V \/ BlindNow(c, remote, f)
      BY <3>1, <3>3, <2>5, <1>0, <1>1, <1>2, <1>7, <1>8, InspectAssumption
    <3> QED
      BY <3>3, <3>4 DEF Said, V
  <2> QED
    BY <2>1, <2>3, <2>4, <2>5 DEF UnseenOf
<1>5. \/ \E s : f = <<"defect", <<c, s>>>> /\ DefectOf(c, s, tree, world)
      \/ \E s, u : f = <<"unseen", <<c, s, u>>>> /\ UnseenOf(c, s, u, tree, world)
  BY FactsAre
<1> QED
  BY <1>3, <1>4, <1>5

(* Exceptions and accepted gaps. *)
LEMMA ExceptionsApplied ==
  ASSUME NEW p \in Pages, NEW c \in AuditChecks
  PROVE  LET q == Aud!ApplyExceptions(p, c)
             E == c \in Aud!Exceptable
         IN  /\ q \in Pages /\ q.gaps = p.gaps /\ q.accepted = p.accepted
             /\ \A f \in q.findings : f[2] = "ERROR" =>
                  f \in p.findings /\ ~(E /\ f[1] \in rules.excepted)
             /\ \A f \in p.findings : f[2] = "ERROR" /\ ~(E /\ f[1] \in rules.excepted)
                  => f \in q.findings
<1>1. CASE c \notin Aud!Exceptable
  BY <1>1 DEF Aud!ApplyExceptions
<1>2. CASE c \in Aud!Exceptable
  <2> DEFINE new(f) == IF f[2] = "ERROR" /\ Aud!AllowedBy(f)
                       THEN <<f[1], "INFO", f[3]>> ELSE f
             fs == {new(f) : f \in p.findings}
  <2>1. Aud!ApplyExceptions(p, c) = [p EXCEPT !.findings = fs]
    BY <1>2 DEF Aud!ApplyExceptions
  <2>2. p.findings \subseteq Labels \X Aud!Severities \X Subjects
    BY DEF Pages
  <2>3. \A f \in p.findings : new(f) \in Labels \X Aud!Severities \X Subjects
    BY <2>2 DEF Aud!Severities
  <2>4. fs \subseteq Labels \X Aud!Severities \X Subjects
    BY <2>3
  <2>5. \A f \in fs : f[2] = "ERROR" => f \in p.findings /\ f[1] \notin rules.excepted
    BY <2>2 DEF Aud!AllowedBy
  <2>6. \A f \in p.findings : f[2] = "ERROR" /\ f[1] \notin rules.excepted => f \in fs
    BY DEF Aud!AllowedBy
  <2> HIDE DEF fs, new
  <2>7. [p EXCEPT !.findings = fs] \in Pages
    BY <2>4 DEF Pages
  <2>8. /\ [p EXCEPT !.findings = fs].findings = fs
        /\ [p EXCEPT !.findings = fs].gaps = p.gaps
        /\ [p EXCEPT !.findings = fs].accepted = p.accepted
    BY DEF Pages
  <2> QED
    BY <1>2, <2>1, <2>5, <2>6, <2>7, <2>8
<1> QED
  BY <1>1, <1>2

LEMMA AcceptedApplied ==
  ASSUME NEW p \in Pages, NEW c \in AuditChecks
  PROVE  LET q == Aud!ApplyAccepted(p, c)
         IN  /\ q \in Pages
             /\ p.findings \subseteq q.findings
             /\ \A f \in q.findings : f[2] = "ERROR" => f \in p.findings
             /\ \A g \in p.gaps :
                  \/ g \in q.gaps
                  \/ /\ <<c, g>> \in q.accepted
                     /\ \E e \in rules.accepted : e.check = c /\ e.what = g[2] /\ ~e.expired
<1> DEFINE covered == {g \in p.gaps : \E e \in rules.accepted : Aud!Covers(e, c, g)}
           old == {<<"audit", "WARN", c>> : e \in {x \in rules.accepted : x.check = c /\ x.expired}}
           acc == {<<c, g>> : g \in covered}
           q == [ findings |-> p.findings \union old, gaps |-> p.gaps \ covered,
                  accepted |-> p.accepted \union acc ]
<1>1. Aud!ApplyAccepted(p, c) = q
  BY DEF Aud!ApplyAccepted
<1>2. old \subseteq Labels \X Aud!Severities \X Subjects /\ \A f \in old : f[2] = "WARN"
  BY DEF Labels, Aud!Severities, Subjects
<1>3. acc \subseteq AuditChecks \X Gaps
  BY DEF Pages
<1>4. \A g \in p.gaps :
        g \in covered => \E e \in rules.accepted : e.check = c /\ e.what = g[2] /\ ~e.expired
  BY DEF Aud!Covers
<1>5. \A g \in covered : <<c, g>> \in acc
  OBVIOUS
<1> HIDE DEF covered, old, acc
<1>6. q \in Pages
  BY <1>2, <1>3 DEF Pages
<1> QED
  BY <1>1, <1>2, <1>4, <1>5, <1>6

LEMMA FactParts ==
  ASSUME NEW t, NEW w, NEW f \in Aud!Facts(t, w)
  PROVE  \/ f[1] = "defect" /\ DefectOf(f[2][1], f[2][2], t, w)
         \/ f[1] = "unseen" /\ UnseenOf(f[2][1], f[2][2], f[2][3], t, w)
<1>1. CASE \E c, s : f = <<"defect", <<c, s>>>> /\ DefectOf(c, s, t, w)
  <2>1. PICK c, s : f = <<"defect", <<c, s>>>> /\ DefectOf(c, s, t, w)
    BY <1>1
  <2>2. f[1] = "defect" /\ f[2] = <<c, s>>
    BY <2>1
  <2>3. f[2][1] = c /\ f[2][2] = s
    BY <2>2
  <2> QED
    BY <2>1, <2>2, <2>3
<1>2. CASE \E c, s, u : f = <<"unseen", <<c, s, u>>>> /\ UnseenOf(c, s, u, t, w)
  <2>1. PICK c, s, u : f = <<"unseen", <<c, s, u>>>> /\ UnseenOf(c, s, u, t, w)
    BY <1>2
  <2>2. f[1] = "unseen" /\ f[2] = <<c, s, u>>
    BY <2>1
  <2>3. f[2][1] = c /\ f[2][2] = s /\ f[2][3] = u
    BY <2>2
  <2> QED
    BY <2>1, <2>2, <2>3
<1> QED
  BY <1>1, <1>2, FactsAre

LEMMA DefectIsFact ==
  ASSUME NEW t, NEW w, NEW c, NEW s, DefectOf(c, s, t, w)
  PROVE  <<"defect", <<c, s>>>> \in Aud!Facts(t, w)
BY FactsAre

LEMMA ObscuredIsSo ==
  ASSUME NEW d, NEW facts, facts \subseteq auditEver, Obscured(d, facts)
  PROVE  ~Aud!Visible(d)
BY DEF Obscured, Aud!Visible

(* What stands for a fact goes on doing so. *)
LEMMA StandsStill ==
  ASSUME NEW g, NEW f, StandsFor(g, f), auditEver \subseteq auditEver',
         audit'.remote = audit.remote
  PROVE  StandsFor(g, f)'
BY DEF StandsFor, Looks, Aud!Visible, Aud!Hides

LEMMA BlindStill ==
  ASSUME NEW f, Aud!Blind(f), auditEver \subseteq auditEver'
  PROVE  Aud!Blind(f)'
BY DEF Aud!Blind, Aud!NoManifest

LEMMA AnsweredStill ==
  ASSUME NEW f, Answered(f), auditEver \subseteq auditEver',
         audit'.remote = audit.remote, rules' = rules,
         report.findings \subseteq report'.findings, report.gaps \subseteq report'.gaps,
         report.accepted \subseteq report'.accepted
  PROVE  Answered(f)'
<1>1. CASE f[1] = "defect" /\ Aud!Excepted(f[2])
  BY <1>1 DEF Answered, Aud!Excepted, Aud!Exceptable
<1>2. CASE f[1] = "defect" /\ Error(f) \in report.findings
  BY <1>2 DEF Answered, Error
<1>3. CASE \E g : StandsFor(g, f) /\ (g \in report.gaps \/ AcceptedFor(g, f))
  <2>1. PICK g : StandsFor(g, f) /\ (g \in report.gaps \/ AcceptedFor(g, f))
    BY <1>3
  <2>2. StandsFor(g, f)'
    BY <2>1, StandsStill
  <2>3. (g \in report.gaps \/ AcceptedFor(g, f))'
    BY <2>1 DEF AcceptedFor
  <2> QED
    BY <2>2, <2>3 DEF Answered
<1>4. CASE Aud!Blind(f)
  BY <1>4, BlindStill DEF Answered
<1> QED
  BY <1>1, <1>2, <1>3, <1>4 DEF Answered

-----------------------------------------------------------------------------
(* Each action keeps the invariant. *)
LEMMA RepoChanges ==
  ASSUME NEW x \in RepoType, NEW a \in DOMAIN Aud!Values, NEW v \in Aud!Values[a]
  PROVE  [x EXCEPT ![a] = v] \in RepoType
BY DEF RepoType, Aud!Values

LEMMA WorldChanges ==
  ASSUME NEW w \in WorldType, NEW a \in DOMAIN Aud!Plain, NEW v \in Aud!WorldValues[a]
  PROVE  [w EXCEPT ![a] = v] \in WorldType
BY DEF WorldType, Aud!WorldValues, Aud!Plain

LEMMA PlainTypes == Aud!Plain \in WorldType /\ Aud!Clean \in RepoType
BY DEF Aud!Plain, WorldType, Aud!Clean, RepoType

LEMMA AuditBounds == AuditChanges \in Nat /\ Shared \notin AuditRepos
BY InspectAssumption

LEMMA FactsNext == Aud!Facts(tree, world)' = Aud!Facts(tree', world')
BY DEF Aud!Facts, Aud!Defects, Aud!Unseen, Aud!UnseenIn, Aud!When, Aud!PerRepo

LEMMA IdleType == Aud!Idle \in AuditJobs /\ Aud!Idle.at = "idle" /\ Aud!Idle.ran = {}
<1>1. <<>> \in Seq(AuditChecks) /\ 0 \in 0..2
  OBVIOUS
<1> QED
  BY <1>1 DEF Aud!Idle, AuditJobs

LEMMA AuditInit == Aud!Init => AuditInv
<1> SUFFICES ASSUME Aud!Init PROVE AuditInv
  OBVIOUS
<1>1. tree \in [AuditRepos -> RepoType] /\ world \in WorldType
  <2>1. CASE /\ tree = [r \in AuditRepos |-> Aud!Clean]
             /\ \E f \in DOMAIN Aud!Plain : \E v \in Aud!WorldValues[f] :
                  world = [Aud!Plain EXCEPT ![f] = v]
    BY <2>1, PlainTypes, WorldChanges
  <2>2. CASE /\ \E r \in AuditRepos, a \in DOMAIN Aud!Values : \E v \in Aud!Values[a] :
                  tree = [x \in AuditRepos |->
                            IF x = r THEN [Aud!Clean EXCEPT ![a] = v] ELSE Aud!Clean]
             /\ world = Aud!Plain
    <3>1. PICK r \in AuditRepos, a \in DOMAIN Aud!Values : \E v \in Aud!Values[a] :
                  tree = [x \in AuditRepos |->
                            IF x = r THEN [Aud!Clean EXCEPT ![a] = v] ELSE Aud!Clean]
      BY <2>2
    <3>2. PICK v \in Aud!Values[a] :
                  tree = [x \in AuditRepos |->
                            IF x = r THEN [Aud!Clean EXCEPT ![a] = v] ELSE Aud!Clean]
      BY <3>1
    <3>3. [Aud!Clean EXCEPT ![a] = v] \in RepoType
      BY PlainTypes, RepoChanges
    <3> QED
      BY <2>2, <3>2, <3>3, PlainTypes
  <2> QED
    BY <2>1, <2>2 DEF Aud!Init
<1>2. audit \in AuditJobs /\ audit.at = "idle"
  BY IdleType DEF Aud!Init
<1>3. page \in Pages /\ report \in Pages /\ auditChanges \in 0..AuditChanges
  BY EmptyType, AuditBounds DEF Aud!Init
<1> QED
  BY <1>1, <1>2, <1>3
     DEF AuditInv, AuditTypes, Framed, PageOK, ReportOK, CodeOK, Underway

(* Every history and every report stay as they are, or grow. *)
LEMMA AuditChange == AuditInv /\ Aud!Change => AuditInv'
<1> SUFFICES ASSUME AuditInv, Aud!Change PROVE AuditInv'
  OBVIOUS
<1>0. audit.at # "idle" /\ auditChanges < AuditChanges /\ auditChanges' = auditChanges + 1
      /\ Aud!Remember /\ UNCHANGED <<rules, audit, page, report>>
  BY DEF Aud!Change
<1>1. tree' \in [AuditRepos -> RepoType] /\ world' \in WorldType
  <2>1. CASE /\ \E r \in AuditRepos, a \in DOMAIN Aud!Values : \E v \in Aud!Values[a] :
                  tree' = [tree EXCEPT ![r][a] = v]
             /\ UNCHANGED world
    <3>1. PICK r \in AuditRepos, a \in DOMAIN Aud!Values : \E v \in Aud!Values[a] :
            tree' = [tree EXCEPT ![r][a] = v]
      BY <2>1
    <3>2. PICK v \in Aud!Values[a] : tree' = [tree EXCEPT ![r][a] = v]
      BY <3>1
    <3>3. tree \in [AuditRepos -> RepoType] /\ world \in WorldType
      BY DEF AuditInv, AuditTypes
    <3>4. [tree[r] EXCEPT ![a] = v] \in RepoType
      BY <3>3, RepoChanges
    <3>5. tree' = [tree EXCEPT ![r] = [tree[r] EXCEPT ![a] = v]]
      BY <3>2, <3>3
    <3> QED
      BY <2>1, <3>3, <3>4, <3>5
  <2>2. CASE /\ \E f \in DOMAIN Aud!Plain : \E v \in Aud!WorldValues[f] :
                  world' = [world EXCEPT ![f] = v]
             /\ UNCHANGED tree
    <3>0. PICK f \in DOMAIN Aud!Plain :
            \E v \in Aud!WorldValues[f] : world' = [world EXCEPT ![f] = v]
      BY <2>2
    <3>1. PICK v \in Aud!WorldValues[f] : world' = [world EXCEPT ![f] = v]
      BY <3>0
    <3>2. tree \in [AuditRepos -> RepoType] /\ world \in WorldType
      BY DEF AuditInv, AuditTypes
    <3>3. [world EXCEPT ![f] = v] \in WorldType
      BY <3>2, WorldChanges
    <3> QED
      BY <2>2, <3>1, <3>2, <3>3
  <2> QED
    BY <2>1, <2>2 DEF Aud!Change
<1>2. AuditTypes'
  <2>1. auditChanges' \in 0..AuditChanges
    BY <1>0, AuditBounds DEF AuditInv, AuditTypes
  <2> QED
    BY <1>0, <1>1, <2>1 DEF AuditInv, AuditTypes
<1>3. /\ auditSteady' \subseteq Aud!Facts(tree', world') /\ auditSteady' \subseteq auditSteady
      /\ Aud!Facts(tree', world') \subseteq auditEver' /\ auditEver \subseteq auditEver'
  BY <1>0 DEF Aud!Remember
<1>4. Framed'
  BY <1>3, FactsNext DEF Framed
<1>5. ASSUME NEW f, Known(f) PROVE Known(f)'
  <2>1. CASE f[1] = "defect" /\ Error(f) \in page.findings
    BY <1>0, <2>1 DEF Known, Error
  <2>2. CASE \E g \in page.gaps : StandsFor(g, f)
    BY <1>0, <1>3, <2>2, StandsStill DEF Known
  <2>3. CASE Aud!Blind(f)
    BY <1>3, <2>3, BlindStill DEF Known
  <2> QED
    BY <1>5, <2>1, <2>2, <2>3 DEF Known
<1>6. ASSUME NEW f, Ahead(f) PROVE Ahead(f)'
  BY <1>0, <1>6 DEF Ahead
<1>7. PageOK'
  <2>1. Aud!Check' = Aud!Check /\ Underway' = Underway
    BY <1>0 DEF Aud!Check, Underway
  <2> QED
    BY <1>0, <1>3, <1>5, <1>6, <2>1 DEF AuditInv, PageOK
<1>8. ReportOK'
  <2>1. \A f : Answered(f) => Answered(f)'
    BY <1>0, <1>3, AnsweredStill
  <2>2. \A d : Aud!Excepted(d)' = Aud!Excepted(d)
    BY <1>0 DEF Aud!Excepted, Aud!Exceptable
  <2> QED
    BY <1>0, <1>3, <2>1, <2>2 DEF AuditInv, ReportOK
<1>9. CodeOK'
  BY <1>0 DEF AuditInv, CodeOK, Aud!ExitCode
<1> QED
  BY <1>2, <1>4, <1>7, <1>8, <1>9 DEF AuditInv

LEMMA Lists ==
  /\ Aud!Local \in Seq(AuditChecks) /\ Aud!Remote \in Seq(AuditChecks)
  /\ \A c \in AuditChecks : <<c>> \in Seq(AuditChecks)
<1> DEFINE five == <<"versions", "deps", "usage", "agents", "tests">>
           two == <<"upstream", "merges">>
<1>1. five \in Seq(AuditChecks) /\ two \in Seq(AuditChecks)
  BY DEF AuditChecks
<1>2. \A c \in AuditChecks : <<c>> \in Seq(AuditChecks)
  OBVIOUS
<1>3. Aud!Local = five /\ Aud!Remote = five \o two
  BY DEF Aud!Local, Aud!Remote
<1> HIDE DEF five, two
<1>4. five \o two \in Seq(AuditChecks)
  BY <1>1, ConcatProperties
<1> QED
  BY <1>1, <1>2, <1>3, <1>4

LEMMA AuditStart ==
  ASSUME AuditInv, NEW todo \in Seq(AuditChecks), NEW remote \in BOOLEAN, Aud!Start(todo, remote)
  PROVE  AuditInv'
<1> DEFINE j == [Aud!Idle EXCEPT !.at = "next", !.todo = todo, !.remote = remote]
<1>0. /\ audit' = j /\ report' = Aud!Empty /\ page' = Aud!Empty
      /\ auditSteady' = Aud!Facts(tree, world) /\ auditEver' = Aud!Facts(tree, world)
      /\ UNCHANGED <<tree, world, rules, auditChanges>>
  BY DEF Aud!Start
<1>1. /\ j \in AuditJobs /\ j.at = "next" /\ j.todo = todo /\ j.remote = remote /\ j.ran = {}
  BY IdleType DEF AuditJobs
<1> HIDE DEF j
<1>2. AuditTypes'
  BY <1>0, <1>1, EmptyType DEF AuditInv, AuditTypes
<1>3. Framed'
  BY <1>0, FactsNext DEF Framed
<1>4. PageOK' /\ CodeOK'
  BY <1>0, <1>1 DEF PageOK, CodeOK, Underway
<1>5. ReportOK'
  BY <1>0, <1>1 DEF ReportOK, Aud!Empty
<1> QED
  BY <1>2, <1>3, <1>4, <1>5 DEF AuditInv

(* While the command reads, the world stays as it is, and so does what it  *)
(* has found before.                                                       *)
LEMMA FactsOfNow ==
  ASSUME AuditInv, audit.at # "idle", NEW f \in auditSteady
  PROVE  f \in Aud!Facts(tree, world)
BY DEF AuditInv, Framed

LEMMA EverOfNow ==
  ASSUME AuditInv, audit.at # "idle"
  PROVE  Aud!Facts(tree, world) \subseteq auditEver
BY DEF AuditInv, Framed

LEMMA ReportStays ==
  ASSUME AuditInv, Aud!Watched, UNCHANGED report, audit.at # "idle",
         audit'.ran = audit.ran, audit'.remote = audit.remote, audit'.todo = audit.todo
  PROVE  ReportOK' /\ (audit'.at # "idle" => Framed')
<1>1. \A f : Answered(f) => Answered(f)'
  BY AnsweredStill DEF Aud!Watched
<1>2. \A d : Aud!Excepted(d)' = Aud!Excepted(d)
  BY DEF Aud!Excepted, Aud!Exceptable, Aud!Watched
<1>3. ReportOK'
  BY <1>1, <1>2 DEF AuditInv, ReportOK, Aud!Watched
<1>4. Framed'
  BY FactsNext DEF AuditInv, Framed, Aud!Watched
<1> QED
  BY <1>3, <1>4

LEMMA CheckType ==
  ASSUME audit \in AuditJobs, audit.todo # <<>>
  PROVE  Aud!Check \in AuditChecks
BY HeadTailProperties DEF Aud!Check, AuditJobs

LEMMA VisitsType ==
  ASSUME NEW c, NEW remote, NEW w
  PROVE  Aud!Visits(c, remote, w) \subseteq AuditRepos
BY DEF Aud!Visits

LEMMA AuditBegin == AuditInv /\ Aud!Begin => AuditInv'
<1> SUFFICES ASSUME AuditInv, Aud!Begin PROVE AuditInv'
  OBVIOUS
<1> DEFINE c == Aud!Check
           left == Aud!Visits(c, audit.remote, world)
           j == [audit EXCEPT !.at = "visit", !.read = {}, !.left = left]
<1>0. /\ audit.at = "next" /\ audit.todo # <<>> /\ audit \in AuditJobs
      /\ page' = Aud!Overall(c, audit.remote, world) /\ audit' = j
      /\ UNCHANGED report /\ Aud!Watched
  BY DEF AuditInv, AuditTypes, Aud!Begin
<1>1. left \subseteq AuditRepos
  BY VisitsType
<1>2. audit.remote \in BOOLEAN
  BY <1>0 DEF AuditJobs
<1> HIDE DEF left, c
<1>3. /\ j \in AuditJobs /\ j.at = "visit" /\ j.read = {} /\ j.left = left
      /\ j.ran = audit.ran /\ j.remote = audit.remote /\ j.todo = audit.todo
  BY <1>0, <1>1 DEF AuditJobs
<1> HIDE DEF j
<1>4. AuditTypes'
  BY <1>0, <1>2, <1>3, OverallType DEF AuditInv, AuditTypes, Aud!Watched
<1>5. ReportOK' /\ Framed'
  BY <1>0, <1>3, ReportStays
<1>6. CodeOK'
  BY <1>0, <1>3 DEF CodeOK
<1>7. c' = c
  BY <1>0, <1>3 DEF c, Aud!Check
<1>8. ASSUME NEW f \in auditSteady', f[2][1] = c
      PROVE  (Known(f) \/ Ahead(f))'
  <2>1. f \in Aud!Facts(tree, world)
    BY <1>0, FactsOfNow DEF Aud!Watched
  <2>2. CASE f[1] = "defect" /\ Error(f) \in Aud!Overall(c, audit.remote, world).findings
    BY <1>0, <2>2 DEF Known, Error
  <2>3. CASE \E g \in Aud!Overall(c, audit.remote, world).gaps :
              /\ Aud!Hides(g, f)
              /\ f[1] = "defect" /\ Looks(c, audit.remote)
                   => Obscured(f[2], Aud!Facts(tree, world))
    <3>1. PICK g \in Aud!Overall(c, audit.remote, world).gaps :
              /\ Aud!Hides(g, f)
              /\ f[1] = "defect" /\ Looks(c, audit.remote)
                   => Obscured(f[2], Aud!Facts(tree, world))
      BY <2>3
    <3>2. StandsFor(g, f)
      BY <1>0, <1>8, <3>1, EverOfNow, ObscuredIsSo DEF StandsFor
    <3>3. StandsFor(g, f)'
      BY <1>0, <1>3, <3>2, StandsStill DEF Aud!Watched
    <3> QED
      BY <1>0, <3>3 DEF Known
  <2>4. CASE f[2][2] \in left /\ ~(f[1] = "unseen" /\ f[2][3] = "not cloned")
    BY <1>0, <1>3, <2>4 DEF Ahead
  <2>5. CASE audit.remote /\ f = <<"unseen", <<"upstream", Shared, "lookup">>>>
    BY <1>0, <1>3, <2>5 DEF Ahead
  <2>6. CASE BlindNow(c, audit.remote, f)
    <3>1. Aud!Blind(f)
      BY <1>0, <1>8, <2>6, EverOfNow DEF BlindNow, Aud!Blind
    <3> QED
      BY <1>0, <3>1, BlindStill DEF Known, Aud!Watched
  <2> QED
    BY <1>2, <1>8, <2>1, <2>2, <2>3, <2>4, <2>5, <2>6, BeginSees DEF left
<1>9. ASSUME NEW f \in page'.findings, f[2] = "ERROR"
      PROVE  f[1] = c /\ <<"defect", <<f[1], f[3]>>>> \in auditEver'
  <2>1. f[1] = c /\ DefectOf(f[1], f[3], tree, world)
    BY <1>0, <1>2, <1>9, OverallErrors
  <2>2. <<"defect", <<f[1], f[3]>>>> \in Aud!Facts(tree, world)
    BY <2>1, DefectIsFact
  <2> QED
    BY <1>0, <2>1, <2>2, EverOfNow DEF Aud!Watched
<1>10. ASSUME c = "upstream", <<Shared, "pins">> \in page'.gaps
       PROVE  <<"unseen", <<"upstream", Shared, "lookup">>>> \notin auditSteady'
  <2> DEFINE f == <<"unseen", <<"upstream", Shared, "lookup">>>>
  <2>1. ~world.pins
    <3>1. CASE audit.remote
      <4>1. page'.gaps = Aud!When(~world.pins, <<Shared, "pins">>)
        <5>1. page' = Aud!Report({}, Aud!When(~world.pins, <<Shared, "pins">>))
          BY <1>0, <1>10, <3>1, OverallIs
        <5> QED
          BY <5>1, ReportType
      <4> QED
        BY <1>10, <4>1 DEF Aud!When
    <3>2. CASE ~audit.remote
      <4>1. page'.gaps = {<<Shared, "--remote">>}
        BY <1>0, <1>10, <3>2, OverallIs, ReportType
      <4> QED
        BY <1>10, <4>1
    <3> QED
      BY <3>1, <3>2
  <2>2. f[1] = "unseen" /\ f[2] = <<"upstream", Shared, "lookup">>
    OBVIOUS
  <2>3. f[2][1] = "upstream" /\ f[2][2] = Shared /\ f[2][3] = "lookup"
    BY <2>2
  <2> HIDE DEF f
  <2>4. f \notin Aud!Facts(tree, world)
    BY <2>1, <2>2, <2>3, FactParts, AuditBounds DEF UnseenOf
  <2> QED
    BY <1>0, <2>4, FactsOfNow DEF f, Aud!Watched
<1>11. PageOK'
  BY <1>0, <1>3, <1>7, <1>8, <1>9, <1>10 DEF PageOK, c
<1> QED
  BY <1>4, <1>5, <1>6, <1>11 DEF AuditInv

LEMMA AuditVisit == AuditInv /\ Aud!Visit => AuditInv'
<1> SUFFICES ASSUME AuditInv, Aud!Visit PROVE AuditInv'
  OBVIOUS
<1> DEFINE c == Aud!Check
<1>a. PICK r \in audit.left :
        /\ page' = Aud!Add(page, Aud!Sensor(c, r, tree[r], world))
        /\ audit' = [ audit EXCEPT !.left = @ \ {r},
                        !.read = IF c = "upstream" THEN @ \union Aud!Packages(r, tree[r])
                                 ELSE @ ]
  BY DEF Aud!Visit
<1> DEFINE sees == Aud!Sensor(c, r, tree[r], world)
           has == IF c = "upstream" THEN audit.read \union Aud!Packages(r, tree[r])
                  ELSE audit.read
           j == [audit EXCEPT !.left = @ \ {r}, !.read = has]
<1>0. /\ audit.at = "visit" /\ audit.left # {} /\ audit \in AuditJobs /\ page \in Pages
      /\ page' = Aud!Add(page, sees)
      /\ UNCHANGED report /\ Aud!Watched
  BY <1>a DEF AuditInv, AuditTypes, Aud!Visit
<1>1. audit' = j
  BY <1>0, <1>a DEF AuditJobs
<1>2. r \in audit.left /\ r \in AuditRepos
  BY <1>0 DEF AuditJobs
<1>3. audit.todo # <<>> /\ c \in AuditChecks
  BY <1>0, CheckType DEF AuditInv, PageOK, Underway
<1>4. Aud!Packages(r, tree[r]) \subseteq AuditRepos \X BOOLEAN
  <2>1. Aud!Vulnerable(tree[r]) \in BOOLEAN
    BY <1>2 DEF AuditInv, AuditTypes, RepoType, Aud!Vulnerable, Aud!Resolved
  <2>2. PICK v \in BOOLEAN : v = Aud!Vulnerable(tree[r])
    BY <2>1
  <2>3. \A p \in Aud!Packages(r, tree[r]) : p = <<r, v>>
    BY <2>2 DEF Aud!Packages, Aud!When
  <2> QED
    BY <1>2, <2>3
<1>5. has \subseteq AuditRepos \X BOOLEAN /\ audit.read \subseteq has
  BY <1>0, <1>4 DEF AuditJobs
<1>6. sees \in Pages
  BY <1>2, SensorType
<1>7. /\ page' \in Pages
      /\ page'.findings = page.findings \union sees.findings
      /\ page'.gaps = page.gaps \union sees.gaps
  BY <1>0, <1>6, AddType
<1> HIDE DEF c, sees, has
<1>8. /\ j \in AuditJobs /\ j.at = "visit" /\ j.read = has /\ j.left = audit.left \ {r}
      /\ j.ran = audit.ran /\ j.remote = audit.remote /\ j.todo = audit.todo
  BY <1>0, <1>5 DEF AuditJobs
<1> HIDE DEF j
<1>9. AuditTypes'
  BY <1>0, <1>1, <1>7, <1>8 DEF AuditInv, AuditTypes, Aud!Watched
<1>10. ReportOK' /\ Framed'
  BY <1>0, <1>1, <1>8, ReportStays
<1>11. CodeOK'
  BY <1>1, <1>8 DEF CodeOK
<1>12. c' = c
  BY <1>1, <1>8 DEF c, Aud!Check
<1>13. ASSUME NEW f, Known(f) PROVE Known(f)'
  <2>1. CASE f[1] = "defect" /\ Error(f) \in page.findings
    BY <1>7, <2>1 DEF Known, Error
  <2>2. CASE \E g \in page.gaps : StandsFor(g, f)
    BY <1>0, <1>1, <1>7, <1>8, <2>2, StandsStill DEF Known, Aud!Watched
  <2>3. CASE Aud!Blind(f)
    BY <1>0, <2>3, BlindStill DEF Known, Aud!Watched
  <2> QED
    BY <1>13, <2>1, <2>2, <2>3 DEF Known
<1>14. ASSUME NEW f \in Aud!Facts(tree, world), f[2][1] = c, f[2][2] = r,
              ~(f[1] = "unseen" /\ f[2][3] = "not cloned")
       PROVE  (Known(f) \/ Ahead(f))'
  <2>1. CASE f[1] = "defect" /\ DefectOf(c, r, tree, world) /\ c \in {"versions", "deps"}
    <3>1. <<c, "ERROR", r>> \in sees.findings
      BY <1>2, <2>1, SensorSees DEF sees
    <3> QED
      BY <1>7, <1>14, <2>1, <3>1 DEF Known, Error
  <2>2. CASE f[1] = "defect" /\ DefectOf(c, r, tree, world) /\ c = "merges"
    <3>1. CASE <<c, "ERROR", r>> \in sees.findings
      BY <1>7, <1>14, <2>2, <3>1 DEF Known, Error
    <3>2. CASE <<r, "merges">> \in sees.gaps /\ UnseenHere(c, tree[r], "merges", world)
      <4>1. UnseenOf(c, r, "merges", tree, world)
        BY <1>2, <3>2 DEF UnseenOf
      <4>2. Obscured(f[2], Aud!Facts(tree, world))
        BY <1>14, <4>1, UnseenIsFact
      <4>3. Aud!Hides(<<r, "merges">>, f)
        BY <1>14, <2>2 DEF Aud!Hides
      <4>4. StandsFor(<<r, "merges">>, f)
        BY <1>0, <4>2, <4>3, EverOfNow, ObscuredIsSo DEF StandsFor
      <4>5. StandsFor(<<r, "merges">>, f)'
        BY <1>0, <1>1, <1>8, <4>4, StandsStill DEF Aud!Watched
      <4> QED
        BY <1>7, <3>2, <4>5 DEF Known
    <3> QED
      BY <1>2, <2>2, <3>1, <3>2, SensorSees DEF sees
  <2>3. CASE f[1] = "defect" /\ DefectOf(c, r, tree, world) /\ c = "upstream"
    <3>1. tree[r].cloned /\ Aud!Vulnerable(tree[r]) /\ Aud!Resolved(tree[r])
      BY <1>2, <2>3, AuditBounds DEF DefectOf, Aud!Vulnerable, Aud!Resolved
    <3>2. Aud!Vulnerable(tree[r]) = TRUE
      BY <1>2, <3>1 DEF Aud!Vulnerable, AuditInv, AuditTypes, RepoType
    <3>3. <<r, TRUE>> \in has
      BY <2>3, <3>1, <3>2 DEF has, Aud!Packages, Aud!When
    <3> QED
      BY <1>1, <1>8, <1>14, <2>3, <3>3 DEF Ahead
  <2>4. CASE f[1] = "unseen" /\ UnseenOf(c, r, f[2][3], tree, world) /\ c # "upstream"
    <3>1. UnseenHere(c, tree[r], f[2][3], world)
      BY <1>2, <2>4, AuditBounds DEF UnseenOf
    <3>2. <<r, f[2][3]>> \in sees.gaps
      BY <1>2, <1>14, <2>4, <3>1, SensorSees DEF sees
    <3>3. StandsFor(<<r, f[2][3]>>, f)
      BY <1>14, <2>4 DEF StandsFor, Aud!Hides
    <3>4. StandsFor(<<r, f[2][3]>>, f)'
      BY <1>0, <1>1, <1>8, <3>3, StandsStill DEF Aud!Watched
    <3> QED
      BY <1>7, <3>2, <3>4 DEF Known
  <2>5. CASE f[1] = "unseen" /\ UnseenOf(c, r, f[2][3], tree, world) /\ c = "upstream"
    <3>1. tree[r].cloned /\ Aud!Resolved(tree[r])
      BY <1>2, <2>5, AuditBounds DEF UnseenOf, UnseenHere, Aud!Resolved
    <3>2. <<r, Aud!Vulnerable(tree[r])>> \in has /\ Aud!Vulnerable(tree[r]) \in BOOLEAN
      BY <1>5, <2>5, <3>1 DEF has, Aud!Packages, Aud!When
    <3> QED
      BY <1>1, <1>8, <1>14, <2>5, <3>2 DEF Ahead
  <2> QED
    BY <1>2, <1>14, <2>1, <2>2, <2>3, <2>4, <2>5, FactParts, AuditBounds DEF DefectOf
<1>15. ASSUME NEW f \in auditSteady', f[2][1] = c
       PROVE  (Known(f) \/ Ahead(f))'
  <2>1. f \in auditSteady /\ f \in Aud!Facts(tree, world)
    BY <1>0, FactsOfNow DEF Aud!Watched
  <2>2. Known(f) \/ Ahead(f)
    BY <1>0, <1>15, <2>1 DEF AuditInv, PageOK, Underway, c
  <2>3. CASE Ahead(f) /\ f[2][2] # r
    BY <1>1, <1>5, <1>8, <1>0, <2>3 DEF Ahead
  <2>4. CASE Ahead(f) /\ f[2][2] = r /\ ~(f[1] = "unseen" /\ f[2][3] = "not cloned")
    BY <1>14, <1>15, <2>1, <2>4
  <2>5. CASE Ahead(f) /\ f[2][2] = r /\ f[1] = "unseen" /\ f[2][3] = "not cloned"
    BY <1>1, <1>5, <1>8, <1>0, <2>5 DEF Ahead
  <2> QED
    BY <1>13, <2>2, <2>3, <2>4, <2>5
<1>16. ASSUME NEW f \in page'.findings, f[2] = "ERROR"
       PROVE  f[1] = c /\ <<"defect", <<f[1], f[3]>>>> \in auditEver'
  <2>1. CASE f \in page.findings
    BY <1>0, <1>16, <2>1 DEF AuditInv, PageOK, Underway, Aud!Watched, c
  <2>2. CASE f \in sees.findings
    <3>0. f \in Aud!Sensor(c, r, tree[r], world).findings
      BY <2>2 DEF sees
    <3>a. f[1] = c /\ f[3] = r /\ DefectOf(c, r, tree, world)
      BY <1>2, <1>16, <3>0, SensorErrors
    <3>1. f[1] = c /\ DefectOf(f[1], f[3], tree, world)
      BY <3>a
    <3>2. <<"defect", <<f[1], f[3]>>>> \in Aud!Facts(tree, world)
      BY <3>1, DefectIsFact
    <3> QED
      BY <1>0, <3>1, <3>2, EverOfNow DEF Aud!Watched
  <2> QED
    BY <1>7, <1>16, <2>1, <2>2
<1>17. ASSUME NEW p \in has, p[2]
       PROVE  <<"defect", <<"upstream", p[1]>>>> \in auditEver'
  <2>1. CASE p \in audit.read
    BY <1>0, <1>17, <2>1 DEF AuditInv, PageOK, Underway, Aud!Watched
  <2>2. CASE p \in Aud!Packages(r, tree[r])
    <3>1. p = <<r, Aud!Vulnerable(tree[r])>> /\ tree[r].cloned
      BY <2>2 DEF Aud!Packages, Aud!When
    <3>2. p[1] = r /\ Aud!Vulnerable(tree[r])
      BY <1>17, <3>1
    <3>3. DefectOf("upstream", r, tree, world)
      BY <1>2, <3>1, <3>2 DEF DefectOf, Aud!Vulnerable, Aud!Resolved
    <3>4. <<"defect", <<"upstream", r>>>> \in Aud!Facts(tree, world)
      BY <3>3, DefectIsFact
    <3> QED
      BY <1>0, <3>2, <3>4, EverOfNow DEF Aud!Watched
  <2> QED
    BY <1>17, <2>1, <2>2 DEF has
<1>18. c = "upstream" => page'.gaps = page.gaps
  <2>1. c = "upstream" => sees = Aud!Empty
    BY SensorIs DEF sees
  <2>2. Aud!Empty.gaps = {}
    BY DEF Aud!Empty
  <2> QED
    BY <1>7, <2>1, <2>2
<1>19. PageOK'
  BY <1>0, <1>1, <1>3, <1>8, <1>12, <1>15, <1>16, <1>17, <1>18
     DEF AuditInv, PageOK, Underway, Aud!Watched, c
<1> QED
  BY <1>9, <1>10, <1>11, <1>19 DEF AuditInv

LEMMA AuditAsk == AuditInv /\ Aud!Ask => AuditInv'
<1> SUFFICES ASSUME AuditInv, Aud!Ask PROVE AuditInv'
  OBVIOUS
<1> DEFINE said == Aud!Advisories(audit.read, world)
           j == [audit EXCEPT !.at = "asked"]
<1>0. /\ audit.at = "visit" /\ audit.left = {} /\ audit \in AuditJobs /\ page \in Pages
      /\ Aud!Check = "upstream" /\ audit' = j
      /\ page' = Aud!Add(page, said) /\ UNCHANGED report /\ Aud!Watched
  BY DEF AuditInv, AuditTypes, Aud!Ask
<1>1. audit.todo # <<>>
  BY <1>0 DEF AuditInv, PageOK, Underway
<1>2. /\ said.findings \subseteq {<<"upstream", "ERROR", p[1]>> : p \in {q \in audit.read : q[2]}}
      /\ world.network =>
           said.findings = {<<"upstream", "ERROR", p[1]>> : p \in {q \in audit.read : q[2]}}
      /\ said.gaps \subseteq {<<Shared, "osv">>}
      /\ ~world.network /\ audit.read # {} => <<Shared, "osv">> \in said.gaps
  BY DEF Aud!Advisories, Aud!Report, Aud!When
<1>3. said \in Pages
  <2>1. {<<"upstream", "ERROR", p[1]>> : p \in {q \in audit.read : q[2]}}
          \subseteq Labels \X Aud!Severities \X Subjects
    BY <1>0 DEF AuditJobs, Labels, AuditChecks, Aud!Severities, Subjects
  <2>2. {<<Shared, "osv">>} \subseteq Gaps
    <3>1. "osv" \in Reasons
      BY DEF Reasons
    <3> QED
      BY <3>1 DEF Gaps
  <2>3. Aud!When(audit.read # {}, <<Shared, "osv">>) \subseteq Gaps
    BY <2>2 DEF Aud!When
  <2> QED
    BY <2>1, <2>3, ReportType DEF Aud!Advisories
<1> HIDE DEF said
<1>4. /\ page' \in Pages
      /\ page'.findings = page.findings \union said.findings
      /\ page'.gaps = page.gaps \union said.gaps
  BY <1>0, <1>3, AddType
<1>5. /\ j \in AuditJobs /\ j.at = "asked" /\ j.read = audit.read /\ j.left = {}
      /\ j.ran = audit.ran /\ j.remote = audit.remote /\ j.todo = audit.todo
  BY <1>0 DEF AuditJobs
<1> HIDE DEF j
<1>6. AuditTypes'
  BY <1>0, <1>4, <1>5 DEF AuditInv, AuditTypes, Aud!Watched
<1>7. ReportOK' /\ Framed'
  BY <1>0, <1>5, ReportStays
<1>8. CodeOK'
  BY <1>0, <1>5 DEF CodeOK
<1>9. Aud!Check' = Aud!Check
  BY <1>0, <1>5 DEF Aud!Check
<1>10. ASSUME NEW f, Known(f) PROVE Known(f)'
  <2>1. CASE f[1] = "defect" /\ Error(f) \in page.findings
    BY <1>4, <2>1 DEF Known, Error
  <2>2. CASE \E g \in page.gaps : StandsFor(g, f)
    BY <1>0, <1>4, <1>5, <2>2, StandsStill DEF Known, Aud!Watched
  <2>3. CASE Aud!Blind(f)
    BY <1>0, <2>3, BlindStill DEF Known, Aud!Watched
  <2> QED
    BY <1>10, <2>1, <2>2, <2>3 DEF Known
<1>11. ASSUME NEW f, StandsFor(<<Shared, "osv">>, f), audit.read # {}, ~world.network
       PROVE  Known(f)'
  <2>1. StandsFor(<<Shared, "osv">>, f)'
    BY <1>0, <1>5, <1>11, StandsStill DEF Aud!Watched
  <2> QED
    BY <1>2, <1>4, <1>11, <2>1 DEF Known
<1>12. ASSUME NEW f \in auditSteady', f[2][1] = "upstream"
       PROVE  (Known(f) \/ Ahead(f))'
  <2>1. f \in auditSteady /\ f \in Aud!Facts(tree, world)
    BY <1>0, FactsOfNow DEF Aud!Watched
  <2>2. Known(f) \/ Ahead(f)
    BY <1>0, <1>12, <2>1 DEF AuditInv, PageOK, Underway
  <2>3. Aud!Hides(<<Shared, "osv">>, f)
    BY <1>12 DEF Aud!Hides
  <2>4. CASE f[1] = "defect" /\ <<f[2][2], TRUE>> \in audit.read
    <3>1. CASE world.network
      <4> DEFINE p == <<f[2][2], TRUE>>
      <4>0. p \in audit.read /\ p[2] /\ p[1] = f[2][2]
        BY <2>4
      <4>1. Error(f) \in said.findings
        <5>1. <<"upstream", "ERROR", p[1]>> \in said.findings
          BY <1>2, <3>1, <4>0
        <5> QED
          BY <1>12, <4>0, <5>1 DEF Error
      <4> QED
        BY <1>4, <2>4, <4>1 DEF Known, Error
    <3>2. CASE ~world.network
      <4>1. DefectOf("upstream", f[2][2], tree, world)
        BY <1>12, <2>1, <2>4, FactParts
      <4>2. UnseenOf("upstream", f[2][2], "osv", tree, world)
        BY <3>2, <4>1 DEF DefectOf, UnseenOf, UnseenHere
      <4>3. Obscured(f[2], Aud!Facts(tree, world))
        BY <1>12, <4>2, UnseenIsFact
      <4>4. StandsFor(<<Shared, "osv">>, f)
        BY <1>0, <2>3, <4>3, EverOfNow, ObscuredIsSo DEF StandsFor
      <4> QED
        BY <1>11, <2>4, <3>2, <4>4
    <3> QED
      BY <3>1, <3>2
  <2>5. CASE f[1] = "unseen" /\ \E b \in BOOLEAN : <<f[2][2], b>> \in audit.read
    <3>1. UnseenOf("upstream", f[2][2], f[2][3], tree, world)
      BY <1>12, <2>1, <2>5, FactParts
    <3>2. f[2][2] \in AuditRepos
      BY <1>0, <2>5 DEF AuditJobs
    <3>3. ~world.network
      BY <3>1, <3>2, AuditBounds DEF UnseenOf, UnseenHere
    <3>4. StandsFor(<<Shared, "osv">>, f)
      BY <2>3, <2>5 DEF StandsFor
    <3> QED
      BY <1>11, <2>5, <3>3, <3>4
  <2>6. CASE audit.remote /\ f = <<"unseen", <<"upstream", Shared, "lookup">>>>
    BY <1>0, <1>5, <2>6 DEF Ahead
  <2> QED
    BY <1>0, <1>10, <2>2, <2>4, <2>5, <2>6 DEF Ahead
<1>13. ASSUME NEW f \in page'.findings, f[2] = "ERROR"
       PROVE  f[1] = "upstream" /\ <<"defect", <<f[1], f[3]>>>> \in auditEver'
  <2>1. CASE f \in page.findings
    BY <1>0, <1>13, <2>1 DEF AuditInv, PageOK, Underway, Aud!Watched
  <2>2. CASE f \in said.findings
    <3>1. PICK p \in audit.read : p[2] /\ f = <<"upstream", "ERROR", p[1]>>
      BY <1>2, <2>2
    <3>2. f[1] = "upstream" /\ f[3] = p[1]
      BY <3>1
    <3> QED
      BY <1>0, <3>1, <3>2 DEF AuditInv, PageOK, Underway, Aud!Watched
  <2> QED
    BY <1>4, <1>13, <2>1, <2>2
<1>14. <<Shared, "pins">> \in page'.gaps => <<Shared, "pins">> \in page.gaps
  BY <1>2, <1>4
<1>15. PageOK'
  BY <1>0, <1>1, <1>5, <1>9, <1>12, <1>13, <1>14
     DEF AuditInv, PageOK, Underway, Aud!Watched
<1> QED
  BY <1>6, <1>7, <1>8, <1>15 DEF AuditInv

(* What the last lookups add. *)
LEMMA LookupsAre ==
  ASSUME NEW c, NEW p \in Pages, NEW w
  PROVE  LET q == Aud!Add(p, Aud!Lookups(c, p, w))
         IN  /\ q \in Pages /\ q.findings = p.findings /\ p.gaps \subseteq q.gaps
             /\ c = "upstream" /\ ~w.network /\ <<Shared, "pins">> \notin p.gaps
                  => <<Shared, "lookup">> \in q.gaps
<1> DEFINE gs == IF w.network THEN {}
                 ELSE CASE c = "deps" -> {<<Shared, "registry">>}
                        [] c = "tests" ->
                             Aud!When(<<Shared, "manifest">> \notin p.gaps, <<Shared, "billing">>)
                        [] c = "upstream" ->
                             Aud!When(<<Shared, "pins">> \notin p.gaps, <<Shared, "lookup">>)
                        [] OTHER -> {}
<1>1. Aud!Lookups(c, p, w) = Aud!Report({}, gs)
  BY DEF Aud!Lookups
<1>2. gs \subseteq {<<Shared, "registry">>, <<Shared, "billing">>, <<Shared, "lookup">>}
  BY DEF Aud!When
<1>3. {<<Shared, "registry">>, <<Shared, "billing">>, <<Shared, "lookup">>} \subseteq Gaps
  <2>1. "registry" \in Reasons /\ "billing" \in Reasons /\ "lookup" \in Reasons
    BY DEF Reasons
  <2> QED
    BY <2>1 DEF Gaps
<1>4. c = "upstream" /\ ~w.network /\ <<Shared, "pins">> \notin p.gaps
        => <<Shared, "lookup">> \in gs
  BY DEF Aud!When
<1> HIDE DEF gs
<1>5. /\ Aud!Report({}, gs) \in Pages /\ Aud!Report({}, gs).findings = {}
      /\ Aud!Report({}, gs).gaps = gs
  <2>1. gs \subseteq Gaps
    BY <1>2, <1>3
  <2>2. {} \subseteq Labels \X Aud!Severities \X Subjects
    OBVIOUS
  <2> QED
    BY <2>1, <2>2, ReportType
<1> DEFINE L == Aud!Report({}, gs)
           q == Aud!Add(p, L)
<1>6. /\ q \in Pages /\ q.findings = p.findings \union L.findings
      /\ q.gaps = p.gaps \union L.gaps
  BY <1>5, AddType
<1>7. q = Aud!Add(p, Aud!Lookups(c, p, w))
  BY <1>1
<1> HIDE DEF q
<1> QED
  BY <1>4, <1>5, <1>6, <1>7

LEMMA AuditFinish == AuditInv /\ Aud!Finish => AuditInv'
<1> SUFFICES ASSUME AuditInv, Aud!Finish PROVE AuditInv'
  OBVIOUS
<1> DEFINE c == Aud!Check
           p == IF audit.remote THEN Aud!Add(page, Aud!Lookups(c, page, world)) ELSE page
           q == Aud!ApplyExceptions(p, c)
           s == Aud!ApplyAccepted(q, c)
           j == [audit EXCEPT !.at = "next", !.todo = Tail(@), !.ran = @ \union {c}]
<1>0. /\ audit.at \in {"visit", "asked"} /\ audit.left = {} /\ audit \in AuditJobs
      /\ page \in Pages /\ report \in Pages
      /\ c = "upstream" => audit.at = "asked"
      /\ report' = Aud!Add(report, s) /\ audit' = j
      /\ page' = Aud!Empty /\ Aud!Watched
  BY DEF AuditInv, AuditTypes, Aud!Finish
<1>1. audit.todo # <<>> /\ c \in AuditChecks
  BY <1>0, CheckType DEF AuditInv, PageOK, Underway
<1>2. /\ p \in Pages /\ p.findings = page.findings /\ page.gaps \subseteq p.gaps
      /\ audit.remote /\ c = "upstream" /\ ~world.network /\ <<Shared, "pins">> \notin page.gaps
           => <<Shared, "lookup">> \in p.gaps
  <2>1. CASE audit.remote
    <3>1. p = Aud!Add(page, Aud!Lookups(c, page, world))
      BY <2>1
    <3> HIDE DEF c, p
    <3> QED
      <4> DEFINE Q == Aud!Add(page, Aud!Lookups(c, page, world))
      <4>1. /\ Q \in Pages /\ Q.findings = page.findings /\ page.gaps \subseteq Q.gaps
            /\ c = "upstream" /\ ~world.network /\ <<Shared, "pins">> \notin page.gaps
                 => <<Shared, "lookup">> \in Q.gaps
        BY <1>0, LookupsAre
      <4> HIDE DEF Q
      <4> QED
        BY <3>1, <4>1 DEF Q
  <2>2. CASE ~audit.remote
    <3>1. p = page
      BY <2>2
    <3> HIDE DEF c, p
    <3> QED
      BY <1>0, <2>2, <3>1
  <2> QED
    BY <2>1, <2>2
<1> DEFINE E == c \in Aud!Exceptable
<1> HIDE DEF c, p
<1>3. /\ q \in Pages /\ q.gaps = p.gaps
      /\ \A f \in q.findings : f[2] = "ERROR" =>
           f \in p.findings /\ ~(E /\ f[1] \in rules.excepted)
      /\ \A f \in p.findings : f[2] = "ERROR" /\ ~(E /\ f[1] \in rules.excepted)
           => f \in q.findings
  BY <1>1, <1>2, ExceptionsApplied
<1> HIDE DEF q
<1>4. /\ s \in Pages /\ q.findings \subseteq s.findings
      /\ \A f \in s.findings : f[2] = "ERROR" => f \in q.findings
      /\ \A g \in q.gaps :
           \/ g \in s.gaps
           \/ /\ <<c, g>> \in s.accepted
              /\ \E e \in rules.accepted : e.check = c /\ e.what = g[2] /\ ~e.expired
  BY <1>1, <1>3, AcceptedApplied
<1> HIDE DEF s
<1>5. /\ report' \in Pages
      /\ report'.findings = report.findings \union s.findings
      /\ report'.gaps = report.gaps \union s.gaps
      /\ report'.accepted = report.accepted \union s.accepted
  BY <1>0, <1>4, AddType
<1>6. Tail(audit.todo) \in Seq(AuditChecks)
  BY <1>0, <1>1, HeadTailProperties DEF AuditJobs
<1>7. /\ j \in AuditJobs /\ j.at = "next" /\ j.todo = Tail(audit.todo)
      /\ j.ran = audit.ran \union {c} /\ j.remote = audit.remote
  BY <1>0, <1>1, <1>6 DEF AuditJobs
<1> HIDE DEF j
<1>8. AuditTypes'
  BY <1>0, <1>5, <1>7, EmptyType DEF AuditInv, AuditTypes, Aud!Watched
<1>9. Framed'
  BY <1>0, FactsNext DEF AuditInv, Framed, Aud!Watched
<1>10. PageOK' /\ CodeOK'
  BY <1>0, <1>7 DEF PageOK, CodeOK, Underway
<1>11. ASSUME NEW f, f[2][1] = c, f[1] = "defect", Error(f) \in p.findings
       PROVE  Answered(f)'
  <2>1. CASE Aud!Excepted(f[2])
    BY <1>0, <1>11, <2>1 DEF Answered, Aud!Excepted, Aud!Exceptable, Aud!Watched
  <2>2. CASE ~Aud!Excepted(f[2])
    <3>1. Error(f)[1] = c /\ Error(f)[2] = "ERROR"
      BY <1>11 DEF Error
    <3>2. ~(E /\ c \in rules.excepted)
      BY <1>11, <2>2 DEF Aud!Excepted
    <3>3. Error(f) \in report'.findings
      BY <1>3, <1>4, <1>5, <1>11, <3>1, <3>2
    <3> QED
      BY <1>11, <3>3 DEF Answered, Error
  <2> QED
    BY <2>1, <2>2
<1>12. ASSUME NEW f, f[2][1] = c, NEW g \in p.gaps, StandsFor(g, f)
       PROVE  Answered(f)'
  <2>1. StandsFor(g, f)'
    BY <1>0, <1>7, <1>12, StandsStill DEF Aud!Watched
  <2>2. \/ g \in s.gaps
        \/ /\ <<c, g>> \in s.accepted
           /\ \E e \in rules.accepted : e.check = c /\ e.what = g[2] /\ ~e.expired
    BY <1>3, <1>4
  <2>3. (g \in report.gaps \/ AcceptedFor(g, f))'
    BY <1>0, <1>5, <1>12, <2>2 DEF AcceptedFor, Aud!Watched
  <2> QED
    BY <2>1, <2>3 DEF Answered
<1>13. ASSUME NEW f \in auditSteady', f[2][1] = c
       PROVE  Answered(f)'
  <2>1. f \in auditSteady /\ f \in Aud!Facts(tree, world)
    BY <1>0, FactsOfNow DEF Aud!Watched
  <2>2. Known(f) \/ Ahead(f)
    BY <1>0, <1>13, <2>1 DEF AuditInv, PageOK, Underway, c
  <2>3. CASE f[1] = "defect" /\ Error(f) \in page.findings
    BY <1>2, <1>11, <1>13, <2>3
  <2>4. CASE \E g \in page.gaps : StandsFor(g, f)
    BY <1>2, <1>12, <1>13, <2>4
  <2>5. CASE audit.remote /\ f = <<"unseen", <<"upstream", Shared, "lookup">>>>
    <3>1. f[1] = "unseen" /\ f[2] = <<"upstream", Shared, "lookup">>
      BY <2>5
    <3>2. f[2][1] = "upstream" /\ f[2][2] = Shared /\ f[2][3] = "lookup"
      BY <3>1
    <3>3. UnseenOf("upstream", Shared, "lookup", tree, world)
      BY <2>1, <3>1, <3>2, FactParts
    <3>4. ~world.network
      BY <3>3, AuditBounds DEF UnseenOf
    <3>5. <<Shared, "pins">> \notin page.gaps
      BY <1>0, <1>13, <2>1, <2>5, <3>2 DEF AuditInv, PageOK, Underway, c
    <3>6. <<Shared, "lookup">> \in p.gaps
      BY <1>2, <1>13, <2>5, <3>2, <3>4, <3>5
    <3>7. StandsFor(<<Shared, "lookup">>, f)
      BY <3>1, <3>2 DEF StandsFor, Aud!Hides
    <3> QED
      BY <1>12, <1>13, <3>6, <3>7
  <2>6. Ahead(f) => audit.remote /\ f = <<"unseen", <<"upstream", Shared, "lookup">>>>
    BY <1>0, <1>13 DEF Ahead
  <2>7. CASE Aud!Blind(f)
    BY <1>0, <2>7, BlindStill DEF Answered, Aud!Watched
  <2> QED
    BY <2>2, <2>3, <2>4, <2>5, <2>6, <2>7 DEF Known
<1>14. ASSUME NEW f \in auditSteady', f[2][1] \in audit.ran
       PROVE  Answered(f)'
  <2>1. Answered(f)
    BY <1>0, <1>14 DEF AuditInv, ReportOK, Aud!Watched
  <2> QED
    BY <1>0, <1>5, <1>7, <2>1, AnsweredStill DEF Aud!Watched
<1>15. ASSUME NEW f \in report'.findings, f[2] = "ERROR"
       PROVE  /\ f[1] \in audit'.ran /\ <<"defect", <<f[1], f[3]>>>> \in auditEver'
              /\ ~Aud!Excepted(<<f[1], f[3]>>)'
  <2>0. rules' = rules /\ auditEver' = auditEver
    BY <1>0 DEF Aud!Watched
  <2>1. CASE f \in report.findings
    BY <1>0, <1>7, <1>15, <2>0, <2>1
       DEF AuditInv, ReportOK, Aud!Excepted, Aud!Exceptable
  <2>2. CASE f \in s.findings
    <3>1. f \in page.findings /\ ~(E /\ f[1] \in rules.excepted)
      BY <1>2, <1>3, <1>4, <1>15, <2>2
    <3>2. f[1] = c /\ <<"defect", <<f[1], f[3]>>>> \in auditEver
      BY <1>0, <1>15, <3>1 DEF AuditInv, PageOK, Underway, c
    <3>3. ~Aud!Excepted(<<f[1], f[3]>>)
      BY <3>1, <3>2 DEF Aud!Excepted
    <3> QED
      BY <1>0, <1>7, <2>0, <3>2, <3>3 DEF Aud!Excepted, Aud!Exceptable
  <2> QED
    BY <1>5, <1>15, <2>1, <2>2
<1>16. ReportOK'
  BY <1>0, <1>7, <1>13, <1>14, <1>15 DEF ReportOK
<1> QED
  BY <1>8, <1>9, <1>10, <1>16 DEF AuditInv

LEMMA AuditExit == AuditInv /\ Aud!Exit => AuditInv'
<1> SUFFICES ASSUME AuditInv, Aud!Exit PROVE AuditInv'
  OBVIOUS
<1> DEFINE j == [audit EXCEPT !.at = "done", !.code = Aud!ExitCode(report)]
<1>0. /\ audit.at = "next" /\ audit.todo = <<>> /\ audit \in AuditJobs
      /\ audit' = j /\ UNCHANGED <<page, report>> /\ Aud!Watched
  BY DEF AuditInv, AuditTypes, Aud!Exit
<1>1. Aud!ExitCode(report) \in 0..2
  BY DEF Aud!ExitCode
<1>2. /\ j \in AuditJobs /\ j.at = "done" /\ j.todo = audit.todo /\ j.ran = audit.ran
      /\ j.remote = audit.remote /\ j.code = Aud!ExitCode(report)
  BY <1>0, <1>1 DEF AuditJobs
<1> HIDE DEF j
<1>3. AuditTypes'
  BY <1>0, <1>2 DEF AuditInv, AuditTypes, Aud!Watched
<1>4. ReportOK' /\ Framed'
  BY <1>0, <1>2, ReportStays
<1>5. PageOK'
  BY <1>0, <1>2 DEF PageOK, Underway
<1>6. CodeOK'
  BY <1>0, <1>2 DEF CodeOK, Aud!ExitCode
<1> QED
  BY <1>3, <1>4, <1>5, <1>6 DEF AuditInv

LEMMA AuditStill == AuditInv /\ UNCHANGED auditVars => AuditInv'
<1> SUFFICES ASSUME AuditInv, UNCHANGED auditVars PROVE AuditInv'
  OBVIOUS
<1> USE DEF auditVars
<1>1. AuditTypes' /\ Framed'
  BY FactsNext DEF AuditInv, AuditTypes, Framed
<1>2. \A f : Answered(f)' = Answered(f)
  BY DEF Answered, StandsFor, Looks, AcceptedFor, Error, Aud!Hides, Aud!Visible,
         Aud!Blind, Aud!NoManifest, Aud!Excepted, Aud!Exceptable
<1>3. ReportOK'
  <2>1. \A d : Aud!Excepted(d)' = Aud!Excepted(d)
    BY DEF Aud!Excepted, Aud!Exceptable
  <2> QED
    BY <1>2, <2>1 DEF AuditInv, ReportOK
<1>4. PageOK'
  <2>1. \A f : Known(f)' = Known(f) /\ Ahead(f)' = Ahead(f)
    BY DEF Known, Ahead, StandsFor, Looks, Error, Aud!Hides, Aud!Visible, Aud!Blind,
           Aud!NoManifest
  <2> QED
    BY <2>1 DEF AuditInv, PageOK, Underway, Aud!Check
<1>5. CodeOK'
  BY DEF AuditInv, CodeOK, Aud!ExitCode
<1> QED
  BY <1>1, <1>3, <1>4, <1>5 DEF AuditInv

LEMMA AuditStep == AuditInv /\ Aud!Next => AuditInv'
<1> SUFFICES ASSUME AuditInv, Aud!Next PROVE AuditInv'
  OBVIOUS
<1>1. CASE \E remote \in BOOLEAN : Aud!Start(IF remote THEN Aud!Remote ELSE Aud!Local, remote)
  <2>1. PICK remote \in BOOLEAN : Aud!Start(IF remote THEN Aud!Remote ELSE Aud!Local, remote)
    BY <1>1
  <2>2. CASE remote = TRUE
    BY <2>1, <2>2, Lists, AuditStart
  <2>3. CASE remote = FALSE
    BY <2>1, <2>3, Lists, AuditStart
  <2> QED
    BY <2>2, <2>3
<1>2. CASE \E k \in Aud!PerRepo \union {"agents"}, remote \in BOOLEAN :
             (remote => k \in Aud!Remotable) /\ Aud!Start(<<k>>, remote)
  <2>1. PICK k \in Aud!PerRepo \union {"agents"}, remote \in BOOLEAN : Aud!Start(<<k>>, remote)
    BY <1>2
  <2>2. k \in AuditChecks
    BY DEF Aud!PerRepo, AuditChecks
  <2> QED
    BY <2>1, <2>2, Lists, AuditStart
<1> QED
  BY <1>1, <1>2, AuditChange, AuditBegin, AuditVisit, AuditAsk, AuditFinish, AuditExit
     DEF Aud!Next

(* Exit codes are evidence. *)
LEMMA AuditTells ==
  AuditInv => Aud!ZeroIsClean /\ Aud!OneIsWrong /\ Aud!ErrorsAreTold
<1> SUFFICES ASSUME AuditInv PROVE Aud!ZeroIsClean /\ Aud!OneIsWrong /\ Aud!ErrorsAreTold
  OBVIOUS
<1>1. ASSUME Aud!Answered(0), NEW f \in auditSteady, f[2][1] \in audit.ran
      PROVE  \/ Aud!Blind(f)
             \/ f[1] = "defect" /\ Aud!Excepted(f[2])
             \/ \E a \in report.accepted, e \in rules.accepted :
                  /\ a[1] = f[2][1] /\ Aud!Hides(a[2], f)
                  /\ e.check = a[1] /\ e.what = a[2][2] /\ ~e.expired
  <2>1. report.gaps = {} /\ \A x \in report.findings : x[2] # "ERROR"
    BY <1>1 DEF AuditInv, CodeOK, Aud!Answered, Aud!ExitCode
  <2>2. Answered(f)
    BY <1>1 DEF AuditInv, ReportOK, Aud!Answered
  <2>3. CASE f[1] = "defect" /\ Error(f) \in report.findings
    BY <2>1, <2>3 DEF Error
  <2>4. CASE \E g : StandsFor(g, f) /\ (g \in report.gaps \/ AcceptedFor(g, f))
    <3>1. PICK g : StandsFor(g, f) /\ AcceptedFor(g, f)
      BY <2>1, <2>4
    <3>2. PICK e \in rules.accepted : e.check = f[2][1] /\ e.what = g[2] /\ ~e.expired
      BY <3>1 DEF AcceptedFor
    <3> DEFINE a == <<f[2][1], g>>
    <3>3. a \in report.accepted /\ a[1] = f[2][1] /\ a[2] = g
      BY <3>1 DEF AcceptedFor
    <3>4. Aud!Hides(a[2], f)
      BY <3>1, <3>3 DEF StandsFor
    <3> QED
      BY <3>2, <3>3, <3>4
  <2> QED
    BY <2>2, <2>3, <2>4 DEF Answered
<1>2. ASSUME Aud!Answered(1)
      PROVE  \E f \in auditEver : /\ f[1] = "defect" /\ f[2][1] \in audit.ran
                                  /\ ~Aud!Excepted(f[2])
  <2>1. PICK x \in report.findings : x[2] = "ERROR"
    BY <1>2 DEF AuditInv, CodeOK, Aud!Answered, Aud!ExitCode
  <2> DEFINE f == <<"defect", <<x[1], x[3]>>>>
  <2>2. x[1] \in audit.ran /\ f \in auditEver /\ ~Aud!Excepted(<<x[1], x[3]>>)
    BY <1>2, <2>1 DEF AuditInv, ReportOK, Aud!Answered
  <2>3. f[1] = "defect" /\ f[2] = <<x[1], x[3]>>
    OBVIOUS
  <2>4. f[2][1] = x[1]
    BY <2>3
  <2> QED
    BY <2>2, <2>3, <2>4
<1>3. ASSUME audit.at = "done", NEW d \in Aud!Defects(tree, world), d[1] \in audit.ran,
             Looks(d[1], audit.remote),
             <<"defect", d>> \in auditSteady, ~Aud!Excepted(d), Aud!Visible(d)
      PROVE  audit.code = 1
  <2> DEFINE f == <<"defect", d>>
  <2>1. f[1] = "defect" /\ f[2] = d
    OBVIOUS
  <2>2. Answered(f)
    BY <1>3, <2>1 DEF AuditInv, ReportOK
  <2> HIDE DEF f
  <2>3. ~Aud!Blind(f)
    <3> DEFINE n == Aud!NoManifest("upstream")
    <3>1. n[1] = "unseen" /\ n[2] = <<"upstream", Shared, "manifest">>
      BY DEF Aud!NoManifest
    <3>2. n[2][1] = "upstream" /\ n[2][2] = Shared
      BY <3>1
    <3> HIDE DEF n
    <3>3. d[1] = "upstream" => n \notin auditEver
      BY <1>3, <3>1, <3>2 DEF Aud!Visible
    <3> QED
      BY <2>1, <3>3 DEF Aud!Blind, n
  <2>4. Error(f) \in report.findings
    BY <1>3, <2>1, <2>2, <2>3 DEF Answered, StandsFor
  <2>5. Error(f)[2] = "ERROR"
    BY DEF Error
  <2> QED
    BY <1>3, <2>4, <2>5 DEF AuditInv, CodeOK, Aud!ExitCode
<1> QED
  BY <1>1, <1>2, <1>3 DEF Aud!ZeroIsClean, Aud!OneIsWrong, Aud!ErrorsAreTold, Looks

LEMMA AuditTypeOK == AuditInv => Aud!TypeOK
<1> SUFFICES ASSUME AuditInv PROVE Aud!TypeOK
  OBVIOUS
<1>1. \A r \in AuditRepos : \A a \in DOMAIN Aud!Values : tree[r][a] \in Aud!Values[a]
  BY DEF AuditInv, AuditTypes, RepoType, Aud!Values
<1>2. \A f \in DOMAIN Aud!Plain : world[f] \in Aud!WorldValues[f]
  BY DEF AuditInv, AuditTypes, WorldType, Aud!WorldValues, Aud!Plain
<1>3. \A f \in page.findings \union report.findings : f[2] \in Aud!Severities
  <2>1. \A p \in Pages : \A f \in p.findings : f[2] \in Aud!Severities
    BY DEF Pages
  <2> QED
    BY <2>1 DEF AuditInv, AuditTypes
<1> QED
  BY <1>1, <1>2, <1>3 DEF AuditInv, AuditTypes, AuditJobs, Aud!TypeOK

-----------------------------------------------------------------------------
(* Doctor: what it keeps. *)
MachineType ==
  [ os : BOOLEAN, shell : BOOLEAN, path : BOOLEAN, sudo : BOOLEAN,
    net : BOOLEAN, git : BOOLEAN, own : {0, 1, 2, 3}, other : {0, 1, 3},
    linked : BOOLEAN, floor : {0, 1, 3}, module : BOOLEAN,
    node : {0, 1, 2, 3}, bun : {0, 2},
    docker : {"running", "stopped", "absent"}, compose : BOOLEAN,
    caddy : BOOLEAN, key : BOOLEAN,
    repos : {"whole", "gitless", "unreadable"},
    assets : {"none", "complete", "missing", "nokeys"} ]

DoctorChecks ==
  {"host", "git", "toolchains", "docker", "ssh", "tools", "workspace", "assets"}

RecipeNames == {"zsh", "git", "go", "bun", "node", "daemon", "compose", "caddy"}

Results ==
  [ name : { "Host", "Git", "Go Compiler", "go.mod", "Node.js", "Bun", "Docker Daemon",
             "Docker Compose", "GitHub SSH", "Caddy", "Workspace", "Assets", "Pull" },
    status : {"OK", "WARN", "ERROR"}, path : BOOLEAN ]

DoctorJobs ==
  [ at : {"idle", "check", "heal", "unpack", "done", "refused", "killed"},
    opts : Switches, todo : Seq(DoctorChecks), repairs : BOOLEAN,
    report : Seq(Results), queue : SUBSET (Nat \X (1..8)), ran : Seq(RecipeNames),
    again : BOOLEAN, late : BOOLEAN, code : 0..1 ]

DoctorTypes ==
  machine \in MachineType /\ visit \in DoctorJobs /\ changes \in 0..DoctorChanges

(* The check that finds a fault. *)
FoundBy(c, f) ==
  \/ c = "host" /\ f = "host"
  \/ c = "git" /\ f = "git"
  \/ c = "toolchains" /\ f \in {"go", "module", "node", "bun"}
  \/ c = "workspace" /\ f = "repos"
  \/ c = "docker" /\ f \in {"docker", "compose"}
  \/ c = "assets" /\ f = "assets"

Alarm(s) == \E r \in Told(s) : r.status = "ERROR"

(* What was wrong all through the diagnosis is told or still looked for,   *)
(* and an error is there for a reason.                                     *)
DiagnosisOK ==
  visit.at \in {"check", "done"} =>
    /\ \A f \in steady : \/ Alarm(visit.report)
                         \/ \E c \in Told(visit.todo) : FoundBy(c, f)
    /\ Alarm(visit.report) => ever # {} \/ visit.late

(* What a recipe writes to. *)
Writes(h) ==
  CASE h = "zsh" -> {"shell"}
    [] h = "git" -> {"git"}
    [] h = "go" -> {"own", "linked"}
    [] h = "bun" -> {"bun"}
    [] h = "node" -> {"node"}
    [] h = "daemon" -> {"docker", "compose"}
    [] h = "compose" -> {"compose"}
    [] h = "caddy" -> {"caddy"}

Reason(h) == visit.late \/ \E k \in seen : Writes(h) \subseteq Doc!Remedied(k)

QueueOK ==
  /\ \A r \in Told(visit.report), h \in RecipeNames :
       r.status # "OK" /\ Doc!CanHeal(h, r) => Reason(h)
  /\ \A p \in visit.queue :
       /\ \A h \in RecipeNames : h = Doc!Recipes[p[2]] => Reason(h)
       /\ \A i \in DOMAIN visit.ran : visit.ran[i] # Doc!Recipes[p[2]]
       /\ \A q \in visit.queue : p[2] = q[2] => p = q
  /\ \A i, j \in DOMAIN visit.ran : visit.ran[i] = visit.ran[j] => i = j
  /\ visit.at = "unpack" => Reason("go")

FlagsOK ==
  /\ Doc!Valid(visit.opts)
  /\ visit.repairs \/ visit.at \in {"heal", "unpack"} => visit.opts.fix
  /\ \A c \in Told(visit.todo) : c \in {"docker", "ssh", "assets"} => visit.opts.remote
  /\ visit.at = "idle" => /\ visit.report = <<>> /\ visit.queue = {} /\ visit.ran = <<>>
                          /\ ~visit.again /\ ~visit.late /\ ~visit.repairs
  /\ visit.at = "check" => visit.queue = {} /\ (visit.again \/ visit.ran = <<>>)

VerdictOK ==
  visit.at = "done" =>
    visit.todo = <<>> /\ visit.code = IF Doc!HasErrors(visit.report) THEN 1 ELSE 0

DoctorInv == DoctorTypes /\ DiagnosisOK /\ QueueOK /\ FlagsOK /\ VerdictOK

-----------------------------------------------------------------------------
(* The faults, one by one. *)
FaultOf(f, m, o) ==
  \/ f = "host" /\ (~m.os \/ ~m.shell \/ ~m.path)
  \/ f = "git" /\ ~m.git
  \/ f = "go" /\ (Doc!Go(m) = 0 \/ Doc!Go(m) < Doc!Floor(m))
  \/ f = "module" /\ ~m.module
  \/ f = "node" /\ m.node < 2
  \/ f = "bun" /\ m.bun < 2
  \/ f = "repos" /\ m.repos = "unreadable"
  \/ f = "docker" /\ o.remote /\ m.docker # "running"
  \/ f = "compose" /\ o.remote /\ ~m.compose
  \/ f = "assets" /\ o.remote /\ m.assets # "none" /\ (~m.net \/ m.assets # "complete")

LEMMA FaultsAre ==
  ASSUME NEW f, NEW m, NEW o
  PROVE  f \in Doc!Faults(m, o) <=> FaultOf(f, m, o)
BY DEF Doc!Faults, Doc!Set, FaultOf

LEMMA ComplaintsAre ==
  ASSUME NEW m, NEW o
  PROVE  /\ \A f : FaultOf(f, m, o) => f \in Doc!Complaints(m, o)
         /\ ~m.caddy => "caddy" \in Doc!Complaints(m, o)
<1>1. \A f : FaultOf(f, m, o) => f \in Doc!Faults(m, o)
  BY FaultsAre
<1> QED
  BY <1>1 DEF Doc!Complaints, Doc!Set

LEMMA RecipesAre ==
  /\ DOMAIN Doc!Recipes = 1..8
  /\ \A n \in 1..8 : Doc!Recipes[n] \in RecipeNames
  /\ \A n, k \in 1..8 : Doc!Recipes[n] = Doc!Recipes[k] => n = k
<1> DEFINE R == Doc!Recipes
<1>1. /\ DOMAIN R = 1..8
      /\ R[1] = "zsh" /\ R[2] = "git" /\ R[3] = "go" /\ R[4] = "bun"
      /\ R[5] = "node" /\ R[6] = "daemon" /\ R[7] = "compose" /\ R[8] = "caddy"
  BY DEF Doc!Recipes
<1> HIDE DEF R
<1>2. \A n \in 1..8 : n \in {1, 2, 3, 4, 5, 6, 7, 8}
  OBVIOUS
<1>3. \A n \in 1..8 : R[n] \in RecipeNames
  BY <1>1, <1>2 DEF RecipeNames
<1>4. \A n, k \in {1, 2, 3, 4, 5, 6, 7, 8} : R[n] = R[k] => n = k
  BY <1>1
<1> QED
  BY <1>1, <1>2, <1>3, <1>4 DEF R

LEMMA CanHealIs ==
  ASSUME NEW r
  PROVE  /\ Doc!CanHeal("zsh", r) <=> r.name = "Host" \/ r.path
         /\ Doc!CanHeal("git", r) <=> r.name = "Git"
         /\ Doc!CanHeal("go", r) <=> r.name \in {"Go Compiler", "go.mod"}
         /\ Doc!CanHeal("bun", r) <=> r.name = "Bun"
         /\ Doc!CanHeal("node", r) <=> r.name = "Node.js"
         /\ Doc!CanHeal("daemon", r) <=> r.name = "Docker Daemon"
         /\ Doc!CanHeal("compose", r) <=> r.name = "Docker Compose"
         /\ Doc!CanHeal("caddy", r) <=> r.name = "Caddy"
BY DEF Doc!CanHeal, Doc!ZshCanHeal, Doc!GoCanHeal

(* Of what a recipe answers, the complaints that account for it. *)
Causes(h) ==
  CASE h = "zsh" -> {"host", "git", "docker", "caddy"}
    [] h = "go" -> {"go", "module"}
    [] h = "daemon" -> {"docker"}
    [] h \in {"git", "bun", "node", "compose", "caddy"} -> {h}

LEMMA CausesRemedied ==
  ASSUME NEW h \in RecipeNames, NEW k \in Causes(h)
  PROVE  Writes(h) \subseteq Doc!Remedied(k)
<1>1. CASE h = "zsh"
  BY <1>1 DEF Causes, Writes, Doc!Remedied
<1>2. CASE h = "go"
  BY <1>2 DEF Causes, Writes, Doc!Remedied
<1>3. CASE h = "daemon"
  BY <1>3 DEF Causes, Writes, Doc!Remedied
<1>4. CASE h = "git"
  BY <1>4 DEF Causes, Writes, Doc!Remedied
<1>5. CASE h = "caddy"
  BY <1>5 DEF Causes, Writes, Doc!Remedied
<1>6. CASE h = "bun"
  BY <1>6 DEF Causes, Writes, Doc!Remedied
<1>7. CASE h = "node"
  BY <1>7 DEF Causes, Writes, Doc!Remedied
<1>8. CASE h = "compose"
  BY <1>8 DEF Causes, Writes, Doc!Remedied
<1> QED
  BY <1>1, <1>2, <1>3, <1>4, <1>5, <1>6, <1>7, <1>8 DEF RecipeNames

-----------------------------------------------------------------------------
(* What the checks tell. *)
LEMMA CheckTold ==
  ASSUME NEW m, NEW late
  PROVE  /\ Doc!Check("host", m, late) = <<Doc!HostResult(m)>>
         /\ Doc!Check("git", m, late) = <<Doc!GitResult(m, late)>>
         /\ Doc!Check("toolchains", m, late) = Doc!ToolchainCheck(m, late)
         /\ Doc!Check("docker", m, late) = <<Doc!DaemonResult(m, late), Doc!ComposeResult(m)>>
         /\ Doc!Check("ssh", m, late) = <<Doc!SshResult(m)>>
         /\ Doc!Check("tools", m, late) = <<Doc!CaddyResult(m)>>
         /\ Doc!Check("workspace", m, late) = Doc!WorkspaceCheck(m)
         /\ Doc!Check("assets", m, late) = Doc!AssetsCheck(m, "pull" \in late)
BY DEF Doc!Check, Doc!DockerCheck

ModuleResult == Doc!Result("go.mod", TRUE, "ERROR", FALSE)

PullResult == Doc!Result("Pull", TRUE, "ERROR", FALSE)

AssetsResult(m) ==
  Doc!Result("Assets", ~m.net \/ m.assets # "complete", "ERROR", FALSE)

WorkspaceResult(m) ==
  Doc!Result("Workspace", m.repos # "whole",
             IF m.repos = "gitless" THEN "WARN" ELSE "ERROR", FALSE)

LEMMA ResultTypes ==
  ASSUME NEW m \in MachineType, NEW late
  PROVE  {Doc!HostResult(m), Doc!GitResult(m, late), Doc!GoResult(m, late),
          Doc!NodeResult(m, late), Doc!BunResult(m, late), Doc!DaemonResult(m, late),
          Doc!ComposeResult(m), Doc!SshResult(m), Doc!CaddyResult(m), ModuleResult,
          PullResult, AssetsResult(m), WorkspaceResult(m)} \subseteq Results
<1> USE DEF Doc!Result
<1>1. Doc!HostResult(m) \in Results
  BY DEF Results, Doc!HostResult
<1>2. Doc!GitResult(m, late) \in Results
  BY DEF Results, Doc!GitResult
<1>3. Doc!GoResult(m, late) \in Results
  BY DEF Results, Doc!GoResult
<1>4. Doc!NodeResult(m, late) \in Results
  BY DEF Results, Doc!NodeResult
<1>5. Doc!BunResult(m, late) \in Results
  BY DEF Results, Doc!BunResult
<1>6. Doc!DaemonResult(m, late) \in Results
  BY DEF Results, Doc!DaemonResult
<1>7. Doc!ComposeResult(m) \in Results
  BY DEF Results, Doc!ComposeResult
<1>8. Doc!SshResult(m) \in Results
  BY DEF Results, Doc!SshResult
<1>9. Doc!CaddyResult(m) \in Results
  BY DEF Results, Doc!CaddyResult
<1>10. ModuleResult \in Results /\ PullResult \in Results
  BY DEF Results, ModuleResult, PullResult
<1>11. AssetsResult(m) \in Results
  BY DEF Results, AssetsResult
<1>12. WorkspaceResult(m) \in Results
  BY DEF Results, WorkspaceResult
<1> QED
  BY <1>1, <1>2, <1>3, <1>4, <1>5, <1>6, <1>7, <1>8, <1>9, <1>10, <1>11, <1>12

(* Every check gives results, and these they are. *)
LEMMA CheckGives ==
  ASSUME NEW m \in MachineType, NEW late, NEW c \in DoctorChecks
  PROVE  LET s == Doc!Check(c, m, late)
         IN  /\ s \in Seq(Results)
             /\ c = "host" => Told(s) = {Doc!HostResult(m)}
             /\ c = "git" => Told(s) = {Doc!GitResult(m, late)}
             /\ c = "toolchains" =>
                  Told(s) = Doc!Set(~m.module, ModuleResult)
                            \union {Doc!GoResult(m, late), Doc!NodeResult(m, late),
                                    Doc!BunResult(m, late)}
             /\ c = "docker" => Told(s) = {Doc!DaemonResult(m, late), Doc!ComposeResult(m)}
             /\ c = "ssh" => Told(s) = {Doc!SshResult(m)}
             /\ c = "tools" => Told(s) = {Doc!CaddyResult(m)}
             /\ c = "workspace" => Told(s) = {WorkspaceResult(m)}
             /\ c = "assets" =>
                  Told(s) = IF m.assets = "none" THEN {}
                            ELSE Doc!Set("pull" \in late, PullResult) \union {AssetsResult(m)}
<1> DEFINE s == Doc!Check(c, m, late)
<1>0. /\ \A x \in Results : <<x>> \in Seq(Results)
      /\ \A x, y \in Results : <<x, y>> \in Seq(Results)
      /\ \A x, y, z \in Results : <<x, y, z>> \in Seq(Results)
      /\ <<>> \in Seq(Results)
  OBVIOUS
<1>1. ASSUME NEW p, NEW x \in Results
      PROVE  Doc!When(p, x) \in Seq(Results) /\ Told(Doc!When(p, x)) = Doc!Set(p, x)
  BY <1>0, ToldOf DEF Doc!When, Doc!Set
<1>2. CASE c = "host"
  <2>1. s = <<Doc!HostResult(m)>>
    BY <1>2, CheckTold
  <2> HIDE DEF s
  <2>2. s \in Seq(Results) /\ Told(s) = {Doc!HostResult(m)}
    BY <1>0, <2>1, ToldOf, ResultTypes
  <2> QED
    BY <1>2, <2>2 DEF s
<1>3. CASE c = "git"
  <2>1. s = <<Doc!GitResult(m, late)>>
    BY <1>3, CheckTold
  <2> HIDE DEF s
  <2>2. s \in Seq(Results) /\ Told(s) = {Doc!GitResult(m, late)}
    BY <1>0, <2>1, ToldOf, ResultTypes
  <2> QED
    BY <1>3, <2>2 DEF s
<1>4. CASE c = "toolchains"
  <2> DEFINE a == Doc!When(~m.module, ModuleResult)
             b == <<Doc!GoResult(m, late), Doc!NodeResult(m, late), Doc!BunResult(m, late)>>
  <2>1. s = a \o b
    BY <1>4, CheckTold DEF Doc!ToolchainCheck, ModuleResult
  <2>2. a \in Seq(Results) /\ Told(a) = Doc!Set(~m.module, ModuleResult)
    BY <1>1, ResultTypes
  <2>3. /\ b \in Seq(Results)
        /\ Told(b) = {Doc!GoResult(m, late), Doc!NodeResult(m, late), Doc!BunResult(m, late)}
    BY <1>0, ToldOf, ResultTypes
  <2> HIDE DEF a, b, s
  <2>4. s \in Seq(Results) /\ Told(s) = Told(a) \union Told(b)
    BY <2>1, <2>2, <2>3, ToldConcat
  <2> QED
    BY <1>4, <2>2, <2>3, <2>4 DEF s
<1>5. CASE c = "docker"
  <2>1. s = <<Doc!DaemonResult(m, late), Doc!ComposeResult(m)>>
    BY <1>5, CheckTold
  <2> HIDE DEF s
  <2>2. s \in Seq(Results) /\ Told(s) = {Doc!DaemonResult(m, late), Doc!ComposeResult(m)}
    BY <1>0, <2>1, ToldOf, ResultTypes
  <2> QED
    BY <1>5, <2>2 DEF s
<1>6. CASE c = "ssh"
  <2>1. s = <<Doc!SshResult(m)>>
    BY <1>6, CheckTold
  <2> HIDE DEF s
  <2>2. s \in Seq(Results) /\ Told(s) = {Doc!SshResult(m)}
    BY <1>0, <2>1, ToldOf, ResultTypes
  <2> QED
    BY <1>6, <2>2 DEF s
<1>7. CASE c = "tools"
  <2>1. s = <<Doc!CaddyResult(m)>>
    BY <1>7, CheckTold
  <2> HIDE DEF s
  <2>2. s \in Seq(Results) /\ Told(s) = {Doc!CaddyResult(m)}
    BY <1>0, <2>1, ToldOf, ResultTypes
  <2> QED
    BY <1>7, <2>2 DEF s
<1>8. CASE c = "workspace"
  <2>1. s = <<WorkspaceResult(m)>>
    BY <1>8, CheckTold DEF Doc!WorkspaceCheck, WorkspaceResult
  <2> QED
    BY <1>0, <1>8, <2>1, ToldOf, ResultTypes
<1>9. CASE c = "assets"
  <2> DEFINE a == Doc!When("pull" \in late, PullResult)
             b == <<AssetsResult(m)>>
  <2>1. s = IF m.assets = "none" THEN <<>> ELSE a \o b
    BY <1>9, CheckTold DEF Doc!AssetsCheck, PullResult, AssetsResult
  <2>2. a \in Seq(Results) /\ Told(a) = Doc!Set("pull" \in late, PullResult)
    BY <1>1, ResultTypes
  <2>3. b \in Seq(Results) /\ Told(b) = {AssetsResult(m)}
    BY <1>0, ToldOf, ResultTypes
  <2> HIDE DEF a, b, s
  <2>4. a \o b \in Seq(Results) /\ Told(a \o b) = Told(a) \union Told(b)
    BY <2>2, <2>3, ToldConcat
  <2> QED
    BY <1>0, <1>9, <2>1, <2>2, <2>3, <2>4, ToldOf DEF s
<1> QED
  BY <1>2, <1>3, <1>4, <1>5, <1>6, <1>7, <1>8, <1>9 DEF DoctorChecks

(* A complaint has a cause on the machine, and its recipes a reason, or    *)
(* something was late.                                                     *)
LEMMA CheckSays ==
  ASSUME NEW m \in MachineType, NEW o \in Switches, NEW late, NEW c \in DoctorChecks,
         c \in {"docker", "ssh", "assets"} => o.remote,
         NEW r \in Told(Doc!Check(c, m, late)), r.status # "OK", late = {}
  PROVE  /\ r.status = "ERROR" => \E f : FaultOf(f, m, o)
         /\ \A h \in RecipeNames : Doc!CanHeal(h, r) =>
              \E k \in Doc!Complaints(m, o) : Writes(h) \subseteq Doc!Remedied(k)
<1> DEFINE Due(h) == \E k \in Doc!Complaints(m, o) : k \in Causes(h)
<1>1. SUFFICES /\ r.status = "ERROR" => \E f : FaultOf(f, m, o)
               /\ \A h \in RecipeNames : Doc!CanHeal(h, r) => Due(h)
  BY CausesRemedied
<1>2. ASSUME NEW f, FaultOf(f, m, o), NEW h \in RecipeNames, f \in Causes(h)
      PROVE  Due(h)
  BY <1>2, ComplaintsAre
<1> HIDE DEF Due
<1>z. /\ {"host", "git", "docker", "caddy"} \subseteq Causes("zsh")
      /\ {"go", "module"} \subseteq Causes("go") /\ "docker" \in Causes("daemon")
      /\ "git" \in Causes("git") /\ "bun" \in Causes("bun") /\ "node" \in Causes("node")
      /\ "compose" \in Causes("compose") /\ "caddy" \in Causes("caddy")
  BY DEF Causes
<1>h. ASSUME NEW h \in RecipeNames, Doc!CanHeal(h, r)
      PROVE  \/ h = "zsh" /\ (r.name = "Host" \/ r.path)
             \/ h = "git" /\ r.name = "Git"
             \/ h = "go" /\ r.name \in {"Go Compiler", "go.mod"}
             \/ h = "bun" /\ r.name = "Bun"
             \/ h = "node" /\ r.name = "Node.js"
             \/ h = "daemon" /\ r.name = "Docker Daemon"
             \/ h = "compose" /\ r.name = "Docker Compose"
             \/ h = "caddy" /\ r.name = "Caddy"
  BY <1>h, CanHealIs DEF RecipeNames
<1>n. RecipeNames = {"zsh", "git", "go", "bun", "node", "daemon", "compose", "caddy"}
  BY DEF RecipeNames
<1>3. CASE c = "host"
  <2>1. r = Doc!HostResult(m)
    BY <1>3, CheckGives
  <2>2. r.name = "Host" /\ FaultOf("host", m, o)
    BY <2>1 DEF Doc!Result, Doc!HostResult, FaultOf
  <2>3. ~r.path \/ TRUE
    OBVIOUS
  <2> QED
    BY <1>2, <1>h, <1>z, <1>n, <2>2
<1>4. CASE c = "git"
  <2>1. r = Doc!GitResult(m, late)
    BY <1>4, CheckGives
  <2>2. r.name = "Git" /\ FaultOf("git", m, o)
    BY <2>1 DEF Doc!Result, Doc!GitResult, FaultOf
  <2> QED
    BY <1>2, <1>h, <1>z, <1>n, <2>2
<1>5. CASE c = "toolchains"
  <2>1. \/ r = ModuleResult /\ ~m.module
        \/ r = Doc!GoResult(m, late) \/ r = Doc!NodeResult(m, late)
        \/ r = Doc!BunResult(m, late)
    BY <1>5, CheckGives DEF Doc!Set
  <2>2. CASE r = ModuleResult /\ ~m.module
    <3>1. r.name = "go.mod" /\ ~r.path /\ FaultOf("module", m, o)
      BY <2>2 DEF Doc!Result, ModuleResult, FaultOf
    <3> QED
      BY <1>2, <1>h, <1>z, <1>n, <3>1
  <2>3. CASE r = Doc!GoResult(m, late)
    <3>1. r.name = "Go Compiler" /\ ~r.path /\ FaultOf("go", m, o)
      BY <2>3 DEF Doc!Result, Doc!GoResult, FaultOf
    <3> QED
      BY <1>2, <1>h, <1>z, <1>n, <3>1
  <2>4. CASE r = Doc!NodeResult(m, late)
    <3>1. r.name = "Node.js" /\ ~r.path /\ FaultOf("node", m, o)
      BY <2>4 DEF Doc!Result, Doc!NodeResult, FaultOf
    <3> QED
      BY <1>2, <1>h, <1>z, <1>n, <3>1
  <2>5. CASE r = Doc!BunResult(m, late)
    <3>1. r.name = "Bun" /\ ~r.path /\ FaultOf("bun", m, o)
      BY <2>5 DEF Doc!Result, Doc!BunResult, FaultOf
    <3> QED
      BY <1>2, <1>h, <1>z, <1>n, <3>1
  <2> QED
    BY <2>1, <2>2, <2>3, <2>4, <2>5
<1>6. CASE c = "docker"
  <2>1. r = Doc!DaemonResult(m, late) \/ r = Doc!ComposeResult(m)
    BY <1>6, CheckGives
  <2>2. CASE r = Doc!DaemonResult(m, late)
    <3>1. r.name = "Docker Daemon" /\ FaultOf("docker", m, o)
      BY <1>6, <2>2 DEF Doc!Result, Doc!DaemonResult, FaultOf
    <3> QED
      BY <1>2, <1>h, <1>z, <1>n, <3>1
  <2>3. CASE r = Doc!ComposeResult(m)
    <3>1. r.name = "Docker Compose" /\ ~r.path /\ FaultOf("compose", m, o)
      BY <1>6, <2>3 DEF Doc!Result, Doc!ComposeResult, FaultOf
    <3> QED
      BY <1>2, <1>h, <1>z, <1>n, <3>1
  <2> QED
    BY <2>1, <2>2, <2>3
<1>7. CASE c = "ssh"
  <2>1. r = Doc!SshResult(m)
    BY <1>7, CheckGives
  <2>2. r.name = "GitHub SSH" /\ ~r.path /\ r.status # "ERROR"
    BY <2>1 DEF Doc!Result, Doc!SshResult
  <2> QED
    BY <1>h, <2>2
<1>8. CASE c = "tools"
  <2>1. r = Doc!CaddyResult(m)
    BY <1>8, CheckGives
  <2>2. r.name = "Caddy" /\ r.status # "ERROR" /\ ~m.caddy
    BY <2>1 DEF Doc!Result, Doc!CaddyResult
  <2>3. Due("zsh") /\ Due("caddy")
    BY <1>z, <2>2, ComplaintsAre DEF Due
  <2> QED
    BY <1>h, <2>2, <2>3
<1>9. CASE c = "workspace"
  <2>1. r = WorkspaceResult(m)
    BY <1>9, CheckGives
  <2>2. r.name = "Workspace" /\ ~r.path
    BY <2>1 DEF Doc!Result, WorkspaceResult
  <2>3. r.status = "ERROR" => FaultOf("repos", m, o)
    <3>1. r.status = "ERROR" => m.repos # "whole" /\ m.repos # "gitless"
      BY <2>1 DEF Doc!Result, WorkspaceResult
    <3> QED
      BY <3>1 DEF FaultOf, MachineType
  <2> QED
    BY <1>h, <2>2, <2>3
<1>10. CASE c = "assets"
  <2>1. m.assets # "none" /\ r = AssetsResult(m)
    BY <1>10, CheckGives DEF Doc!Set
  <2>2. r.name = "Assets" /\ ~r.path /\ FaultOf("assets", m, o)
    BY <1>10, <2>1 DEF Doc!Result, AssetsResult, FaultOf
  <2> QED
    BY <1>h, <2>2
<1> QED
  BY <1>3, <1>4, <1>5, <1>6, <1>7, <1>8, <1>9, <1>10 DEF DoctorChecks

(* And every fault is an error of the check that looks for it. *)
LEMMA CheckSees ==
  ASSUME NEW m \in MachineType, NEW o, NEW late, NEW c \in DoctorChecks,
         NEW f, FaultOf(f, m, o), FoundBy(c, f)
  PROVE  Alarm(Doc!Check(c, m, late))
<1>1. SUFFICES \E r \in Told(Doc!Check(c, m, late)) : r.status = "ERROR"
  BY DEF Alarm
<1>2. CASE f = "host"
  <2>1. Doc!HostResult(m).status = "ERROR"
    BY <1>2 DEF Doc!Result, Doc!HostResult, FaultOf
  <2> QED
    BY <1>2, <2>1, CheckGives DEF FoundBy
<1>3. CASE f = "git"
  <2>1. Doc!GitResult(m, late).status = "ERROR"
    BY <1>3 DEF Doc!Result, Doc!GitResult, FaultOf
  <2> QED
    BY <1>3, <2>1, CheckGives DEF FoundBy
<1>4. CASE f = "go"
  <2>1. Doc!Go(m) < Doc!Floor(m)
    <3>1. Doc!Floor(m) \in {1, 3}
      BY DEF Doc!Floor, Doc!Pin, MachineType
    <3>2. Doc!Go(m) \in {0, 1, 2, 3}
      BY DEF Doc!Go, MachineType
    <3>3. Doc!Go(m) = 0 \/ Doc!Go(m) < Doc!Floor(m)
      BY <1>4 DEF FaultOf
    <3> QED
      BY <3>1, <3>2, <3>3
  <2>2. Doc!GoResult(m, late).status = "ERROR"
    BY <2>1 DEF Doc!Result, Doc!GoResult
  <2>3. c = "toolchains"
    BY <1>4 DEF FoundBy
  <2> QED
    BY <2>2, <2>3, CheckGives
<1>5. CASE f = "module"
  <2>1. ModuleResult.status = "ERROR" /\ ~m.module
    BY <1>5 DEF Doc!Result, ModuleResult, FaultOf
  <2>2. c = "toolchains"
    BY <1>5 DEF FoundBy
  <2> QED
    BY <2>1, <2>2, CheckGives DEF Doc!Set
<1>6. CASE f = "node"
  <2>1. Doc!NodeResult(m, late).status = "ERROR"
    BY <1>6 DEF Doc!Result, Doc!NodeResult, FaultOf
  <2>2. c = "toolchains"
    BY <1>6 DEF FoundBy
  <2> QED
    BY <2>1, <2>2, CheckGives
<1>7. CASE f = "bun"
  <2>1. Doc!BunResult(m, late).status = "ERROR"
    BY <1>7 DEF Doc!Result, Doc!BunResult, FaultOf
  <2>2. c = "toolchains"
    BY <1>7 DEF FoundBy
  <2> QED
    BY <2>1, <2>2, CheckGives
<1>8. CASE f = "repos"
  <2>1. WorkspaceResult(m).status = "ERROR"
    BY <1>8 DEF Doc!Result, WorkspaceResult, FaultOf
  <2> QED
    BY <1>8, <2>1, CheckGives DEF FoundBy
<1>9. CASE f = "docker"
  <2>1. Doc!DaemonResult(m, late).status = "ERROR"
    BY <1>9 DEF Doc!Result, Doc!DaemonResult, FaultOf
  <2>2. c = "docker"
    BY <1>9 DEF FoundBy
  <2> QED
    BY <2>1, <2>2, CheckGives
<1>10. CASE f = "compose"
  <2>1. Doc!ComposeResult(m).status = "ERROR"
    BY <1>10 DEF Doc!Result, Doc!ComposeResult, FaultOf
  <2>2. c = "docker"
    BY <1>10 DEF FoundBy
  <2> QED
    BY <2>1, <2>2, CheckGives
<1>11. CASE f = "assets"
  <2>1. AssetsResult(m).status = "ERROR" /\ m.assets # "none"
    BY <1>11 DEF Doc!Result, AssetsResult, FaultOf
  <2>2. c = "assets"
    BY <1>11 DEF FoundBy
  <2> QED
    BY <2>1, <2>2, CheckGives
<1> QED
  BY <1>2, <1>3, <1>4, <1>5, <1>6, <1>7, <1>8, <1>9, <1>10, <1>11 DEF FaultOf

LEMMA SuiteIs ==
  ASSUME NEW o \in Switches
  PROVE  /\ Doc!Suite(o) \in Seq(DoctorChecks)
         /\ Told(Doc!Suite(o)) =
              {"host", "git", "toolchains", "tools", "workspace"}
              \union (IF o.remote THEN {"docker", "ssh", "assets"} ELSE {})
<1> DEFINE a == <<"host", "git", "toolchains">>
           b == IF o.remote THEN <<"docker", "ssh">> ELSE <<>>
           c == <<"tools", "workspace">>
           d == IF o.remote THEN <<"assets">> ELSE <<>>
<1>1. Doc!Suite(o) = ((a \o b) \o c) \o d
  BY DEF Doc!Suite
<1>2. /\ a \in Seq(DoctorChecks) /\ c \in Seq(DoctorChecks)
      /\ Told(a) = {"host", "git", "toolchains"} /\ Told(c) = {"tools", "workspace"}
  BY ToldOf DEF DoctorChecks
<1>3. b \in Seq(DoctorChecks) /\ d \in Seq(DoctorChecks)
  <2>1. /\ <<"docker", "ssh">> \in Seq(DoctorChecks) /\ <<"assets">> \in Seq(DoctorChecks)
        /\ <<>> \in Seq(DoctorChecks)
    BY DEF DoctorChecks
  <2> QED
    BY <2>1
<1>4. /\ Told(b) = IF o.remote THEN {"docker", "ssh"} ELSE {}
      /\ Told(d) = IF o.remote THEN {"assets"} ELSE {}
  BY ToldOf
<1> HIDE DEF a, b, c, d
<1> DEFINE ab == a \o b
<1>5. ab \in Seq(DoctorChecks) /\ Told(ab) = Told(a) \union Told(b)
  BY <1>2, <1>3, ToldConcat
<1> HIDE DEF ab
<1> DEFINE abc == ab \o c
<1>6. abc \in Seq(DoctorChecks) /\ Told(abc) = Told(ab) \union Told(c)
  BY <1>2, <1>5, ToldConcat
<1> HIDE DEF abc
<1>7. abc \o d \in Seq(DoctorChecks) /\ Told(abc \o d) = Told(abc) \union Told(d)
  BY <1>3, <1>6, ToldConcat
<1> QED
  BY <1>1, <1>2, <1>4, <1>5, <1>6, <1>7 DEF ab, abc

(* The whole suite looks for every fault. *)
LEMMA SuiteFinds ==
  ASSUME NEW o \in Switches, NEW m, NEW f \in Doc!Faults(m, o)
  PROVE  \E c \in Told(Doc!Suite(o)) : FoundBy(c, f)
<1>1. FaultOf(f, m, o)
  BY FaultsAre
<1>2. /\ {"host", "git", "toolchains", "workspace"} \subseteq Told(Doc!Suite(o))
      /\ o.remote => {"docker", "assets"} \subseteq Told(Doc!Suite(o))
  BY SuiteIs
<1>3. CASE f = "host"
  BY <1>2, <1>3 DEF FoundBy
<1>4. CASE f = "git"
  BY <1>2, <1>4 DEF FoundBy
<1>5. CASE f \in {"go", "module", "node", "bun"}
  <2>1. FoundBy("toolchains", f)
    BY <1>5 DEF FoundBy
  <2> QED
    BY <1>2, <2>1
<1>6. CASE f = "repos"
  BY <1>2, <1>6 DEF FoundBy
<1>7. CASE f \in {"docker", "compose"} /\ o.remote
  <2>1. FoundBy("docker", f)
    BY <1>7 DEF FoundBy
  <2> QED
    BY <1>2, <1>7, <2>1
<1>8. CASE f = "assets" /\ o.remote
  BY <1>2, <1>8 DEF FoundBy
<1> QED
  BY <1>1, <1>3, <1>4, <1>5, <1>6, <1>7, <1>8 DEF FaultOf

-----------------------------------------------------------------------------
(* The machine under changes, and under the recipes. *)
LEMMA MachineChanges ==
  ASSUME NEW m \in MachineType, NEW a \in DOMAIN Doc!Values, NEW v \in Doc!Values[a]
  PROVE  [m EXCEPT ![a] = v] \in MachineType
BY DEF MachineType, Doc!Values

LEMMA HealthyType == Doc!Healthy \in MachineType
BY DEF Doc!Healthy, MachineType

(* A recipe writes to what it is for, and makes no other fault. *)
Differ(m, n) == {a \in DOMAIN Doc!Values : m[a] # n[a]}

LEMMA HealedIs ==
  ASSUME NEW m
  PROVE  /\ Doc!Healed("zsh", m) = Doc!ZshHealed(m)
         /\ Doc!Healed("git", m) = Doc!GitHealed(m)
         /\ Doc!Healed("bun", m) = Doc!BunHealed(m)
         /\ Doc!Healed("node", m) = Doc!NodeHealed(m)
         /\ Doc!Healed("daemon", m) = Doc!DaemonHealed(m)
         /\ Doc!Healed("compose", m) = Doc!ComposeHealed(m)
         /\ Doc!Healed("caddy", m) = Doc!CaddyHealed(m)
BY DEF Doc!Healed

(* One field of the machine takes another value. *)
LEMMA OneField ==
  ASSUME NEW m \in MachineType, NEW o,
         NEW a \in {"shell", "git", "bun", "node", "compose", "docker", "caddy", "key",
                    "assets", "own", "linked"}, NEW v \in Doc!Values[a]
  PROVE  LET n == [m EXCEPT ![a] = v]
         IN  /\ n \in MachineType /\ Differ(m, n) \subseteq {a}
             /\ a = "shell" /\ v = TRUE => Doc!Faults(n, o) \subseteq Doc!Faults(m, o)
             /\ a = "git" /\ v = TRUE => Doc!Faults(n, o) \subseteq Doc!Faults(m, o)
             /\ a = "bun" /\ v = 2 => Doc!Faults(n, o) \subseteq Doc!Faults(m, o)
             /\ a = "node" /\ v = 2 => Doc!Faults(n, o) \subseteq Doc!Faults(m, o)
             /\ a = "compose" /\ v = TRUE => Doc!Faults(n, o) \subseteq Doc!Faults(m, o)
             /\ a = "docker" /\ (v = "running" \/ m.docker # "running")
                  => Doc!Faults(n, o) \subseteq Doc!Faults(m, o)
             /\ a \in {"caddy", "key"} => Doc!Faults(n, o) \subseteq Doc!Faults(m, o)
             /\ a = "assets" /\ v = "complete" /\ m.net
                  => Doc!Faults(n, o) \subseteq Doc!Faults(m, o)
             /\ a \in {"own", "linked"}
                  => Doc!Faults(n, o) \ {"go"} \subseteq Doc!Faults(m, o)
<1> DEFINE n == [m EXCEPT ![a] = v]
<1>0. a \in DOMAIN Doc!Values
  BY DEF Doc!Values
<1>1. n \in MachineType
  BY <1>0, MachineChanges
<1>2. Differ(m, n) \subseteq {a}
  BY DEF Differ, MachineType, Doc!Values
<1>3. ASSUME NEW f, FaultOf(f, n, o), f # "go",
             \/ a = "shell" /\ v = TRUE
             \/ a = "git" /\ v = TRUE
             \/ a = "bun" /\ v = 2
             \/ a = "node" /\ v = 2
             \/ a = "compose" /\ v = TRUE
             \/ a = "docker" /\ (v = "running" \/ m.docker # "running")
             \/ a \in {"caddy", "key", "own", "linked"}
             \/ a = "assets" /\ v = "complete" /\ m.net
      PROVE  FaultOf(f, m, o)
  BY <1>3 DEF FaultOf, MachineType
<1>4. a \notin {"own", "linked"} => Doc!Go(n) = Doc!Go(m) /\ Doc!Floor(n) = Doc!Floor(m)
  BY DEF Doc!Go, Doc!Floor, MachineType
<1>5. ASSUME a \notin {"own", "linked"}, FaultOf("go", n, o)
      PROVE  FaultOf("go", m, o)
  BY <1>4, <1>5 DEF FaultOf
<1> HIDE DEF n
<1> QED
  BY <1>1, <1>2, <1>3, <1>5, FaultsAre DEF n

LEMMA HealedWrites ==
  ASSUME NEW m \in MachineType, NEW h \in RecipeNames \ {"go"}, NEW n \in Doc!Healed(h, m), NEW o
  PROVE  /\ n \in MachineType /\ Differ(m, n) \subseteq Writes(h)
         /\ Doc!Faults(n, o) \subseteq Doc!Faults(m, o)
<1>0. m \in MachineType /\ Differ(m, m) = {}
  BY DEF Differ
<1>1. CASE h = "zsh"
  <2>1. n = m \/ n = [m EXCEPT !["shell"] = TRUE]
    BY <1>1, HealedIs DEF Doc!ZshHealed
  <2>2. Writes(h) = {"shell"} /\ TRUE \in Doc!Values["shell"]
    BY <1>1 DEF Writes, Doc!Values
  <2>3. CASE n = [m EXCEPT !["shell"] = TRUE]
    BY <2>2, <2>3, OneField
  <2> QED
    BY <1>0, <2>1, <2>3
<1>2. CASE h = "git"
  <2>1. n = [m EXCEPT !["git"] = TRUE]
    BY <1>2, HealedIs DEF Doc!GitHealed
  <2>2. Writes(h) = {"git"} /\ TRUE \in Doc!Values["git"]
    BY <1>2 DEF Writes, Doc!Values
  <2> QED
    BY <2>1, <2>2, OneField
<1>3. CASE h = "bun"
  <2>1. n = [m EXCEPT !["bun"] = 2]
    BY <1>3, HealedIs DEF Doc!BunHealed
  <2>2. Writes(h) = {"bun"} /\ 2 \in Doc!Values["bun"]
    BY <1>3 DEF Writes, Doc!Values
  <2> QED
    BY <2>1, <2>2, OneField
<1>4. CASE h = "node"
  <2>1. n = [m EXCEPT !["node"] = IF m.node < 2 THEN 2 ELSE m.node]
    BY <1>4, HealedIs DEF Doc!NodeHealed, MachineType
  <2>2. Writes(h) = {"node"} /\ 2 \in Doc!Values["node"]
    BY <1>4 DEF Writes, Doc!Values
  <2>3. CASE m.node < 2
    BY <2>1, <2>2, <2>3, OneField
  <2>4. CASE ~(m.node < 2)
    <3>1. n = m
      BY <2>1, <2>4 DEF MachineType
    <3> QED
      BY <1>0, <3>1
  <2> QED
    BY <2>3, <2>4
<1>5. CASE h = "daemon"
  <2> DEFINE x == [m EXCEPT !["compose"] = TRUE]
             d == IF m.docker = "running" THEN "running" ELSE "stopped"
  <2>1. x \in MachineType /\ Differ(m, x) \subseteq {"compose"}
        /\ Doc!Faults(x, o) \subseteq Doc!Faults(m, o) /\ x.docker = m.docker
    <3>1. TRUE \in Doc!Values["compose"]
      BY DEF Doc!Values
    <3>2. x.docker = m.docker
      BY DEF MachineType
    <3> QED
      BY <3>1, <3>2, OneField
  <2>2. n \in {m, [x EXCEPT !["docker"] = "running"], [x EXCEPT !["docker"] = d]}
    <3>1. n \in { m, [m EXCEPT !["docker"] = "running", !["compose"] = TRUE],
                  [m EXCEPT !["docker"] = d, !["compose"] = TRUE] }
      BY <1>5, HealedIs DEF Doc!DaemonHealed, MachineType
    <3>2. \A v : [m EXCEPT !["docker"] = v, !["compose"] = TRUE] = [x EXCEPT !["docker"] = v]
      BY DEF MachineType
    <3> QED
      BY <3>1, <3>2
  <2>3. Writes(h) = {"docker", "compose"} /\ {"running", "stopped"} \subseteq Doc!Values["docker"]
    BY <1>5 DEF Writes, Doc!Values
  <2> HIDE DEF x
  <2>4. ASSUME NEW v \in {"running", "stopped"}, v = "running" \/ m.docker # "running",
               n = [x EXCEPT !["docker"] = v]
        PROVE  /\ n \in MachineType /\ Differ(x, n) \subseteq {"docker"}
               /\ Doc!Faults(n, o) \subseteq Doc!Faults(x, o)
    BY <2>1, <2>3, <2>4, OneField
  <2>5. Differ(x, n) \subseteq {"docker"} => Differ(m, n) \subseteq {"docker", "compose"}
    BY <2>1 DEF Differ
  <2>6. CASE n = m
    BY <1>0, <2>6
  <2>7. CASE n = [x EXCEPT !["docker"] = "running"]
    BY <2>1, <2>3, <2>4, <2>5, <2>7
  <2>8. CASE n = [x EXCEPT !["docker"] = d]
    BY <2>1, <2>3, <2>4, <2>5, <2>8
  <2> QED
    BY <2>2, <2>6, <2>7, <2>8
<1>6. CASE h = "compose"
  <2>1. n = [m EXCEPT !["compose"] = TRUE]
    BY <1>6, HealedIs DEF Doc!ComposeHealed
  <2>2. Writes(h) = {"compose"} /\ TRUE \in Doc!Values["compose"]
    BY <1>6 DEF Writes, Doc!Values
  <2> QED
    BY <2>1, <2>2, OneField
<1>7. CASE h = "caddy"
  <2>1. n = [m EXCEPT !["caddy"] = TRUE]
    BY <1>7, HealedIs DEF Doc!CaddyHealed
  <2>2. Writes(h) = {"caddy"} /\ TRUE \in Doc!Values["caddy"]
    BY <1>7 DEF Writes, Doc!Values
  <2> QED
    BY <2>1, <2>2, OneField
<1> QED
  BY <1>1, <1>2, <1>3, <1>4, <1>5, <1>6, <1>7 DEF RecipeNames

LEMMA GoWrites ==
  ASSUME NEW m \in MachineType, NEW o, NEW n \in {[m EXCEPT !.own = 0], Doc!GoUnpacked(m)}
  PROVE  /\ n \in MachineType /\ Differ(m, n) \subseteq Writes("go")
         /\ Doc!Faults(n, o) \ {"go"} \subseteq Doc!Faults(m, o)
<1>0. /\ Writes("go") = {"own", "linked"} /\ {0, 2} \subseteq Doc!Values["own"]
      /\ TRUE \in Doc!Values["linked"]
  BY DEF Writes, Doc!Values
<1>1. CASE n = [m EXCEPT !["own"] = 0]
  BY <1>0, <1>1, OneField
<1>2. CASE n = Doc!GoUnpacked(m)
  <2> DEFINE x == [m EXCEPT !["own"] = 2]
  <2>1. n = [x EXCEPT !["linked"] = TRUE]
    BY <1>2 DEF Doc!GoUnpacked, MachineType
  <2>2. /\ x \in MachineType /\ Differ(m, x) \subseteq {"own"}
        /\ Doc!Faults(x, o) \ {"go"} \subseteq Doc!Faults(m, o)
    BY <1>0, OneField
  <2> HIDE DEF x
  <2>3. /\ n \in MachineType /\ Differ(x, n) \subseteq {"linked"}
        /\ Doc!Faults(n, o) \ {"go"} \subseteq Doc!Faults(x, o)
    BY <1>0, <2>1, <2>2, OneField
  <2>4. Differ(m, n) \subseteq {"own", "linked"}
    BY <2>2, <2>3 DEF Differ
  <2> QED
    BY <1>0, <2>2, <2>3, <2>4
<1> QED
  BY <1>1, <1>2

-----------------------------------------------------------------------------
(* Each action keeps the invariant.  What it says of the next state: *)
LEMMA DoctorInvNext ==
  ASSUME DoctorTypes',
         visit'.at \in {"check", "done"} =>
           /\ \A f \in steady' : \/ Alarm(visit'.report)
                                 \/ \E c \in Told(visit'.todo) : FoundBy(c, f)
           /\ Alarm(visit'.report) => ever' # {} \/ visit'.late,
         \A r \in Told(visit'.report), h \in RecipeNames :
           r.status # "OK" /\ Doc!CanHeal(h, r) => Reason(h)',
         \A p \in visit'.queue :
           /\ \A h \in RecipeNames : h = Doc!Recipes[p[2]] => Reason(h)'
           /\ \A i \in DOMAIN visit'.ran : visit'.ran[i] # Doc!Recipes[p[2]]
           /\ \A q \in visit'.queue : p[2] = q[2] => p = q,
         \A i, j \in DOMAIN visit'.ran : visit'.ran[i] = visit'.ran[j] => i = j,
         visit'.at = "unpack" => Reason("go")',
         visit'.opts.accept => visit'.opts.remote /\ visit'.opts.fix,
         visit'.repairs \/ visit'.at \in {"heal", "unpack"} => visit'.opts.fix,
         \A c \in Told(visit'.todo) : c \in {"docker", "ssh", "assets"} => visit'.opts.remote,
         visit'.at = "idle" => /\ visit'.report = <<>> /\ visit'.queue = {} /\ visit'.ran = <<>>
                               /\ ~visit'.again /\ ~visit'.late /\ ~visit'.repairs,
         visit'.at = "check" => visit'.queue = {} /\ (visit'.again \/ visit'.ran = <<>>),
         visit'.at = "done" =>
           visit'.todo = <<>> /\ visit'.code = IF Alarm(visit'.report) THEN 1 ELSE 0
  PROVE  DoctorInv'
<1>1. DiagnosisOK'
  BY DEF DiagnosisOK, Alarm, Told, FoundBy
<1>2. QueueOK'
  <2>1. \A r, h : Doc!CanHeal(h, r)' = Doc!CanHeal(h, r)
    BY DEF Doc!CanHeal, Doc!ZshCanHeal, Doc!GoCanHeal
  <2>2. Doc!Recipes' = Doc!Recipes
    BY DEF Doc!Recipes
  <2>3. Told(visit.report)' = Told(visit'.report)
    BY DEF Told
  <2>4. RecipeNames' = RecipeNames
    BY DEF RecipeNames
  <2> QED
    BY <2>1, <2>2, <2>3, <2>4 DEF QueueOK
<1>3. FlagsOK'
  BY DEF FlagsOK, Doc!Valid, Told
<1>4. VerdictOK'
  BY DEF VerdictOK, Alarm, Told, Doc!HasErrors
<1> QED
  BY <1>1, <1>2, <1>3, <1>4 DEF DoctorInv

LEMMA ReasonStays ==
  ASSUME NEW h, Reason(h), seen \subseteq seen', visit.late => visit'.late
  PROVE  Reason(h)'
BY DEF Reason, Writes, Doc!Remedied

LEMMA DoctorBounds ==
  /\ DoctorChanges \in Nat /\ Runs \subseteq Switches
  /\ \A o \in Runs : o.accept \in BOOLEAN /\ o.remote \in BOOLEAN
BY InspectAssumption DEF Switches

LEMMA AlarmIs ==
  ASSUME NEW s
  PROVE  Doc!HasErrors(s) <=> Alarm(s)
BY DEF Doc!HasErrors, Alarm, Told

LEMMA DoctorInit == Doc!Init => DoctorInv
<1> SUFFICES ASSUME Doc!Init PROVE DoctorInv
  OBVIOUS
<1>1. machine \in MachineType
  <2>1. PICK a \in DOMAIN Doc!Values :
          \E v \in Doc!Values[a] : machine = [Doc!Healthy EXCEPT ![a] = v]
    BY DEF Doc!Init
  <2> QED
    BY <2>1, HealthyType, MachineChanges
<1>2. visit \in DoctorJobs
  <2>1. Doc!None \in Switches
    BY DEF Doc!None, Switches
  <2>2. /\ <<>> \in Seq(DoctorChecks) /\ <<>> \in Seq(Results) /\ <<>> \in Seq(RecipeNames)
        /\ 0 \in 0..1
    OBVIOUS
  <2> QED
    BY <2>1, <2>2 DEF Doc!Init, DoctorJobs
<1>3. DoctorTypes
  BY <1>1, <1>2, DoctorBounds DEF Doc!Init, DoctorTypes
<1>4. /\ visit.at = "idle" /\ visit.report = <<>> /\ visit.queue = {} /\ visit.ran = <<>>
      /\ visit.todo = <<>> /\ ~visit.again /\ ~visit.late /\ ~visit.repairs
      /\ visit.opts = Doc!None
  BY DEF Doc!Init
<1>5. QueueOK
  BY <1>4, ToldOf DEF QueueOK
<1>6. FlagsOK
  BY <1>4, ToldOf DEF FlagsOK, Doc!None, Doc!Valid
<1> QED
  BY <1>3, <1>4, <1>5, <1>6 DEF DoctorInv, DiagnosisOK, VerdictOK

(* The command stands still, or ends. *)
LEMMA DoctorRests ==
  ASSUME DoctorInv, DoctorTypes', visit'.opts = visit.opts, visit'.todo = visit.todo,
         visit'.repairs = visit.repairs, visit'.report = visit.report,
         visit'.queue = visit.queue, visit'.ran = visit.ran, visit'.again = visit.again,
         visit'.late = visit.late,
         \/ visit'.at = visit.at /\ visit'.code = visit.code
         \/ visit'.at \in {"killed", "refused"}
         \/ /\ visit.at = "check" /\ visit'.at = "done" /\ visit'.todo = <<>>
            /\ visit'.code = IF Doc!HasErrors(visit.report) THEN 1 ELSE 0,
         steady' \subseteq steady, ever \subseteq ever', seen \subseteq seen'
  PROVE  DoctorInv'
<1>1. /\ \A r \in Told(visit'.report), h \in RecipeNames :
           r.status # "OK" /\ Doc!CanHeal(h, r) => Reason(h)'
      /\ \A p \in visit'.queue, h \in RecipeNames :
           h = Doc!Recipes[p[2]] => Reason(h)'
      /\ visit'.at = "unpack" => Reason("go")'
  BY ReasonStays DEF DoctorInv, QueueOK
<1>2. visit'.at = "done" =>
        visit'.todo = <<>> /\ visit'.code = IF Alarm(visit'.report) THEN 1 ELSE 0
  BY AlarmIs DEF DoctorInv, VerdictOK
<1>3. visit'.at \in {"check", "done"} =>
        /\ \A f \in steady' : \/ Alarm(visit'.report)
                              \/ \E c \in Told(visit'.todo) : FoundBy(c, f)
        /\ Alarm(visit'.report) => ever' # {} \/ visit'.late
  BY DEF DoctorInv, DiagnosisOK
<1> QED
  BY <1>1, <1>2, <1>3, DoctorInvNext DEF DoctorInv, QueueOK, FlagsOK, Doc!Valid

LEMMA DoctorChange == DoctorInv /\ Doc!Change => DoctorInv'
<1> SUFFICES ASSUME DoctorInv, Doc!Change PROVE DoctorInv'
  OBVIOUS
<1>1. /\ steady' \subseteq steady /\ ever \subseteq ever' /\ seen \subseteq seen'
      /\ visit' = visit /\ changes' = changes + 1 /\ changes < DoctorChanges
  BY DEF Doc!Change, Doc!Remember
<1>2. machine' \in MachineType
  <2>1. PICK a \in DOMAIN Doc!Values : \E v \in Doc!Values[a] : machine' = [machine EXCEPT ![a] = v]
    BY DEF Doc!Change
  <2> QED
    BY <2>1, MachineChanges DEF DoctorInv, DoctorTypes
<1>3. DoctorTypes'
  <2>1. changes' \in 0..DoctorChanges
    BY <1>1, DoctorBounds DEF DoctorInv, DoctorTypes
  <2> QED
    BY <1>1, <1>2, <2>1 DEF DoctorInv, DoctorTypes
<1> QED
  BY <1>1, <1>3, DoctorRests

LEMMA DoctorStill == DoctorInv /\ UNCHANGED doctorVars => DoctorInv'
<1> SUFFICES ASSUME DoctorInv, UNCHANGED doctorVars PROVE DoctorInv'
  OBVIOUS
<1>1. DoctorTypes' /\ visit' = visit /\ steady' = steady /\ ever' = ever /\ seen' = seen
  BY DEF DoctorInv, DoctorTypes, doctorVars
<1> QED
  BY <1>1, DoctorRests

LEMMA DoctorKill == DoctorInv /\ Doc!Kill => DoctorInv'
<1> SUFFICES ASSUME DoctorInv, Doc!Kill PROVE DoctorInv'
  OBVIOUS
<1>1. /\ visit' = [visit EXCEPT !.at = "killed"] /\ visit \in DoctorJobs
      /\ UNCHANGED <<machine, steady, ever, seen, changes>>
  BY DEF Doc!Kill, DoctorInv, DoctorTypes
<1>2. DoctorTypes'
  BY <1>1 DEF DoctorInv, DoctorTypes, DoctorJobs
<1> QED
  BY <1>1, <1>2, DoctorRests DEF DoctorJobs

LEMMA DoctorExit == DoctorInv /\ Doc!Exit => DoctorInv'
<1> SUFFICES ASSUME DoctorInv, Doc!Exit PROVE DoctorInv'
  OBVIOUS
<1> DEFINE n == IF Doc!HasErrors(visit.report) THEN 1 ELSE 0
<1>1. /\ visit' = [visit EXCEPT !.at = "done", !.code = n] /\ visit \in DoctorJobs
      /\ visit.at = "check" /\ visit.todo = <<>>
      /\ UNCHANGED <<machine, steady, ever, seen, changes>>
  BY DEF Doc!Exit, DoctorInv, DoctorTypes
<1>2. n \in 0..1
  OBVIOUS
<1>3. DoctorTypes'
  BY <1>1, <1>2 DEF DoctorInv, DoctorTypes, DoctorJobs
<1>4. /\ visit'.at = "done" /\ visit'.code = n /\ visit'.todo = <<>>
      /\ visit'.opts = visit.opts /\ visit'.todo = visit.todo
      /\ visit'.repairs = visit.repairs /\ visit'.report = visit.report
      /\ visit'.queue = visit.queue /\ visit'.ran = visit.ran /\ visit'.again = visit.again
      /\ visit'.late = visit.late
  BY <1>1 DEF DoctorJobs
<1> QED
  BY <1>1, <1>3, <1>4, DoctorRests

LEMMA DoctorStart == DoctorInv /\ (\E o \in Runs : Doc!Start(o)) => DoctorInv'
<1> SUFFICES ASSUME DoctorInv, NEW o \in Runs, Doc!Start(o) PROVE DoctorInv'
  OBVIOUS
<1>0. visit.at = "idle" /\ visit \in DoctorJobs /\ UNCHANGED <<machine, changes>>
  BY DEF Doc!Start, DoctorInv, DoctorTypes
<1>1. CASE Doc!Valid(o)
  <2>1. /\ visit' = [ visit EXCEPT !.at = "check", !.opts = o, !.todo = Doc!Suite(o),
                        !.repairs = o.fix ]
        /\ steady' = Doc!Faults(machine, o) /\ ever' = Doc!Faults(machine, o)
        /\ seen' = Doc!Complaints(machine, o)
    BY <1>1 DEF Doc!Start
  <2>2. o \in Switches /\ o.fix \in BOOLEAN
    BY DoctorBounds DEF Switches
  <2>3. Doc!Suite(o) \in Seq(DoctorChecks)
    BY <2>2, SuiteIs
  <2>4. /\ visit' \in DoctorJobs /\ visit'.at = "check" /\ visit'.opts = o
        /\ visit'.todo = Doc!Suite(o) /\ visit'.repairs = o.fix
        /\ visit'.report = visit.report /\ visit'.queue = visit.queue
        /\ visit'.ran = visit.ran /\ visit'.late = visit.late
    BY <1>0, <2>1, <2>2, <2>3 DEF DoctorJobs
  <2>5. visit'.report = <<>> /\ visit'.queue = {} /\ visit'.ran = <<>>
    BY <1>0, <2>4 DEF DoctorInv, FlagsOK
  <2>6. Told(visit'.report) = {} /\ ~Alarm(visit'.report)
    BY <2>5, ToldOf DEF Alarm
  <2>7. \A f \in steady' : \E c \in Told(visit'.todo) : FoundBy(c, f)
    BY <2>1, <2>2, <2>4, SuiteFinds
  <2>8. \A c \in Told(visit'.todo) : c \in {"docker", "ssh", "assets"} => o.remote
    BY <2>2, <2>4, SuiteIs
  <2>9. DoctorTypes'
    BY <1>0, <2>4 DEF DoctorInv, DoctorTypes
  <2>10. o.accept => o.remote /\ o.fix
    BY <1>1 DEF Doc!Valid
  <2> QED
    BY <2>4, <2>5, <2>6, <2>7, <2>8, <2>9, <2>10, DoctorInvNext
<1>2. CASE ~Doc!Valid(o)
  <2>1. visit' = [visit EXCEPT !.at = "refused"] /\ UNCHANGED <<steady, ever, seen>>
    BY <1>2 DEF Doc!Start
  <2>2. DoctorTypes'
    BY <1>0, <2>1 DEF DoctorInv, DoctorTypes, DoctorJobs
  <2> QED
    BY <1>0, <2>1, <2>2, DoctorRests DEF DoctorJobs
<1> QED
  BY <1>1, <1>2

LEMMA DoctorRerun == DoctorInv /\ Doc!Rerun => DoctorInv'
<1> SUFFICES ASSUME DoctorInv, Doc!Rerun PROVE DoctorInv'
  OBVIOUS
<1> DEFINE o == visit.opts
<1>0. /\ visit.at = "heal" /\ visit.queue = {} /\ visit \in DoctorJobs
      /\ visit' = [ visit EXCEPT !.at = "check", !.todo = Doc!Suite(visit.opts), !.again = TRUE,
                      !.repairs = visit.opts.json, !.report = <<>>, !.late = FALSE ]
      /\ steady' = Doc!Faults(machine, o) /\ UNCHANGED <<machine, seen, changes>>
  BY DEF Doc!Rerun, DoctorInv, DoctorTypes
<1>1. o \in Switches /\ o.json \in BOOLEAN
  BY <1>0 DEF DoctorJobs, Switches
<1>2. Doc!Suite(visit.opts) \in Seq(DoctorChecks) /\ <<>> \in Seq(Results)
  BY <1>1, SuiteIs
<1>3. /\ visit' \in DoctorJobs /\ visit'.at = "check" /\ visit'.opts = o
      /\ visit'.todo = Doc!Suite(o) /\ visit'.repairs = o.json /\ visit'.again
      /\ visit'.report = <<>> /\ visit'.queue = {} /\ visit'.ran = visit.ran
      /\ ~visit'.late
  BY <1>0, <1>1, <1>2 DEF DoctorJobs
<1>4. Told(visit'.report) = {} /\ ~Alarm(visit'.report)
  BY <1>3, ToldOf DEF Alarm
<1>5. \A f \in steady' : \E c \in Told(visit'.todo) : FoundBy(c, f)
  BY <1>0, <1>1, <1>3, SuiteFinds
<1>6. \A c \in Told(visit'.todo) : c \in {"docker", "ssh", "assets"} => o.remote
  BY <1>1, <1>3, SuiteIs
<1>7. DoctorTypes'
  BY <1>0, <1>3 DEF DoctorInv, DoctorTypes
<1>8. /\ o.accept => o.remote /\ o.fix
      /\ o.fix
      /\ \A i, j \in DOMAIN visit'.ran : visit'.ran[i] = visit'.ran[j] => i = j
  BY <1>0, <1>3 DEF DoctorInv, FlagsOK, QueueOK, Doc!Valid
<1> HIDE DEF o
<1> QED
  BY <1>3, <1>4, <1>5, <1>6, <1>7, <1>8, DoctorInvNext

(* A check is added to the report. *)
LEMMA DoctorProbe == DoctorInv /\ Doc!Probe => DoctorInv'
<1> SUFFICES ASSUME DoctorInv, Doc!Probe PROVE DoctorInv'
  OBVIOUS
<1> DEFINE c == Head(visit.todo)
           o == visit.opts
<1>1. PICK late \in {{}} \union {{p} : p \in Doc!Probes(c, visit.repairs)} :
        /\ late # {} => changes < DoctorChanges
        /\ changes' = changes + (IF late = {} THEN 0 ELSE 1)
        /\ machine' =
             IF c = "ssh" /\ visit.opts.accept THEN [machine EXCEPT !.key = TRUE]
             ELSE IF /\ c = "assets" /\ visit.repairs /\ machine.net
                     /\ machine.assets = "missing" /\ late = {}
                  THEN [machine EXCEPT !.assets = "complete"] ELSE machine
        /\ visit' = [ visit EXCEPT !.todo = Tail(@),
                      !.report = @ \o Doc!Check(c, machine', late),
                      !.late = @ \/ late # {} ]
  BY DEF Doc!Probe
<1> DEFINE new == Doc!Check(c, machine', late)
<1>2. /\ visit.at = "check" /\ visit.todo # <<>> /\ visit \in DoctorJobs
      /\ machine \in MachineType /\ changes \in 0..DoctorChanges
      /\ steady' \subseteq Doc!Faults(machine', o) /\ steady' \subseteq steady
      /\ Doc!Faults(machine', o) \subseteq ever' /\ ever \subseteq ever'
      /\ Doc!Complaints(machine', o) \subseteq seen' /\ seen \subseteq seen'
  BY DEF Doc!Probe, Doc!Remember, DoctorInv, DoctorTypes
<1>3. machine' \in MachineType
  <2>1. [machine EXCEPT !["key"] = TRUE] \in MachineType
    <3>1. TRUE \in Doc!Values["key"]
      BY DEF Doc!Values
    <3> QED
      BY <1>2, <3>1, OneField
  <2>2. [machine EXCEPT !["assets"] = "complete"] \in MachineType
    <3>1. "complete" \in Doc!Values["assets"]
      BY DEF Doc!Values
    <3> QED
      BY <1>2, <3>1, OneField
  <2> QED
    BY <1>1, <1>2, <2>1, <2>2
<1>4. /\ c \in DoctorChecks /\ Tail(visit.todo) \in Seq(DoctorChecks)
      /\ Told(visit.todo) = {c} \union Told(Tail(visit.todo))
      /\ o \in Switches
  BY <1>2, ToldTail DEF DoctorJobs
<1> HIDE DEF c
<1>5. new \in Seq(Results)
  BY <1>3, <1>4, CheckGives
<1> HIDE DEF new
<1> DEFINE both == visit.report \o new
           slow == visit.late \/ late # {}
<1>6. both \in Seq(Results) /\ Told(both) = Told(visit.report) \union Told(new)
  BY <1>2, <1>5, ToldConcat DEF DoctorJobs
<1> HIDE DEF both
<1>7. visit' = [visit EXCEPT !.todo = Tail(visit.todo), !.report = both, !.late = slow]
  BY <1>1, <1>2 DEF both, new, DoctorJobs
<1>8. slow \in BOOLEAN
  OBVIOUS
<1>9. /\ visit' \in DoctorJobs /\ visit'.at = "check" /\ visit'.opts = o
      /\ visit'.todo = Tail(visit.todo) /\ visit'.repairs = visit.repairs
      /\ visit'.again = visit.again /\ visit'.report = both /\ visit'.queue = visit.queue
      /\ visit'.ran = visit.ran /\ visit'.late = slow
  BY <1>2, <1>4, <1>6, <1>7, <1>8 DEF DoctorJobs
<1>10. DoctorTypes'
  <2>1. changes' \in 0..DoctorChanges
    BY <1>1, <1>2, DoctorBounds
  <2> QED
    BY <1>3, <1>9, <2>1 DEF DoctorTypes
<1>11. c \in {"docker", "ssh", "assets"} => o.remote
  BY <1>4 DEF DoctorInv, FlagsOK
<1>12. Alarm(both) <=> Alarm(visit.report) \/ Alarm(new)
  BY <1>6 DEF Alarm
<1>13. ASSUME NEW f \in steady'
       PROVE  Alarm(both) \/ \E k \in Told(Tail(visit.todo)) : FoundBy(k, f)
  <2>1. \/ Alarm(visit.report) \/ FoundBy(c, f)
        \/ \E k \in Told(Tail(visit.todo)) : FoundBy(k, f)
    BY <1>2, <1>4, <1>13 DEF DoctorInv, DiagnosisOK
  <2>2. FaultOf(f, machine', o)
    BY <1>2, <1>13, FaultsAre
  <2>3. FoundBy(c, f) => Alarm(new)
    BY <1>3, <1>4, <2>2, CheckSees DEF new
  <2> QED
    BY <1>12, <2>1, <2>3
<1>14. ASSUME NEW r \in Told(new), r.status # "OK", late = {}
       PROVE  /\ r.status = "ERROR" => \E f : FaultOf(f, machine', o)
              /\ \A h \in RecipeNames : Doc!CanHeal(h, r) =>
                   \E k \in Doc!Complaints(machine', o) : Writes(h) \subseteq Doc!Remedied(k)
  BY <1>3, <1>4, <1>11, <1>14, CheckSays DEF new
<1>15. Alarm(both) => ever' # {} \/ slow
  <2>1. CASE Alarm(visit.report)
    BY <1>2, <2>1 DEF DoctorInv, DiagnosisOK
  <2>2. CASE Alarm(new) /\ late = {}
    <3>1. \E f : FaultOf(f, machine', o)
      BY <1>14, <2>2 DEF Alarm
    <3> QED
      BY <1>2, <3>1, FaultsAre
  <2> QED
    BY <1>12, <2>1, <2>2
<1>16. ASSUME NEW r \in Told(both), NEW h \in RecipeNames, r.status # "OK", Doc!CanHeal(h, r)
       PROVE  Reason(h)'
  <2>1. CASE r \in Told(visit.report)
    <3>1. Reason(h)
      BY <1>16, <2>1 DEF DoctorInv, QueueOK
    <3> QED
      BY <1>2, <1>9, <3>1, ReasonStays
  <2>2. CASE r \in Told(new) /\ late = {}
    <3>1. \E k \in seen' : Writes(h) \subseteq Doc!Remedied(k)
      BY <1>2, <1>14, <1>16, <2>2
    <3> QED
      BY <3>1 DEF Reason, Writes, Doc!Remedied
  <2>3. CASE late # {}
    BY <1>9, <2>3 DEF Reason
  <2> QED
    BY <1>6, <1>16, <2>1, <2>2, <2>3
<1>17. visit.queue = {} /\ (visit.again \/ visit.ran = <<>>)
  BY <1>2 DEF DoctorInv, FlagsOK
<1>18. /\ \A i, j \in DOMAIN visit.ran : visit.ran[i] = visit.ran[j] => i = j
       /\ o.accept => o.remote /\ o.fix
       /\ visit.repairs => o.fix
       /\ \A k \in Told(Tail(visit.todo)) : k \in {"docker", "ssh", "assets"} => o.remote
  BY <1>4 DEF DoctorInv, QueueOK, FlagsOK, Doc!Valid
<1> HIDE DEF o, slow
<1> QED
  BY <1>9, <1>10, <1>13, <1>15, <1>16, <1>17, <1>18, DoctorInvNext

(* The first diagnosis asks for its recipes: each of them once. *)
LEMMA DoctorPrescribe == DoctorInv /\ Doc!Prescribe => DoctorInv'
<1> SUFFICES ASSUME DoctorInv, Doc!Prescribe PROVE DoctorInv'
  OBVIOUS
<1> DEFINE queue == Doc!FindHealers(visit.report)
<1>1. /\ visit.at = "check" /\ visit.opts.fix /\ ~visit.again /\ visit \in DoctorJobs
      /\ visit' = [visit EXCEPT !.at = "heal", !.queue = queue]
      /\ UNCHANGED <<machine, steady, ever, seen, changes>>
  BY DEF Doc!Prescribe, DoctorInv, DoctorTypes
<1>2. DOMAIN visit.report \subseteq Nat /\ DOMAIN Doc!Recipes = 1..8
  BY <1>1, RecipesAre DEF DoctorJobs
<1>3. /\ queue \subseteq (DOMAIN visit.report) \X (1..8)
      /\ \A p \in queue : /\ visit.report[p[1]].status # "OK"
                          /\ Doc!CanHeal(Doc!Recipes[p[2]], visit.report[p[1]])
                          /\ \A i \in 1..(p[1] - 1) : ~Doc!Answers(p[2], visit.report[i])
                          /\ Doc!Answers(p[2], visit.report[p[1]])
  BY <1>2 DEF Doc!FindHealers, Doc!Answers
<1> HIDE DEF queue
<1>4. queue \subseteq Nat \X (1..8)
  BY <1>2, <1>3
<1>5. /\ visit' \in DoctorJobs /\ visit'.at = "heal" /\ visit'.opts = visit.opts
      /\ visit'.todo = visit.todo /\ visit'.repairs = visit.repairs
      /\ visit'.again = visit.again /\ visit'.report = visit.report /\ visit'.queue = queue
      /\ visit'.ran = visit.ran /\ visit'.late = visit.late
  BY <1>1, <1>4 DEF DoctorJobs
<1>6. DoctorTypes'
  BY <1>1, <1>5 DEF DoctorInv, DoctorTypes
<1>7. visit.ran = <<>>
  BY <1>1 DEF DoctorInv, FlagsOK
<1>8. ASSUME NEW p \in queue, NEW h \in RecipeNames, h = Doc!Recipes[p[2]]
      PROVE  Reason(h)'
  <2>1. visit.report[p[1]] \in Told(visit.report)
    BY <1>3 DEF Told
  <2>2. Reason(h)
    BY <1>3, <1>8, <2>1 DEF DoctorInv, QueueOK
  <2> QED
    BY <1>1, <1>5, <2>2, ReasonStays
<1>9. ASSUME NEW p \in queue, NEW q \in queue, p[2] = q[2]
      PROVE  p = q
  <2>1. /\ p[1] \in Nat /\ q[1] \in Nat /\ p = <<p[1], p[2]>> /\ q = <<q[1], q[2]>>
        /\ p[1] \in 1..Len(visit.report) /\ q[1] \in 1..Len(visit.report)
    <3>1. DOMAIN visit.report = 1..Len(visit.report)
      BY <1>1 DEF DoctorJobs
    <3> QED
      BY <1>3, <3>1
  <2>2. CASE p[1] < q[1]
    <3>1. p[1] \in 1..(q[1] - 1)
      BY <2>1, <2>2
    <3> QED
      BY <1>3, <1>9, <3>1
  <2>3. CASE q[1] < p[1]
    <3>1. q[1] \in 1..(p[1] - 1)
      BY <2>1, <2>3
    <3> QED
      BY <1>3, <1>9, <3>1
  <2> QED
    BY <1>9, <2>1, <2>2, <2>3
<1>10. ASSUME NEW r \in Told(visit'.report), NEW h \in RecipeNames,
              r.status # "OK", Doc!CanHeal(h, r)
       PROVE  Reason(h)'
  <2>1. Reason(h)
    BY <1>5, <1>10 DEF DoctorInv, QueueOK
  <2> QED
    BY <1>1, <1>5, <2>1, ReasonStays
<1>11. /\ visit.opts.accept => visit.opts.remote /\ visit.opts.fix
       /\ \A k \in Told(visit.todo) : k \in {"docker", "ssh", "assets"} => visit.opts.remote
  BY DEF DoctorInv, FlagsOK, Doc!Valid
<1> QED
  BY <1>1, <1>5, <1>6, <1>7, <1>8, <1>9, <1>10, <1>11, DoctorInvNext

(* A recipe ends. *)
LEMMA RecipeEnds ==
  ASSUME DoctorInv, visit.at \in {"heal", "unpack"}, NEW p \in visit.queue,
         visit' = Doc!Ended(p), machine' \in MachineType, seen \subseteq seen',
         changes' = changes
  PROVE  DoctorInv'
<1> DEFINE h == Doc!Recipes[p[2]]
           ran == Append(visit.ran, h)
           queue == visit.queue \ {p}
<1>1. /\ visit \in DoctorJobs /\ visit.opts.fix
      /\ visit' = [visit EXCEPT !.at = "heal", !.queue = queue, !.ran = ran]
  BY DEF Doc!Ended, DoctorInv, DoctorTypes, FlagsOK, DoctorJobs
<1>2. p[2] \in 1..8 /\ h \in RecipeNames /\ visit.ran \in Seq(RecipeNames)
  BY <1>1, RecipesAre DEF DoctorJobs
<1> HIDE DEF h
<1>3. /\ ran \in Seq(RecipeNames) /\ Len(visit.ran) \in Nat
      /\ DOMAIN visit.ran = 1..Len(visit.ran) /\ DOMAIN ran = 1..(Len(visit.ran) + 1)
      /\ \A i \in DOMAIN visit.ran : ran[i] = visit.ran[i]
      /\ ran[Len(visit.ran) + 1] = h
  BY <1>2
<1> HIDE DEF ran
<1>a. queue \in SUBSET (Nat \X (1..8))
  BY <1>1 DEF DoctorJobs
<1>b. \A q \in queue : q \in visit.queue /\ q # p
  OBVIOUS
<1> HIDE DEF queue
<1>4. /\ visit' \in DoctorJobs /\ visit'.at = "heal" /\ visit'.opts = visit.opts
      /\ visit'.todo = visit.todo /\ visit'.repairs = visit.repairs
      /\ visit'.again = visit.again /\ visit'.report = visit.report /\ visit'.queue = queue
      /\ visit'.ran = ran /\ visit'.late = visit.late
  BY <1>1, <1>3, <1>a DEF DoctorJobs
<1>5. DoctorTypes'
  BY <1>4 DEF DoctorInv, DoctorTypes
<1>6. ASSUME NEW i \in DOMAIN ran
      PROVE  \/ i \in DOMAIN visit.ran /\ ran[i] = visit.ran[i]
             \/ i = Len(visit.ran) + 1 /\ ran[i] = h
  BY <1>3
<1>7. /\ \A i \in DOMAIN visit.ran : visit.ran[i] # h
      /\ \A i, j \in DOMAIN visit.ran : visit.ran[i] = visit.ran[j] => i = j
  BY DEF DoctorInv, QueueOK, h
<1>8. \A i, j \in DOMAIN ran : ran[i] = ran[j] => i = j
  BY <1>6, <1>7
<1>9. ASSUME NEW q \in queue
      PROVE  /\ \A k \in RecipeNames : k = Doc!Recipes[q[2]] => Reason(k)'
             /\ \A i \in DOMAIN ran : ran[i] # Doc!Recipes[q[2]]
             /\ \A x \in queue : q[2] = x[2] => q = x
  <2>1. \A k \in RecipeNames : k = Doc!Recipes[q[2]] => Reason(k)'
    BY <1>4, <1>b, ReasonStays DEF DoctorInv, QueueOK
  <2>2. q[2] # p[2] /\ q[2] \in 1..8
    BY <1>1, <1>b DEF DoctorInv, QueueOK, DoctorJobs
  <2>3. Doc!Recipes[q[2]] # h
    BY <1>2, <2>2, RecipesAre DEF h
  <2>4. \A i \in DOMAIN visit.ran : visit.ran[i] # Doc!Recipes[q[2]]
    BY <1>b DEF DoctorInv, QueueOK
  <2>5. \A i \in DOMAIN ran : ran[i] # Doc!Recipes[q[2]]
    BY <1>6, <2>3, <2>4
  <2>6. \A x \in queue : q[2] = x[2] => q = x
    BY <1>b DEF DoctorInv, QueueOK
  <2> QED
    BY <2>1, <2>5, <2>6
<1>10. ASSUME NEW r \in Told(visit'.report), NEW k \in RecipeNames,
              r.status # "OK", Doc!CanHeal(k, r)
       PROVE  Reason(k)'
  <2>1. Reason(k)
    BY <1>4, <1>10 DEF DoctorInv, QueueOK
  <2> QED
    BY <1>4, <2>1, ReasonStays
<1>11. /\ visit.opts.accept => visit.opts.remote /\ visit.opts.fix
       /\ \A k \in Told(visit.todo) : k \in {"docker", "ssh", "assets"} => visit.opts.remote
  BY DEF DoctorInv, FlagsOK, Doc!Valid
<1> QED
  BY <1>1, <1>4, <1>5, <1>8, <1>9, <1>10, <1>11, DoctorInvNext

LEMMA DoctorTreat == DoctorInv /\ (\E p \in visit.queue : Doc!Treat(p)) => DoctorInv'
<1> SUFFICES ASSUME DoctorInv, NEW p \in visit.queue, Doc!Treat(p) PROVE DoctorInv'
  OBVIOUS
<1>1. /\ visit.at = "heal" /\ visit' = Doc!Ended(p) /\ seen \subseteq seen'
      /\ changes' = changes /\ machine \in MachineType /\ p[2] \in 1..8
  BY DEF Doc!Treat, Doc!Remember, DoctorInv, DoctorTypes, DoctorJobs
<1>2. Doc!Recipes[p[2]] \in RecipeNames \ {"go"}
  BY <1>1, RecipesAre DEF Doc!Treat
<1>3. machine' \in MachineType
  BY <1>1, <1>2, HealedWrites DEF Doc!Treat
<1> QED
  BY <1>1, <1>3, RecipeEnds

LEMMA DoctorGo ==
  DoctorInv /\ (\E p \in visit.queue : Doc!GoRemove(p) \/ Doc!GoUnpack(p)) => DoctorInv'
<1> SUFFICES ASSUME DoctorInv, NEW p \in visit.queue, Doc!GoRemove(p) \/ Doc!GoUnpack(p)
             PROVE  DoctorInv'
  OBVIOUS
<1>1. /\ visit.at \in {"heal", "unpack"} /\ seen \subseteq seen' /\ changes' = changes
      /\ machine \in MachineType /\ visit \in DoctorJobs
  BY DEF Doc!GoRemove, Doc!GoUnpack, Doc!Remember, DoctorInv, DoctorTypes
<1>2. CASE visit' = Doc!Ended(p)
  <2>1. machine' \in MachineType
    BY <1>1, GoWrites DEF Doc!GoRemove, Doc!GoUnpack
  <2> QED
    BY <1>1, <1>2, <2>1, RecipeEnds
<1>3. CASE /\ visit' = [visit EXCEPT !.at = "unpack"] /\ visit.at = "heal"
           /\ machine' = [machine EXCEPT !.own = 0] /\ Doc!Recipes[p[2]] = "go"
  <2>1. machine' \in MachineType
    BY <1>1, <1>3, GoWrites
  <2>2. /\ visit' \in DoctorJobs /\ visit'.at = "unpack" /\ visit'.opts = visit.opts
        /\ visit'.todo = visit.todo /\ visit'.repairs = visit.repairs
        /\ visit'.again = visit.again /\ visit'.report = visit.report
        /\ visit'.queue = visit.queue /\ visit'.ran = visit.ran /\ visit'.late = visit.late
    BY <1>1, <1>3 DEF DoctorJobs
  <2>3. DoctorTypes'
    BY <1>1, <2>1, <2>2 DEF DoctorInv, DoctorTypes
  <2>4. \A h \in RecipeNames : Reason(h) => Reason(h)'
    BY <1>1, <2>2, ReasonStays
  <2>5. "go" \in RecipeNames
    BY DEF RecipeNames
  <2>6. Reason("go")'
    BY <1>3, <2>4, <2>5 DEF DoctorInv, QueueOK
  <2>7. /\ \A r \in Told(visit'.report), h \in RecipeNames :
             r.status # "OK" /\ Doc!CanHeal(h, r) => Reason(h)'
        /\ \A q \in visit'.queue :
             /\ \A h \in RecipeNames : h = Doc!Recipes[q[2]] => Reason(h)'
             /\ \A i \in DOMAIN visit'.ran : visit'.ran[i] # Doc!Recipes[q[2]]
             /\ \A x \in visit'.queue : q[2] = x[2] => q = x
        /\ \A i, j \in DOMAIN visit'.ran : visit'.ran[i] = visit'.ran[j] => i = j
    BY <2>2, <2>4 DEF DoctorInv, QueueOK
  <2>8. /\ visit.opts.accept => visit.opts.remote /\ visit.opts.fix
        /\ visit.opts.fix
        /\ \A k \in Told(visit.todo) : k \in {"docker", "ssh", "assets"} => visit.opts.remote
    BY <1>1 DEF DoctorInv, FlagsOK, Doc!Valid
  <2> QED
    BY <2>2, <2>3, <2>6, <2>7, <2>8, DoctorInvNext
<1> QED
  BY <1>1, <1>2, <1>3 DEF Doc!GoRemove, Doc!GoUnpack

LEMMA DoctorStep == DoctorInv /\ Doc!Next => DoctorInv'
BY DoctorChange, DoctorStart, DoctorProbe, DoctorPrescribe, DoctorTreat, DoctorGo,
   DoctorRerun, DoctorExit, DoctorKill DEF Doc!Next

LEMMA DoctorTells == DoctorInv => Doc!VerdictIsCurrent
<1> SUFFICES ASSUME DoctorInv, visit.at = "done"
             PROVE  /\ visit.code = 0 => steady = {}
                    /\ visit.code = 1 => ever # {} \/ visit.late
  BY DEF Doc!VerdictIsCurrent
<1>1. visit.todo = <<>> /\ visit.code = IF Alarm(visit.report) THEN 1 ELSE 0
  BY AlarmIs DEF DoctorInv, VerdictOK
<1>2. Told(visit.todo) = {}
  BY <1>1, ToldOf
<1> QED
  BY <1>1, <1>2 DEF DoctorInv, DiagnosisOK

LEMMA DoctorTypeOK == DoctorInv => Doc!TypeOK
<1> SUFFICES ASSUME DoctorInv PROVE Doc!TypeOK
  OBVIOUS
<1>1. \A a \in DOMAIN Doc!Values : machine[a] \in Doc!Values[a]
  BY DEF DoctorInv, DoctorTypes, MachineType, Doc!Values
<1>2. visit \in DoctorJobs /\ changes \in 0..DoctorChanges
  BY DEF DoctorInv, DoctorTypes
<1>3. \A i \in DOMAIN visit.report : visit.report[i].status \in {"OK", "WARN", "ERROR"}
  <2>1. visit.report \in Seq(Results)
    BY <1>2 DEF DoctorJobs
  <2>2. \A i \in DOMAIN visit.report : visit.report[i] \in Results
    BY <2>1
  <2> QED
    BY <2>2 DEF Results
<1>4. \A i \in DOMAIN visit.ran : \E n \in DOMAIN Doc!Recipes : visit.ran[i] = Doc!Recipes[n]
  <2>1. visit.ran \in Seq(RecipeNames)
    BY <1>2 DEF DoctorJobs
  <2>2. \A i \in DOMAIN visit.ran : visit.ran[i] \in RecipeNames
    BY <2>1
  <2>3. \A h \in RecipeNames : \E n \in DOMAIN Doc!Recipes : h = Doc!Recipes[n]
    <3> DEFINE R == Doc!Recipes
    <3>1. /\ DOMAIN R = 1..8
          /\ R[1] = "zsh" /\ R[2] = "git" /\ R[3] = "go" /\ R[4] = "bun"
          /\ R[5] = "node" /\ R[6] = "daemon" /\ R[7] = "compose" /\ R[8] = "caddy"
      BY DEF Doc!Recipes
    <3> HIDE DEF R
    <3>2. {1, 2, 3, 4, 5, 6, 7, 8} \subseteq DOMAIN R
      BY <3>1
    <3>3. \A h \in RecipeNames : \E n \in DOMAIN R : h = R[n]
      BY <3>1, <3>2 DEF RecipeNames
    <3> QED
      BY <3>3 DEF R
  <2> QED
    BY <2>2, <2>3
<1>5. visit.queue \subseteq Nat \X (DOMAIN Doc!Recipes)
  BY <1>2, RecipesAre DEF DoctorJobs
<1> QED
  BY <1>1, <1>2, <1>3, <1>4, <1>5 DEF Doc!TypeOK, DoctorJobs

-----------------------------------------------------------------------------
(* What a step of the doctor does to the machine. *)
TouchesForAReason ==
  machine' # machine /\ changes' = changes =>
    \A a \in {x \in DOMAIN Doc!Values : machine'[x] # machine[x]} :
      /\ visit.opts.fix
      /\ \/ a = "key" /\ visit.opts.accept
         \/ a = "assets" /\ visit.opts.remote
         \/ \E c \in seen : a \in Doc!Remedied(c)
         \/ visit.late /\ a \notin {"key", "assets"}

DoesNoHarm ==
  /\ visit'.ran # visit.ran =>
       \A i, j \in DOMAIN visit'.ran : visit'.ran[i] = visit'.ran[j] => i = j
  /\ machine' # machine /\ changes' = changes =>
       Doc!Faults(machine', visit.opts) \ {"go"} \subseteq Doc!Faults(machine, visit.opts)

(* A recipe that has a reason. *)
LEMMA RecipeTouches ==
  ASSUME DoctorInv, visit.at \in {"heal", "unpack"}, NEW h \in RecipeNames, Reason(h),
         Differ(machine, machine') \subseteq Writes(h)
  PROVE  TouchesForAReason
<1>1. \A a \in Writes(h) : a \notin {"key", "assets"}
  BY DEF Writes, RecipeNames
<1>2. visit.opts.fix
  BY DEF DoctorInv, FlagsOK
<1>3. ASSUME NEW a \in DOMAIN Doc!Values, machine'[a] # machine[a]
      PROVE  a \in Writes(h)
  BY <1>3 DEF Differ
<1> QED
  BY <1>1, <1>2, <1>3 DEF TouchesForAReason, Reason

LEMMA DoctorTouches ==
  ASSUME DoctorInv, Doc!Next \/ UNCHANGED doctorVars
  PROVE  TouchesForAReason /\ DoesNoHarm
<1>0. /\ DoctorInv' /\ machine \in MachineType /\ visit \in DoctorJobs
      /\ changes \in 0..DoctorChanges
  BY DoctorStep, DoctorStill DEF DoctorInv, DoctorTypes
<1>1. \A i, j \in DOMAIN visit'.ran : visit'.ran[i] = visit'.ran[j] => i = j
  BY <1>0 DEF DoctorInv, QueueOK
<1>2. CASE machine' = machine
  BY <1>1, <1>2 DEF TouchesForAReason, DoesNoHarm
<1>3. CASE Doc!Change
  <2>1. changes' # changes
    BY <1>0, <1>3 DEF Doc!Change
  <2> QED
    BY <1>1, <2>1 DEF TouchesForAReason, DoesNoHarm
<1>4. CASE Doc!Probe /\ machine' # machine
  <2> DEFINE c == Head(visit.todo)
  <2>1. \/ c = "ssh" /\ visit.opts.accept /\ machine' = [machine EXCEPT !["key"] = TRUE]
        \/ /\ c = "assets" /\ visit.repairs /\ machine.net
           /\ machine' = [machine EXCEPT !["assets"] = "complete"]
    BY <1>4 DEF Doc!Probe
  <2>2. c \in Told(visit.todo)
    BY <1>0, <1>4, ToldTail DEF Doc!Probe, DoctorJobs
  <2>3. /\ visit.opts.accept => visit.opts.fix
        /\ visit.repairs => visit.opts.fix
        /\ c = "assets" => visit.opts.remote
    BY <2>2 DEF DoctorInv, FlagsOK, Doc!Valid
  <2> HIDE DEF c
  <2>4. TRUE \in Doc!Values["key"] /\ "complete" \in Doc!Values["assets"]
    BY DEF Doc!Values
  <2>5. CASE c = "ssh" /\ visit.opts.accept /\ machine' = [machine EXCEPT !["key"] = TRUE]
    <3>1. /\ Differ(machine, machine') \subseteq {"key"}
          /\ Doc!Faults(machine', visit.opts) \subseteq Doc!Faults(machine, visit.opts)
      BY <1>0, <2>4, <2>5, OneField
    <3> QED
      BY <1>1, <2>3, <2>5, <3>1 DEF TouchesForAReason, DoesNoHarm, Differ
  <2>6. CASE /\ c = "assets" /\ visit.repairs /\ machine.net
             /\ machine' = [machine EXCEPT !["assets"] = "complete"]
    <3>1. /\ Differ(machine, machine') \subseteq {"assets"}
          /\ Doc!Faults(machine', visit.opts) \subseteq Doc!Faults(machine, visit.opts)
      BY <1>0, <2>4, <2>6, OneField
    <3> QED
      BY <1>1, <2>3, <2>6, <3>1 DEF TouchesForAReason, DoesNoHarm, Differ
  <2> QED
    BY <2>1, <2>5, <2>6
<1>5. ASSUME NEW p \in visit.queue, Doc!Treat(p), machine' # machine
      PROVE  TouchesForAReason /\ DoesNoHarm
  <2> DEFINE h == Doc!Recipes[p[2]]
  <2>1. h \in RecipeNames \ {"go"} /\ Reason(h)
    <3>1. p[2] \in 1..8
      BY <1>0 DEF DoctorJobs
    <3> QED
      BY <1>5, <3>1, RecipesAre DEF Doc!Treat, DoctorInv, QueueOK
  <2>2. machine' \in Doc!Healed(h, machine) /\ visit.at = "heal"
    BY <1>5 DEF Doc!Treat
  <2> HIDE DEF h
  <2>3. /\ Differ(machine, machine') \subseteq Writes(h)
        /\ Doc!Faults(machine', visit.opts) \subseteq Doc!Faults(machine, visit.opts)
    BY <1>0, <2>1, <2>2, HealedWrites
  <2> QED
    BY <1>1, <2>1, <2>2, <2>3, RecipeTouches DEF DoesNoHarm
<1>6. ASSUME NEW p \in visit.queue, Doc!GoRemove(p) \/ Doc!GoUnpack(p), machine' # machine
      PROVE  TouchesForAReason /\ DoesNoHarm
  <2>1. "go" \in RecipeNames
    BY DEF RecipeNames
  <2>2. Reason("go") /\ visit.at \in {"heal", "unpack"}
    BY <1>6, <2>1 DEF Doc!GoRemove, Doc!GoUnpack, DoctorInv, QueueOK
  <2>3. machine' \in {[machine EXCEPT !.own = 0], Doc!GoUnpacked(machine)}
    BY <1>6 DEF Doc!GoRemove, Doc!GoUnpack
  <2>4. /\ Differ(machine, machine') \subseteq Writes("go")
        /\ Doc!Faults(machine', visit.opts) \ {"go"} \subseteq Doc!Faults(machine, visit.opts)
    BY <1>0, <2>3, GoWrites
  <2> QED
    BY <1>1, <2>1, <2>2, <2>4, RecipeTouches DEF DoesNoHarm
<1>7. CASE UNCHANGED doctorVars \/ (\E o \in Runs : Doc!Start(o)) \/ Doc!Prescribe
           \/ Doc!Rerun \/ Doc!Exit \/ Doc!Kill
  <2>1. machine' = machine
    BY <1>7 DEF doctorVars, Doc!Start, Doc!Prescribe, Doc!Rerun, Doc!Exit, Doc!Kill
  <2> QED
    BY <1>2, <2>1
<1> QED
  BY <1>2, <1>3, <1>4, <1>5, <1>6, <1>7 DEF Doc!Next

-----------------------------------------------------------------------------
(* Bootstrap: what it keeps. *)
BootValues == {"absent", "ours", "mine", "wrong", "torn", "alias"}

BootJobs ==
  [ kind : {"none", "setup", "check", "init"}, force : BOOLEAN, hooks : BOOLEAN,
    at : {"idle", "clone", "look", "make", "fill", "chmod", "done", "killed"},
    todo : Seq(Boot!Items), made : SUBSET Boot!Items, failed : BOOLEAN,
    code : 0..2, missing : SUBSET Boot!Items, alone : BOOLEAN,
    steady : SUBSET Boot!Items, ever : SUBSET Boot!Items ]

ItemTypes ==
  /\ item \in [Boot!Items -> BootValues]
  /\ \A i \in Boot!Items : item[i] \in Boot!Values(i)

BootTypes ==
  /\ ItemTypes
  /\ private \subseteq Boot!Items
  /\ contract \in [Dirs -> Boot!Contracts]
  /\ cloned \subseteq Scope
  /\ hooksDir \in BOOLEAN
  /\ setup \in [Terminals -> BootJobs]
  /\ edits \in 0..MaxEdits

(* The phases of a command. *)
PhaseOK(k) ==
  /\ k.at # "done" => k.code = 0
  /\ k.at = "done" => k.todo = <<>> /\ (k.code = 0 => ~k.failed)
  /\ k.at = "clone" => k.kind = "init" /\ k.made = {}
  /\ k.at \in {"make", "fill", "chmod"} => k.todo # <<>>
  /\ k.at = "chmod" => Head(k.todo) # Boot!Mcp
  /\ k.kind = "check" => k.at \in {"look", "done", "killed"}

(* What was at fault all through a check is told or still looked at.       *)
CheckOK(k, co) ==
  /\ k.kind = "check" /\ k.at = "look" =>
       /\ \A i \in Told(k.todo) : i = Boot!Mcp \/ (i \in Boot!Envs /\ co[i[2]] # "none")
       /\ k.failed \/ k.steady \subseteq Told(k.todo)
       /\ k.failed => k.ever # {}
  /\ k.kind = "check" /\ k.at = "done" =>
       /\ k.code = 0 => k.steady = {}
       /\ k.code = 1 => k.ever # {}

(* What a command is about to write is not somebody else's. *)
KeptOK(k, it) ==
  k.at = "make" =>
    /\ Head(k.todo)[1] = "env" => k.force \/ Head(k.todo) \in k.missing
    /\ Head(k.todo)[1] = "hook" => it[Head(k.todo)] # "mine" \/ ~k.alone

Good(i, it) ==
  IF i[1] = "env" THEN it[i] # "absent"
  ELSE IF i[1] = "mcp" THEN it[i] \notin {"absent", "alias"}
  ELSE it[i] = "ours"

Wanted(kind, co, hd) ==
  IF kind = "setup" THEN {Boot!Env(d) : d \in {d \in Dirs : co[d] # "none"}} \union {Boot!Mcp}
  ELSE ({Boot!Tree, Boot!Mcp} \union (IF hd THEN Boot!Hooks ELSE {}))
       \union {Boot!Link(l) : l \in Links}

Sound(k) ==
  /\ k.at \notin {"idle", "clone", "killed"} /\ ~k.failed /\ k.code # 2
  /\ k.kind = "setup" \/ (k.kind = "init" /\ k.hooks)

(* A command that nobody interferes with has done what it is past. *)
WellOK(k, it, pr, co, cl, hd) ==
  Sound(k) =>
  /\ k.kind = "init" => cl = Scope
  /\ \A i \in Wanted(k.kind, co, hd) : i \in Told(k.todo) \/ Good(i, it)
  /\ k.at = "make" /\ Head(k.todo)[1] \in {"tree", "link"} => it[Head(k.todo)] = "absent"
  /\ k.at = "fill" => it[Head(k.todo)] = "torn"
  /\ k.at = "chmod" => it[Head(k.todo)] = "ours"
  /\ Boot!Mcp \notin k.made
  /\ \A i \in k.made : \/ it[i] = "ours" /\ i \in pr
                       \/ k.at \in {"fill", "chmod"} /\ i = Head(k.todo)

Undisturbed(t) == edits = 0 /\ \A u \in Terminals \ {t} : setup[u].at = "idle"

BootInv ==
  /\ BootTypes
  /\ \A t \in Terminals :
       /\ PhaseOK(setup[t])
       /\ CheckOK(setup[t], contract)
       /\ KeptOK(setup[t], item)
       /\ Undisturbed(t) => WellOK(setup[t], item, private, contract, cloned, hooksDir)
-----------------------------------------------------------------------------
(* The items. *)
LEMMA SetToSeqIs ==
  ASSUME NEW S, IsFiniteSet(S)
  PROVE  Boot!SetToSeq(S) \in Seq(S) /\ Told(Boot!SetToSeq(S)) = S
<1>1. Cardinality(S) \in Nat /\ ExistsBijection(1..Cardinality(S), S)
  BY FS_CardinalityType
<1>2. PICK g : g \in Bijection(1..Cardinality(S), S)
  BY <1>1 DEF ExistsBijection
<1>3. g \in [1..Cardinality(S) -> S] /\ Boot!IsInjective(g)
  BY <1>2 DEF Bijection, Injection, IsInjective, Boot!IsInjective
<1> DEFINE f == Boot!SetToSeq(S)
<1>4. f \in [1..Cardinality(S) -> S] /\ Boot!IsInjective(f)
  BY <1>3 DEF Boot!SetToSeq, Boot!Cardinality, Cardinality
<1> HIDE DEF f
<1>5. f \in Injection(1..Cardinality(S), S)
  BY <1>4 DEF Boot!IsInjective, IsInjective, Injection
<1>6. IsFiniteSet(1..Cardinality(S)) /\ Cardinality(1..Cardinality(S)) = Cardinality(S)
  BY <1>1, FS_Interval
<1>7. f \in Surjection(1..Cardinality(S), S)
  BY <1>5, <1>6, FS_Injection
<1>8. f \in Seq(S)
  BY <1>1, <1>4
<1>9. \A x \in S : \E i \in 1..Cardinality(S) : f[i] = x
  BY <1>7 DEF Surjection
<1>10. Told(f) = S
  BY <1>4, <1>9 DEF Told
<1> QED
  BY <1>8, <1>10 DEF f

LEMMA TaggedIsFinite ==
  ASSUME NEW S, IsFiniteSet(S), NEW c
  PROVE  IsFiniteSet({<<c, x>> : x \in S})
<1> DEFINE T == {<<c, x>> : x \in S}
           f == [x \in S |-> <<c, x>>]
<1>1. f \in Surjection(S, T)
  BY DEF Surjection
<1> QED
  BY <1>1, FS_Surjection

KindOK(i) ==
  /\ i[1] \in {"tree", "mcp", "env", "hook", "link"}
  /\ i[1] = "tree" <=> i = Boot!Tree
  /\ i[1] = "mcp" <=> i = Boot!Mcp
  /\ i[1] = "env" <=> i \in Boot!Envs
  /\ i[1] = "hook" <=> i \in Boot!Hooks
  /\ i[1] = "env" => i[2] \in Dirs /\ i = Boot!Env(i[2])
  /\ i[1] = "hook" => i[2] \in Scope

LEMMA ItemKinds ==
  /\ Boot!Tree \in Boot!Items /\ Boot!Mcp \in Boot!Items
  /\ Boot!Envs \subseteq Boot!Items /\ Boot!Hooks \subseteq Boot!Items
  /\ {Boot!Link(l) : l \in Links} \subseteq Boot!Items
  /\ \A i \in Boot!Items : KindOK(i)
<1>1. /\ Boot!Tree \in Boot!Items /\ Boot!Mcp \in Boot!Items
      /\ Boot!Envs \subseteq Boot!Items /\ Boot!Hooks \subseteq Boot!Items
      /\ {Boot!Link(l) : l \in Links} \subseteq Boot!Items
  BY DEF Boot!Items
<1> USE DEF Boot!Tree, Boot!Mcp, Boot!Envs, Boot!Hooks, Boot!Env, Boot!Hook, Boot!Link
<1>2. ASSUME NEW i \in Boot!Items
      PROVE  \/ i = Boot!Tree \/ i = Boot!Mcp
             \/ \E d \in Dirs : i = <<"env", d>>
             \/ \E r \in Scope : i = <<"hook", r>>
             \/ \E l \in Links : i = <<"link", l>>
  BY DEF Boot!Items
<1>3. ASSUME NEW i \in Boot!Items PROVE KindOK(i)
  <2>1. CASE i = Boot!Tree
    <3>1. i[1] = "tree"
      BY <2>1
    <3> QED
      BY <2>1, <3>1 DEF KindOK
  <2>2. CASE i = Boot!Mcp
    <3>1. i[1] = "mcp"
      BY <2>2
    <3> QED
      BY <2>2, <3>1 DEF KindOK
  <2>3. ASSUME NEW d \in Dirs, i = <<"env", d>> PROVE KindOK(i)
    <3>1. i[1] = "env" /\ i[2] = d
      BY <2>3
    <3> QED
      BY <2>3, <3>1 DEF KindOK
  <2>4. ASSUME NEW r \in Scope, i = <<"hook", r>> PROVE KindOK(i)
    <3>1. i[1] = "hook" /\ i[2] = r
      BY <2>4
    <3> QED
      BY <2>4, <3>1 DEF KindOK
  <2>5. ASSUME NEW l \in Links, i = <<"link", l>> PROVE KindOK(i)
    <3>1. i[1] = "link" /\ i[2] = l
      BY <2>5
    <3> QED
      BY <2>5, <3>1 DEF KindOK
  <2> QED
    BY <1>2, <2>1, <2>2, <2>3, <2>4, <2>5
<1> QED
  BY <1>1, <1>3 DEF KindOK

LEMMA ValueIs ==
  ASSUME NEW i \in Boot!Items
  PROVE  /\ i[1] = "env" => Boot!Values(i) = {"absent", "ours", "mine", "wrong", "torn"}
         /\ i[1] = "mcp" => Boot!Values(i) = {"absent", "ours", "mine", "torn", "alias"}
         /\ i[1] \notin {"env", "mcp"} => Boot!Values(i) = {"absent", "ours", "mine"}
         /\ Boot!Values(i) \subseteq BootValues
         /\ {"absent", "ours"} \subseteq Boot!Values(i)
<1>1. CASE i[1] = "env"
  BY <1>1 DEF Boot!Values, BootValues
<1>2. CASE i[1] = "mcp"
  BY <1>2 DEF Boot!Values, BootValues
<1>3. CASE i[1] \notin {"env", "mcp"}
  BY <1>3 DEF Boot!Values, BootValues
<1> QED
  BY <1>1, <1>2, <1>3

LEMMA WantedIn ==
  ASSUME NEW kind, NEW co, NEW hd
  PROVE  Wanted(kind, co, hd) \subseteq Boot!Items
BY ItemKinds DEF Wanted, Boot!Items, Boot!Envs

LEMMA FaultsIn ==
  ASSUME NEW it, NEW pr, NEW co
  PROVE  Boot!Faults(it, pr, co) \subseteq Boot!Items
BY ItemKinds DEF Boot!Faults

LEMMA EnvsFoundIs ==
  ASSUME BootTypes
  PROVE  /\ Append(Boot!EnvsFound, Boot!Mcp) \in Seq(Boot!Items)
         /\ Told(Append(Boot!EnvsFound, Boot!Mcp))
              = {Boot!Env(d) : d \in Boot!Found} \union {Boot!Mcp}
<1> DEFINE S == {Boot!Env(d) : d \in Boot!Found}
           s == Boot!EnvsFound
<1>1. IsFiniteSet(Boot!Found)
  BY InspectAssumption, FS_Subset DEF Boot!Found
<1>2. IsFiniteSet(S)
  BY <1>1, TaggedIsFinite DEF Boot!Env
<1>3. s \in Seq(S) /\ Told(s) = S
  BY <1>2, SetToSeqIs DEF Boot!EnvsFound
<1>4. S \subseteq Boot!Items
  BY DEF Boot!Found, Boot!Items, Boot!Envs
<1> HIDE DEF s, S
<1>5. s \in Seq(Boot!Items)
  BY <1>3, <1>4
<1>6. <<Boot!Mcp>> \in Seq(Boot!Items) /\ Append(s, Boot!Mcp) = s \o <<Boot!Mcp>>
  BY <1>5, ItemKinds
<1> DEFINE m == <<Boot!Mcp>>
<1>7. Told(m) = {Boot!Mcp}
  BY ToldOf
<1> HIDE DEF m
<1>8. s \o m \in Seq(Boot!Items) /\ Told(s \o m) = Told(s) \union Told(m)
  BY <1>5, <1>6, ToldConcat DEF m
<1> QED
  BY <1>3, <1>6, <1>7, <1>8 DEF s, S, m

LEMMA TasksIs ==
  /\ Boot!Tasks \in Seq(Boot!Items)
  /\ Wanted("init", contract, hooksDir) \subseteq Told(Boot!Tasks)
<1> DEFINE H == Boot!Hooks
           L == {Boot!Link(l) : l \in Links}
           h == IF hooksDir THEN Boot!SetToSeq(H) ELSE <<>>
           l == Boot!SetToSeq(L)
           I == Boot!Items
<1>1. IsFiniteSet(H) /\ IsFiniteSet(L)
  BY InspectAssumption, TaggedIsFinite DEF Boot!Hooks, Boot!Hook, Boot!Link
<1>2. Boot!SetToSeq(H) \in Seq(H) /\ Told(Boot!SetToSeq(H)) = H
  BY <1>1, SetToSeqIs
<1>3. l \in Seq(L) /\ Told(l) = L
  BY <1>1, SetToSeqIs
<1>4. H \subseteq I /\ L \subseteq I
  BY ItemKinds
<1>5. Boot!Tree \in I /\ Boot!Mcp \in I
  BY ItemKinds
<1>6. Boot!Tasks = <<Boot!Tree>> \o h \o <<Boot!Mcp>> \o l
  BY DEF Boot!Tasks
<1>7. Wanted("init", contract, hooksDir)
        = ({Boot!Tree, Boot!Mcp} \union (IF hooksDir THEN H ELSE {})) \union L
  BY DEF Wanted
<1> HIDE DEF l, L, H, I
<1>8. h \in Seq(I) /\ Told(h) = IF hooksDir THEN H ELSE {}
  BY <1>2, <1>4, ToldOf
<1>9. l \in Seq(I)
  BY <1>3, <1>4
<1> HIDE DEF h
<1> DEFINE a == <<Boot!Tree>>
           m == <<Boot!Mcp>>
<1>10. a \in Seq(I) /\ m \in Seq(I)
  BY <1>5
<1>11. Told(a) = {Boot!Tree} /\ Told(m) = {Boot!Mcp}
  BY ToldOf
<1> HIDE DEF a, m
<1> DEFINE ah == a \o h
<1>12. ah \in Seq(I) /\ Told(ah) = Told(a) \union Told(h)
  BY <1>8, <1>10, ToldConcat
<1> HIDE DEF ah
<1> DEFINE ahm == ah \o m
<1>13. ahm \in Seq(I) /\ Told(ahm) = Told(ah) \union Told(m)
  BY <1>10, <1>12, ToldConcat
<1> HIDE DEF ahm
<1>14. ahm \o l \in Seq(I) /\ Told(ahm \o l) = Told(ahm) \union Told(l)
  BY <1>9, <1>13, ToldConcat
<1>15. Boot!Tasks = ahm \o l
  BY <1>6 DEF ahm, ah, a, m
<1> QED
  BY <1>3, <1>7, <1>8, <1>11, <1>12, <1>13, <1>14, <1>15 DEF I
-----------------------------------------------------------------------------
(* What a step does to the commands. *)
Same(k, j) ==
  /\ k.kind = j.kind /\ k.force = j.force /\ k.hooks = j.hooks /\ k.at = j.at
  /\ k.todo = j.todo /\ k.made = j.made /\ k.failed = j.failed /\ k.code = j.code

Resting == {"idle", "done", "killed"}

LEMMA StepIs ==
  ASSUME setup \in [Terminals -> BootJobs], NEW t, NEW j \in BootJobs, Boot!Step(t, j),
         NEW u \in Terminals, NEW k \in BootJobs, k = IF u = t THEN j ELSE setup[u]
  PROVE  /\ setup'[u] \in BootJobs
         /\ Same(setup'[u], k)
         /\ k.at \in Resting => setup'[u] = k
         /\ k.missing \subseteq setup'[u].missing
         /\ k.at \notin Resting =>
              {i \in Boot!Envs \union Boot!Hooks : item'[i] = "absent"} \subseteq setup'[u].missing
         /\ setup'[u].alone => k.alone
         /\ k.at \notin Resting /\ u # t /\ setup'[u].alone => item' = item
         /\ setup'[u].steady \subseteq k.steady
         /\ k.kind = "check" =>
              /\ k.ever \subseteq setup'[u].ever
              /\ k.at \notin Resting =>
                   /\ setup'[u].steady \subseteq Boot!Faults(item', private', contract')
                   /\ Boot!Faults(item', private', contract') \subseteq setup'[u].ever
<1> DEFINE f == Boot!Faults(item', private', contract')
           m == {i \in Boot!Envs \union Boot!Hooks : item'[i] = "absent"}
           moved == <<item, private, contract>>' # <<item, private, contract>>
           new == [ k EXCEPT !.missing = @ \union m, !.alone = @ /\ (u = t \/ ~moved),
                             !.steady = @ \intersect f,
                             !.ever = IF k.kind = "check" THEN @ \union f ELSE {} ]
<1>1. setup'[u] = IF k.at \in Resting THEN k ELSE new
  BY DEF Boot!Step, Resting
<1>2. f \subseteq Boot!Items
  BY FaultsIn
<1>3. m \subseteq Boot!Items
  BY ItemKinds
<1>4. ~moved => item' = item
  OBVIOUS
<1> HIDE DEF f, m, moved
<1>6. CASE k.at \in Resting
  BY <1>1, <1>6 DEF Same
<1>7. CASE k.at \notin Resting
  <2>1. setup'[u] = new
    BY <1>1, <1>7
  <2>2. new \in BootJobs
    <3> DEFINE a == k.missing \union m
               b == k.alone /\ (u = t \/ ~moved)
               c == k.steady \intersect f
               d == IF k.kind = "check" THEN k.ever \union f ELSE {}
    <3>1. new = [k EXCEPT !.missing = a, !.alone = b, !.steady = c, !.ever = d]
      OBVIOUS
    <3>2. a \in SUBSET Boot!Items /\ c \in SUBSET Boot!Items /\ d \in SUBSET Boot!Items
      BY <1>2, <1>3 DEF BootJobs
    <3>3. b \in BOOLEAN
      OBVIOUS
    <3> HIDE DEF a, b, c, d, new
    <3> QED
      BY <3>1, <3>2, <3>3 DEF BootJobs
  <2>3. /\ new.missing = k.missing \union m
        /\ new.alone = (k.alone /\ (u = t \/ ~moved))
        /\ new.steady = k.steady \intersect f
        /\ k.kind = "check" => new.ever = k.ever \union f
    BY DEF BootJobs
  <2>4. Same(new, k)
    BY DEF Same, BootJobs
  <2> HIDE DEF new
  <2> QED
    BY <1>4, <1>7, <2>1, <2>2, <2>3, <2>4 DEF f, m
<1> QED
  BY <1>6, <1>7

LEMMA StepTypes ==
  ASSUME setup \in [Terminals -> BootJobs], NEW t, NEW j \in BootJobs, Boot!Step(t, j)
  PROVE  setup' \in [Terminals -> BootJobs]
<1>1. setup' = [u \in Terminals |-> setup'[u]]
  BY DEF Boot!Step
<1>2. ASSUME NEW u \in Terminals PROVE setup'[u] \in BootJobs
  BY StepIs
<1> QED
  BY <1>1, <1>2

(* What a command is depends on what the steps of others leave alone. *)
LEMMA OthersKeep ==
  ASSUME BootInv, BootTypes', NEW t, NEW j \in BootJobs, Boot!Step(t, j),
         NEW u \in Terminals, u # t,
         \A d \in Dirs : contract[d] # "none" => contract'[d] # "none"
  PROVE  /\ PhaseOK(setup'[u]) /\ CheckOK(setup'[u], contract') /\ KeptOK(setup'[u], item')
         /\ setup'[u].at = setup[u].at
<1> DEFINE k == setup[u]
           n == setup'[u]
<1>1. k \in BootJobs /\ n \in BootJobs /\ PhaseOK(k) /\ CheckOK(k, contract) /\ KeptOK(k, item)
  BY DEF BootInv, BootTypes
<1>2. /\ Same(n, k)
      /\ k.missing \subseteq n.missing
      /\ n.alone => k.alone
      /\ k.at \notin Resting /\ n.alone => item' = item
      /\ n.steady \subseteq k.steady
      /\ k.kind = "check" => k.ever \subseteq n.ever
  BY <1>1, StepIs DEF BootInv, BootTypes
<1> HIDE DEF k, n
<1>3. PhaseOK(n)
  BY <1>1, <1>2 DEF PhaseOK, Same
<1>4. Told(k.todo) \subseteq Boot!Items
  BY <1>1, ToldIn DEF BootJobs
<1>5. \A i \in Boot!Envs : i[2] \in Dirs
  BY ItemKinds DEF KindOK
<1>6. CheckOK(n, contract')
  BY <1>1, <1>2, <1>4, <1>5 DEF CheckOK, Same
<1>7. KeptOK(n, item')
  BY <1>1, <1>2 DEF KeptOK, Same, Resting
<1> QED
  BY <1>2, <1>3, <1>6, <1>7 DEF k, n, Same

OwnOK(t) ==
  /\ PhaseOK(setup[t])
  /\ CheckOK(setup[t], contract)
  /\ KeptOK(setup[t], item)

Well(t) == WellOK(setup[t], item, private, contract, cloned, hooksDir)

(* A step of one command. *)
LEMMA StepKeeps ==
  ASSUME BootInv, BootTypes', NEW t \in Terminals, NEW j \in BootJobs, Boot!Step(t, j),
         j.at # "idle", UNCHANGED contract, edits' >= edits, OwnOK(t)',
         Undisturbed(t) /\ edits' = 0 => Well(t)'
  PROVE  BootInv'
<1>1. ASSUME NEW u \in Terminals, u # t
      PROVE  /\ OwnOK(u)' /\ setup'[u].at = setup[u].at
  BY <1>1, OthersKeep DEF OwnOK
<1>2. setup'[t].at # "idle"
  BY StepIs DEF BootInv, BootTypes, Same
<1>3. ASSUME NEW u \in Terminals, Undisturbed(u)' PROVE Well(u)'
  <2>1. u = t
    BY <1>2, <1>3 DEF Undisturbed
  <2>2. edits' = 0 /\ edits = 0
    BY <1>3 DEF Undisturbed, BootInv, BootTypes
  <2>3. Undisturbed(t)
    BY <1>1, <1>3, <2>1, <2>2 DEF Undisturbed
  <2> QED
    BY <2>1, <2>2, <2>3
<1>4. ASSUME NEW u \in Terminals PROVE OwnOK(u)'
  BY <1>1
<1> QED
  BY <1>3, <1>4 DEF BootInv, OwnOK, Well
-----------------------------------------------------------------------------
(* The two ways to the next item. *)
LEMMA AtLook ==
  ASSUME NEW n \in BootJobs, n.at = "look", n.kind # "check", n.code = 0, NEW it, NEW co
  PROVE  PhaseOK(n) /\ CheckOK(n, co) /\ KeptOK(n, it)
BY DEF PhaseOK, CheckOK, KeptOK

LEMMA NextWell ==
  ASSUME NEW k \in BootJobs, NEW n \in BootJobs, NEW it, NEW it2, NEW pr, NEW pr2,
         NEW co, NEW cl, NEW hd,
         k.at \in {"look", "make", "fill", "chmod"}, k.todo # <<>>,
         WellOK(k, it, pr, co, cl, hd), k.code = 0,
         n.at = "look", n.todo = Tail(k.todo), n.kind = k.kind, n.hooks = k.hooks,
         n.failed = k.failed, n.code = k.code,
         n.made \subseteq k.made \union {Head(k.todo)},
         Boot!Mcp \in n.made => Boot!Mcp \in k.made,
         pr \subseteq pr2,
         \A i \in Boot!Items \ {Head(k.todo)} : it2[i] = it[i],
         Sound(k) =>
           /\ Head(k.todo) \in Wanted(k.kind, co, hd) => Good(Head(k.todo), it2)
           /\ Head(k.todo) \in n.made => it2[Head(k.todo)] = "ours" /\ Head(k.todo) \in pr2
  PROVE  WellOK(n, it2, pr2, co, cl, hd)
<1> SUFFICES ASSUME Sound(n) PROVE WellOK(n, it2, pr2, co, cl, hd)
  BY DEF WellOK
<1> DEFINE h == Head(k.todo)
           W == Wanted(k.kind, co, hd)
<1>1. Sound(k)
  BY DEF Sound
<1>2. /\ k.kind = "init" => cl = Scope
      /\ \A i \in W : i \in Told(k.todo) \/ Good(i, it)
      /\ Boot!Mcp \notin k.made
      /\ \A i \in k.made : (it[i] = "ours" /\ i \in pr) \/ i = h
  BY <1>1 DEF WellOK
<1>3. Told(k.todo) = {h} \union Told(n.todo)
  BY ToldTail DEF BootJobs
<1>4. W \subseteq Boot!Items /\ n.made \subseteq Boot!Items
  BY WantedIn DEF BootJobs
<1>5. W = Wanted(n.kind, co, hd)
  OBVIOUS
<1>6. (h \in W => Good(h, it2)) /\ (h \in n.made => it2[h] = "ours" /\ h \in pr2)
  BY <1>1
<1> HIDE DEF h, W
<1>7. ASSUME NEW i \in W PROVE i \in Told(n.todo) \/ Good(i, it2)
  <2>1. CASE i = h
    BY <1>6, <2>1
  <2>2. CASE i # h
    <3>1. it2[i] = it[i]
      BY <1>4, <2>2 DEF h
    <3> QED
      BY <1>2, <1>3, <2>2, <3>1 DEF Good
  <2> QED
    BY <2>1, <2>2
<1>8. ASSUME NEW i \in n.made PROVE it2[i] = "ours" /\ i \in pr2
  <2>1. CASE i = h
    BY <1>6, <2>1
  <2>2. CASE i # h
    <3>1. it2[i] = it[i] /\ i \in k.made
      BY <1>4, <2>2 DEF h
    <3> QED
      BY <1>2, <2>2, <3>1
  <2> QED
    BY <2>1, <2>2
<1> QED
  BY <1>2, <1>5, <1>7, <1>8 DEF WellOK

LEMMA NextKeeps ==
  ASSUME BootInv, NEW t \in Terminals, NEW j \in BootJobs,
         setup[t].at \in {"look", "make", "fill", "chmod"},
         setup[t].kind # "check", setup[t].todo # <<>>,
         j.at = "look", j.todo = Tail(setup[t].todo), j.kind = setup[t].kind,
         j.hooks = setup[t].hooks, j.failed = setup[t].failed, j.code = setup[t].code,
         j.made \subseteq setup[t].made \union {Head(setup[t].todo)},
         Boot!Mcp \in j.made => Boot!Mcp \in setup[t].made,
         Boot!Step(t, j), Boot!NothingElse, ItemTypes',
         private \subseteq private', private' \subseteq Boot!Items,
         \A i \in Boot!Items \ {Head(setup[t].todo)} : item'[i] = item[i],
         Undisturbed(t) /\ Sound(setup[t]) =>
           /\ Head(setup[t].todo) \in Wanted(setup[t].kind, contract, hooksDir)
                => Good(Head(setup[t].todo), item')
           /\ Head(setup[t].todo) \in j.made
                => item'[Head(setup[t].todo)] = "ours" /\ Head(setup[t].todo) \in private'
  PROVE  BootInv'
<1>1. UNCHANGED <<contract, cloned, hooksDir, edits>>
  BY DEF Boot!NothingElse
<1>2. BootTypes'
  BY <1>1, StepTypes DEF BootInv, BootTypes
<1>3. /\ setup[t] \in BootJobs /\ PhaseOK(setup[t])
      /\ Undisturbed(t) => WellOK(setup[t], item, private, contract, cloned, hooksDir)
  BY DEF BootInv, BootTypes
<1>4. setup'[t] \in BootJobs /\ Same(setup'[t], j)
  BY StepIs DEF BootInv, BootTypes
<1>5. setup[t].code = 0
  BY <1>3 DEF PhaseOK
<1>6. OwnOK(t)'
  BY <1>4, <1>5, AtLook DEF OwnOK, Same
<1>7. ASSUME Undisturbed(t) PROVE Well(t)'
  <2> DEFINE n == setup'[t]
             it2 == item'
             pr2 == private'
  <2>1. /\ n \in BootJobs
        /\ n.at = "look" /\ n.todo = Tail(setup[t].todo) /\ n.kind = setup[t].kind
        /\ n.hooks = setup[t].hooks /\ n.failed = setup[t].failed /\ n.code = setup[t].code
        /\ n.made = j.made
    BY <1>4 DEF Same
  <2>2. /\ \A i \in Boot!Items \ {Head(setup[t].todo)} : it2[i] = item[i]
        /\ private \subseteq pr2
        /\ Sound(setup[t]) =>
             /\ Head(setup[t].todo) \in Wanted(setup[t].kind, contract, hooksDir)
                  => Good(Head(setup[t].todo), it2)
             /\ Head(setup[t].todo) \in n.made
                  => it2[Head(setup[t].todo)] = "ours" /\ Head(setup[t].todo) \in pr2
    BY <1>7, <2>1
  <2> HIDE DEF n, it2, pr2
  <2>3. WellOK(n, it2, pr2, contract, cloned, hooksDir)
    BY <1>3, <1>5, <1>7, <2>1, <2>2, NextWell
  <2> QED
    BY <1>1, <2>3 DEF Well, n, it2, pr2
<1> QED
  BY <1>1, <1>2, <1>6, <1>7, StepKeeps DEF BootInv, BootTypes

LEMMA FailKeeps ==
  ASSUME BootInv, NEW t \in Terminals, NEW j \in BootJobs,
         j.at = "look", j.failed, j.kind # "check", j.code = 0,
         Boot!Step(t, j), UNCHANGED <<item, private, contract, cloned, hooksDir>>,
         edits' \in 0..MaxEdits, edits' >= edits
  PROVE  BootInv'
<1>1. BootTypes'
  BY StepTypes DEF BootInv, BootTypes, ItemTypes
<1>2. setup'[t] \in BootJobs /\ Same(setup'[t], j)
  BY StepIs DEF BootInv, BootTypes
<1>3. OwnOK(t)'
  BY <1>2, AtLook DEF OwnOK, Same
<1>4. Well(t)'
  BY <1>2 DEF Well, WellOK, Sound, Same
<1> QED
  BY <1>1, <1>3, <1>4, StepKeeps
-----------------------------------------------------------------------------
(* The steps. *)
LEMMA NextItemIs ==
  ASSUME NEW k \in BootJobs, k.todo # <<>>, NEW n, n = Boot!NextItem(k)
  PROVE  /\ n \in BootJobs /\ n.at = "look" /\ n.todo = Tail(k.todo) /\ n.kind = k.kind
         /\ n.hooks = k.hooks /\ n.failed = k.failed /\ n.code = k.code /\ n.made = k.made
<1>1. Tail(k.todo) \in Seq(Boot!Items)
  BY DEF BootJobs
<1> QED
  BY <1>1 DEF Boot!NextItem, BootJobs

LEMMA FailedIs ==
  ASSUME NEW k \in BootJobs, k.todo # <<>>, NEW n, n = Boot!Failed(k)
  PROVE  /\ n \in BootJobs /\ n.at = "look" /\ n.failed /\ n.kind = k.kind /\ n.code = k.code
         /\ n.todo = IF k.kind = "init" THEN <<>> ELSE Tail(k.todo)
         /\ n.steady = k.steady /\ n.ever = k.ever
<1> DEFINE s == IF k.kind = "init" THEN <<>> ELSE Tail(k.todo)
<1>1. s \in Seq(Boot!Items)
  BY DEF BootJobs
<1>2. n = [k EXCEPT !.at = "look", !.failed = TRUE, !.todo = s]
  BY DEF Boot!Failed
<1> HIDE DEF s
<1>3. /\ n \in BootJobs /\ n.at = "look" /\ n.failed /\ n.kind = k.kind /\ n.code = k.code
      /\ n.todo = s /\ n.steady = k.steady /\ n.ever = k.ever
  BY <1>1, <1>2 DEF BootJobs
<1> QED
  BY <1>3 DEF s

LEMMA SettledIs ==
  ASSUME NEW t, NEW i \in Boot!Items
  PROVE  /\ i[1] = "env" => Boot!Settled(t, i) = (item[i] # "absent" /\ ~setup[t].force)
         /\ i[1] = "mcp" => Boot!Settled(t, i) = (item[i] \notin {"absent", "alias"})
         /\ i[1] = "hook" => Boot!Settled(t, i) = (i[2] \notin cloned)
         /\ i[1] = "link" => Boot!Settled(t, i) = (Handbook \notin cloned \/ item[i] = "ours")
         /\ i[1] = "tree" => Boot!Settled(t, i) = (item[i] = "ours")
         /\ i[1] \in {"tree", "hook", "link"} => Boot!Refused(i) = (item[i] = "mine")
<1>1. ASSUME i[1] = "env"
      PROVE  Boot!Settled(t, i) = (item[i] # "absent" /\ ~setup[t].force)
  BY <1>1 DEF Boot!Settled
<1>2. ASSUME i[1] = "mcp"
      PROVE  Boot!Settled(t, i) = (item[i] \notin {"absent", "alias"})
  BY <1>2 DEF Boot!Settled
<1>3. ASSUME i[1] = "hook" PROVE Boot!Settled(t, i) = (i[2] \notin cloned)
  BY <1>3 DEF Boot!Settled
<1>4. ASSUME i[1] = "link"
      PROVE  Boot!Settled(t, i) = (Handbook \notin cloned \/ item[i] = "ours")
  BY <1>4 DEF Boot!Settled
<1>5. ASSUME i[1] = "tree" PROVE Boot!Settled(t, i) = (item[i] = "ours")
  BY <1>5 DEF Boot!Settled
<1>6. ASSUME i[1] \in {"tree", "hook", "link"} PROVE Boot!Refused(i) = (item[i] = "mine")
  BY <1>6 DEF Boot!Refused
<1> QED
  BY <1>1, <1>2, <1>3, <1>4, <1>5, <1>6

LEMMA BootBounds ==
  0 \in 0..MaxEdits /\ MaxEdits \in Nat /\ Handbook \in Scope
<1>1. MaxEdits \in Nat /\ Handbook \in Scope
  BY InspectAssumption, Zenon
<1> QED
  BY <1>1

LEMMA WantedKinds ==
  ASSUME NEW co, NEW hd
  PROVE  /\ \A i \in Wanted("setup", co, hd) : i[1] \in {"env", "mcp"}
         /\ \A i \in Wanted("init", co, hd) : i[1] \in {"tree", "mcp", "hook", "link"}
<1>1. ASSUME NEW i \in Wanted("setup", co, hd) PROVE i[1] \in {"env", "mcp"}
  <2>1. i = Boot!Mcp \/ \E d \in Dirs : i = Boot!Env(d)
    BY DEF Wanted
  <2>2. i \in Boot!Envs \/ i = Boot!Mcp
    BY <2>1 DEF Boot!Envs
  <2> QED
    BY <2>2, ItemKinds DEF KindOK
<1>2. ASSUME NEW i \in Wanted("init", co, hd)
      PROVE  i[1] \in {"tree", "mcp", "hook", "link"}
  <2>1. \/ i \in {Boot!Tree, Boot!Mcp} \union Boot!Hooks
        \/ \E l \in Links : i = Boot!Link(l)
    BY DEF Wanted
  <2>2. ASSUME NEW l \in Links, i = Boot!Link(l) PROVE i[1] = "link"
    BY <2>2 DEF Boot!Link
  <2>3. i \in {Boot!Tree, Boot!Mcp} \union Boot!Hooks => i[1] \in {"tree", "mcp", "hook"}
    BY ItemKinds DEF KindOK
  <2> QED
    BY <2>1, <2>2, <2>3
<1> QED
  BY <1>1, <1>2

LEMMA HeadIs ==
  ASSUME BootInv, NEW t \in Terminals, setup[t].todo # <<>>
  PROVE  /\ setup[t] \in BootJobs
         /\ Head(setup[t].todo) \in Boot!Items /\ KindOK(Head(setup[t].todo))
         /\ item[Head(setup[t].todo)] \in Boot!Values(Head(setup[t].todo))
         /\ Told(setup[t].todo) = {Head(setup[t].todo)} \union Told(Tail(setup[t].todo))
<1>1. setup[t] \in BootJobs
  BY DEF BootInv, BootTypes
<1>2. setup[t].todo \in Seq(Boot!Items)
  BY <1>1 DEF BootJobs
<1>3. Head(setup[t].todo) \in Boot!Items
  BY <1>2
<1> QED
  BY <1>1, <1>2, <1>3, ItemKinds, ToldTail DEF BootInv, BootTypes, ItemTypes

LEMMA PutTypes ==
  ASSUME ItemTypes, NEW i \in Boot!Items, NEW v \in Boot!Values(i), Boot!Put(i, v)
  PROVE  /\ ItemTypes'
         /\ item'[i] = v
         /\ \A x \in Boot!Items \ {i} : item'[x] = item[x]
<1>1. v \in BootValues
  BY ValueIs
<1> QED
  BY <1>1 DEF ItemTypes, Boot!Put

LEMMA LookKeeps ==
  ASSUME BootInv, NEW t \in Terminals, Boot!Look(t)
  PROVE  BootInv'
<1> DEFINE k == setup[t]
           h == Head(setup[t].todo)
           go == [k EXCEPT !.at = "make"]
<1>1. /\ k.at = "look" /\ k.todo # <<>> /\ k.kind # "check"
      /\ UNCHANGED <<item, private>> /\ Boot!NothingElse
      /\ Boot!Step(t, IF Boot!Settled(t, h) THEN Boot!NextItem(k)
                      ELSE IF Boot!Refused(h) THEN Boot!Failed(k) ELSE go)
  BY DEF Boot!Look, Boot!Going, Boot!Here
<1>2. k \in BootJobs /\ h \in Boot!Items /\ KindOK(h) /\ item[h] \in Boot!Values(h)
  BY <1>1, HeadIs
<1>3. /\ PhaseOK(k) /\ (Undisturbed(t) => WellOK(k, item, private, contract, cloned, hooksDir))
      /\ private \subseteq Boot!Items /\ ItemTypes /\ edits \in 0..MaxEdits
  BY DEF BootInv, BootTypes
<1>4. k.code = 0
  BY <1>1, <1>3 DEF PhaseOK
<1>5. UNCHANGED <<item, private, contract, cloned, hooksDir, edits>>
  BY <1>1 DEF Boot!NothingElse
<1>6. ItemTypes'
  BY <1>3, <1>5 DEF ItemTypes
<1>7. CASE Boot!Settled(t, h)
  <2> DEFINE j == Boot!NextItem(k)
  <2>1. /\ j \in BootJobs /\ j.at = "look" /\ j.todo = Tail(k.todo) /\ j.kind = k.kind
        /\ j.hooks = k.hooks /\ j.failed = k.failed /\ j.code = k.code /\ j.made = k.made
    BY <1>1, <1>2, NextItemIs
  <2>2. Boot!Step(t, j)
    BY <1>1, <1>7
  <2> HIDE DEF j
  <2>3. ASSUME Undisturbed(t), Sound(k)
        PROVE  /\ h \in Wanted(k.kind, contract, hooksDir) => Good(h, item)
               /\ h \in k.made => item[h] = "ours" /\ h \in private
    <3>1. WellOK(k, item, private, contract, cloned, hooksDir)
      BY <1>3, <2>3
    <3>2. h \in k.made => item[h] = "ours" /\ h \in private
      BY <1>1, <2>3, <3>1 DEF WellOK
    <3>3. ASSUME h \in Wanted(k.kind, contract, hooksDir) PROVE Good(h, item)
      <4>1. h[1] \in {"hook", "link", "tree"} => k.kind = "init"
        BY <2>3, <3>3, WantedKinds DEF Sound
      <4>2. h[1] \in {"hook", "link", "tree"} => cloned = Scope
        BY <2>3, <3>1, <4>1 DEF WellOK
      <4>3. h[1] # "hook"
        BY <1>2, <1>7, <4>2, SettledIs DEF KindOK
      <4> QED
        BY <1>2, <1>7, <4>2, <4>3, SettledIs, BootBounds DEF KindOK, Good
    <3> QED
      BY <3>2, <3>3
  <2>4. /\ private \subseteq private' /\ private' \subseteq Boot!Items
        /\ \A i \in Boot!Items \ {h} : item'[i] = item[i]
        /\ j.made \subseteq k.made \union {h}
    BY <1>3, <1>5, <2>1
  <2>5. Undisturbed(t) /\ Sound(k) =>
           /\ h \in Wanted(k.kind, contract, hooksDir) => Good(h, item')
           /\ h \in j.made => item'[h] = "ours" /\ h \in private'
    BY <1>5, <2>1, <2>3
  <2> QED
    BY <1>1, <1>6, <2>1, <2>2, <2>4, <2>5, NextKeeps
<1>8. CASE ~Boot!Settled(t, h) /\ Boot!Refused(h)
  <2> DEFINE j == Boot!Failed(k)
  <2>1. j \in BootJobs /\ j.at = "look" /\ j.failed /\ j.kind # "check" /\ j.code = 0
    BY <1>1, <1>2, <1>4, FailedIs
  <2>2. Boot!Step(t, j)
    BY <1>1, <1>8
  <2> HIDE DEF j
  <2>3. edits' \in 0..MaxEdits /\ edits' >= edits
    BY <1>3, <1>5
  <2> QED
    BY <1>5, <2>1, <2>2, <2>3, FailKeeps
<1>9. CASE ~Boot!Settled(t, h) /\ ~Boot!Refused(h)
  <2>1. /\ go \in BootJobs /\ go.at = "make" /\ go.todo = k.todo /\ go.kind = k.kind
        /\ go.hooks = k.hooks /\ go.failed = k.failed /\ go.code = k.code /\ go.made = k.made
        /\ go.force = k.force
    BY <1>2 DEF BootJobs
  <2>2. Boot!Step(t, go)
    BY <1>1, <1>9
  <2> HIDE DEF go
  <2>3. /\ setup'[t] \in BootJobs /\ Same(setup'[t], go)
        /\ {i \in Boot!Envs \union Boot!Hooks : item'[i] = "absent"} \subseteq setup'[t].missing
    BY <2>1, <2>2, StepIs DEF BootInv, BootTypes, Resting
  <2>4. PhaseOK(setup'[t]) /\ CheckOK(setup'[t], contract')
    BY <1>1, <1>4, <2>1, <2>3 DEF PhaseOK, CheckOK, Same
  <2>5. KeptOK(setup'[t], item')
    <3>1. h[1] = "env" => k.force \/ h \in setup'[t].missing
      <4>1. h[1] = "env" => k.force \/ item[h] = "absent"
        BY <1>2, <1>9, SettledIs
      <4>2. h[1] = "env" => h \in Boot!Envs
        BY <1>2 DEF KindOK
      <4> QED
        BY <1>5, <2>3, <4>1, <4>2
    <3>2. h[1] = "hook" => item'[h] # "mine"
      BY <1>2, <1>5, <1>9, SettledIs
    <3>3. setup'[t].force = k.force /\ setup'[t].todo = k.todo
      BY <2>1, <2>3 DEF Same
    <3> QED
      BY <3>1, <3>2, <3>3 DEF KeptOK
  <2>6. ASSUME Undisturbed(t) PROVE WellOK(setup'[t], item, private, contract, cloned, hooksDir)
    <3> DEFINE n == setup'[t]
    <3> SUFFICES ASSUME Sound(n) PROVE WellOK(n, item, private, contract, cloned, hooksDir)
      BY DEF WellOK
    <3>1. Sound(k) /\ WellOK(k, item, private, contract, cloned, hooksDir)
      BY <1>1, <1>3, <2>1, <2>3, <2>6 DEF Sound, Same
    <3>2. h[1] \in {"tree", "link"} => item[h] = "absent"
      <4> SUFFICES ASSUME h[1] \in {"tree", "link"} PROVE item[h] = "absent"
        OBVIOUS
      <4>1. item[h] # "ours" /\ item[h] # "mine"
        BY <1>2, <1>9, SettledIs
      <4>2. item[h] \in {"absent", "ours", "mine"}
        BY <1>2, ValueIs
      <4> QED
        BY <4>1, <4>2
    <3>3. /\ n.at = "make" /\ n.todo = k.todo /\ n.kind = k.kind /\ n.made = k.made
      BY <2>1, <2>3 DEF Same
    <3> HIDE DEF n
    <3> QED
      BY <1>1, <3>1, <3>2, <3>3 DEF WellOK
  <2>7. Undisturbed(t) => Well(t)'
    BY <1>5, <2>6 DEF Well
  <2>8. BootTypes'
    BY <1>5, <1>6, <2>1, <2>2, StepTypes DEF BootInv, BootTypes
  <2>9. OwnOK(t)'
    BY <2>4, <2>5 DEF OwnOK
  <2> QED
    BY <1>3, <1>5, <2>1, <2>2, <2>7, <2>8, <2>9, StepKeeps
<1> QED
  BY <1>7, <1>8, <1>9

LEMMA MakeKeeps ==
  ASSUME BootInv, NEW t \in Terminals, Boot!MakeAtOnce(t)
  PROVE  BootInv'
<1> DEFINE k == setup[t]
           h == Head(setup[t].todo)
           next == Boot!NextItem(k)
           fail == Boot!Failed(k)
<1>1. /\ k.at = "make" /\ k.todo # <<>> /\ h[1] \in {"tree", "hook", "link"}
      /\ UNCHANGED private /\ Boot!NothingElse
      /\ IF h[1] = "hook" \/ item[h] = "absent"
         THEN Boot!Put(h, "ours") /\ Boot!Step(t, next)
         ELSE /\ UNCHANGED item
              /\ Boot!Step(t, IF h = Boot!Tree THEN next ELSE fail)
  BY DEF Boot!MakeAtOnce, Boot!Going, Boot!Here
<1>2. k \in BootJobs /\ h \in Boot!Items /\ KindOK(h) /\ item[h] \in Boot!Values(h)
  BY <1>1, HeadIs
<1>3. /\ PhaseOK(k) /\ (Undisturbed(t) => WellOK(k, item, private, contract, cloned, hooksDir))
      /\ private \subseteq Boot!Items /\ ItemTypes /\ edits \in 0..MaxEdits
  BY DEF BootInv, BootTypes
<1>4. k.code = 0 /\ k.kind # "check"
  BY <1>1, <1>3 DEF PhaseOK
<1>5. UNCHANGED <<private, contract, cloned, hooksDir, edits>>
  BY <1>1 DEF Boot!NothingElse
<1>6. /\ next \in BootJobs /\ next.at = "look" /\ next.todo = Tail(k.todo) /\ next.kind = k.kind
      /\ next.hooks = k.hooks /\ next.failed = k.failed /\ next.code = k.code
      /\ next.made = k.made
  BY <1>1, <1>2, NextItemIs
<1>7. fail \in BootJobs /\ fail.at = "look" /\ fail.failed /\ fail.kind # "check" /\ fail.code = 0
  BY <1>1, <1>2, <1>4, FailedIs
<1>8. private \subseteq private' /\ private' \subseteq Boot!Items
  BY <1>3, <1>5
<1>9. ASSUME Undisturbed(t), Sound(k)
      PROVE  /\ h \in k.made => item[h] = "ours" /\ h \in private
             /\ h[1] \in {"tree", "link"} => item[h] = "absent"
  BY <1>1, <1>3, <1>9 DEF WellOK
<1> HIDE DEF next, fail
<1>10. CASE h[1] = "hook" \/ item[h] = "absent"
  <2>1. Boot!Put(h, "ours") /\ Boot!Step(t, next)
    BY <1>1, <1>10
  <2>2. "ours" \in Boot!Values(h)
    BY <1>2, ValueIs
  <2>3. /\ ItemTypes' /\ item'[h] = "ours"
        /\ \A x \in Boot!Items \ {h} : item'[x] = item[x]
    BY <1>2, <1>3, <2>1, <2>2, PutTypes
  <2>4. Good(h, item')
    BY <2>3 DEF Good
  <2>5. Undisturbed(t) /\ Sound(k) =>
           /\ h \in Wanted(k.kind, contract, hooksDir) => Good(h, item')
           /\ h \in next.made => item'[h] = "ours" /\ h \in private'
    BY <1>5, <1>6, <1>9, <2>3, <2>4
  <2>6. next.made \subseteq k.made \union {h}
    BY <1>6
  <2> QED
    BY <1>1, <1>4, <1>6, <1>8, <2>1, <2>3, <2>5, <2>6, NextKeeps
<1>11. CASE ~(h[1] = "hook" \/ item[h] = "absent") /\ h = Boot!Tree
  <2>1. UNCHANGED item /\ Boot!Step(t, next)
    BY <1>1, <1>11
  <2>2. ItemTypes' /\ \A x \in Boot!Items \ {h} : item'[x] = item[x]
    BY <1>3, <2>1 DEF ItemTypes
  <2>3. ~(Undisturbed(t) /\ Sound(k))
    BY <1>2, <1>9, <1>11 DEF KindOK
  <2>4. next.made \subseteq k.made \union {h}
    BY <1>6
  <2> QED
    BY <1>1, <1>4, <1>6, <1>8, <2>1, <2>2, <2>3, <2>4, NextKeeps
<1>12. CASE ~(h[1] = "hook" \/ item[h] = "absent") /\ h # Boot!Tree
  <2>1. UNCHANGED item /\ Boot!Step(t, fail)
    BY <1>1, <1>12
  <2>2. edits' \in 0..MaxEdits /\ edits' >= edits
    BY <1>3, <1>5
  <2> QED
    BY <1>5, <1>7, <2>1, <2>2, FailKeeps
<1> QED
  BY <1>10, <1>11, <1>12

(* A step that stays with the file in hand, which it wrote to. *)
LEMMA WriteKeeps ==
  ASSUME BootInv, NEW t \in Terminals, NEW at, NEW v,
         setup[t].at \in {"make", "fill"}, setup[t].todo # <<>>,
         at \in {"fill", "chmod"},
         Boot!Step(t, [setup[t] EXCEPT !.at = at]), Boot!NothingElse, ItemTypes',
         private \subseteq private', private' \subseteq Boot!Items,
         \A i \in Boot!Items \ {Head(setup[t].todo)} : item'[i] = item[i],
         Undisturbed(t) /\ Sound(setup[t]) =>
           item'[Head(setup[t].todo)] = IF at = "fill" THEN "torn" ELSE "ours",
         at = "chmod" => Head(setup[t].todo) # Boot!Mcp
  PROVE  BootInv'
<1> DEFINE k == setup[t]
           h == Head(setup[t].todo)
           j == [setup[t] EXCEPT !.at = at]
           n == setup'[t]
           it2 == item'
           pr2 == private'
<1>1. UNCHANGED <<contract, cloned, hooksDir, edits>>
  BY DEF Boot!NothingElse
<1>2. /\ k \in BootJobs /\ PhaseOK(k)
      /\ Undisturbed(t) => WellOK(k, item, private, contract, cloned, hooksDir)
  BY DEF BootInv, BootTypes
<1>3. /\ j \in BootJobs /\ j.at = at /\ j.todo = k.todo /\ j.kind = k.kind
      /\ j.hooks = k.hooks /\ j.failed = k.failed /\ j.code = k.code /\ j.made = k.made
  BY <1>2 DEF BootJobs
<1> HIDE DEF j
<1>4. n \in BootJobs /\ Same(n, j)
  BY <1>3, StepIs DEF BootInv, BootTypes, j
<1>5. BootTypes'
  BY <1>1, <1>3, StepTypes DEF BootInv, BootTypes, j
<1>6. k.code = 0 /\ k.kind # "check"
  BY <1>2 DEF PhaseOK
<1>7. OwnOK(t)'
  BY <1>3, <1>4, <1>6 DEF OwnOK, PhaseOK, CheckOK, KeptOK, Same
<1>8. ASSUME Undisturbed(t) PROVE WellOK(n, it2, pr2, contract, cloned, hooksDir)
  <2> SUFFICES ASSUME Sound(n) PROVE WellOK(n, it2, pr2, contract, cloned, hooksDir)
    BY DEF WellOK
  <2>1. Sound(k) /\ WellOK(k, item, private, contract, cloned, hooksDir)
    BY <1>2, <1>3, <1>4, <1>8 DEF Sound, Same
  <2>2. /\ n.at = at /\ n.todo = k.todo /\ n.kind = k.kind /\ n.made = k.made
    BY <1>3, <1>4 DEF Same
  <2>3. Wanted(k.kind, contract, hooksDir) \subseteq Boot!Items /\ k.made \subseteq Boot!Items
    BY <1>2, WantedIn DEF BootJobs
  <2>4. h \in Told(k.todo)
    BY HeadIs
  <2>5. /\ it2[h] = IF at = "fill" THEN "torn" ELSE "ours"
        /\ \A i \in Boot!Items \ {h} : it2[i] = item[i]
        /\ private \subseteq pr2
    BY <1>8, <2>1
  <2>6. /\ k.kind = "init" => cloned = Scope
        /\ \A i \in Wanted(k.kind, contract, hooksDir) : i \in Told(k.todo) \/ Good(i, item)
        /\ Boot!Mcp \notin k.made
        /\ \A i \in k.made : (item[i] = "ours" /\ i \in private) \/ i = h
    BY <2>1 DEF WellOK
  <2> HIDE DEF n, it2, pr2, h
  <2>7. ASSUME NEW i \in Wanted(k.kind, contract, hooksDir)
        PROVE  i \in Told(k.todo) \/ Good(i, it2)
    <3>1. CASE i = h
      BY <2>4, <3>1
    <3>2. CASE i # h
      <4>1. it2[i] = item[i]
        BY <2>3, <2>5, <3>2
      <4> QED
        BY <2>6, <4>1 DEF Good
    <3> QED
      BY <3>1, <3>2
  <2>8. \A i \in k.made : (it2[i] = "ours" /\ i \in pr2) \/ i = h
    BY <2>3, <2>5, <2>6
  <2>9. /\ at = "fill" => it2[h] = "torn"
        /\ at = "chmod" => it2[h] = "ours"
    BY <2>5 DEF h
  <2> QED
    BY <2>2, <2>6, <2>7, <2>8, <2>9 DEF WellOK, h
<1>9. Undisturbed(t) => Well(t)'
  BY <1>1, <1>8 DEF Well
<1>10. j.at # "idle" /\ edits' >= edits
  BY <1>1, <1>3 DEF BootInv, BootTypes
<1> QED
  BY <1>1, <1>3, <1>5, <1>7, <1>9, <1>10, StepKeeps DEF j

LEMMA OpenKeeps ==
  ASSUME BootInv, NEW t \in Terminals, Boot!OpenFile(t)
  PROVE  BootInv'
<1> DEFINE k == setup[t]
           h == Head(setup[t].todo)
           fail == Boot!Failed(k)
<1>1. /\ k.at = "make" /\ k.todo # <<>> /\ h[1] \in {"env", "mcp"}
      /\ Boot!NothingElse
      /\ IF h = Boot!Mcp /\ item[h] # "absent"
         THEN UNCHANGED <<item, private>> /\ Boot!Step(t, fail)
         ELSE /\ Boot!Put(h, "torn")
              /\ private' = IF item[h] = "absent" THEN private \union {h} ELSE private
              /\ Boot!Step(t, [k EXCEPT !.at = "fill"])
  BY DEF Boot!OpenFile, Boot!Going, Boot!Here
<1>2. k \in BootJobs /\ h \in Boot!Items /\ KindOK(h)
  BY <1>1, HeadIs
<1>3. PhaseOK(k) /\ private \subseteq Boot!Items /\ ItemTypes /\ edits \in 0..MaxEdits
  BY DEF BootInv, BootTypes
<1>4. k.code = 0 /\ k.kind # "check"
  BY <1>1, <1>3 DEF PhaseOK
<1>5. UNCHANGED <<contract, cloned, hooksDir, edits>>
  BY <1>1 DEF Boot!NothingElse
<1>6. fail \in BootJobs /\ fail.at = "look" /\ fail.failed /\ fail.kind # "check" /\ fail.code = 0
  BY <1>1, <1>2, <1>4, FailedIs
<1> HIDE DEF fail
<1>7. CASE h = Boot!Mcp /\ item[h] # "absent"
  <2>1. edits' \in 0..MaxEdits /\ edits' >= edits
    BY <1>3, <1>5
  <2> QED
    BY <1>1, <1>5, <1>6, <1>7, <2>1, FailKeeps
<1>8. CASE ~(h = Boot!Mcp /\ item[h] # "absent")
  <2>1. "torn" \in Boot!Values(h)
    BY <1>1, <1>2, ValueIs
  <2>2. /\ Boot!Put(h, "torn") /\ Boot!Step(t, [k EXCEPT !.at = "fill"])
        /\ private' = IF item[h] = "absent" THEN private \union {h} ELSE private
    BY <1>1, <1>8
  <2>3. /\ ItemTypes' /\ item'[h] = "torn"
        /\ \A x \in Boot!Items \ {h} : item'[x] = item[x]
    BY <1>2, <1>3, <2>1, <2>2, PutTypes
  <2>4. private \subseteq private' /\ private' \subseteq Boot!Items
    BY <1>2, <1>3, <2>2
  <2> QED
    BY <1>1, <2>2, <2>3, <2>4, WriteKeeps
<1> QED
  BY <1>7, <1>8

LEMMA FillKeeps ==
  ASSUME BootInv, NEW t \in Terminals, Boot!Fill(t)
  PROVE  BootInv'
<1> DEFINE k == setup[t]
           h == Head(setup[t].todo)
           next == Boot!NextItem(k)
<1>1. /\ k.at = "fill" /\ k.todo # <<>> /\ UNCHANGED private /\ Boot!NothingElse
      /\ IF item[h] = "torn" THEN Boot!Put(h, "ours") ELSE UNCHANGED item
      /\ Boot!Step(t, IF h = Boot!Mcp THEN next ELSE [k EXCEPT !.at = "chmod"])
  BY DEF Boot!Fill, Boot!Going, Boot!Here
<1>2. k \in BootJobs /\ h \in Boot!Items
  BY <1>1, HeadIs
<1>3. /\ PhaseOK(k) /\ (Undisturbed(t) => WellOK(k, item, private, contract, cloned, hooksDir))
      /\ private \subseteq Boot!Items /\ ItemTypes
  BY DEF BootInv, BootTypes
<1>4. k.code = 0 /\ k.kind # "check"
  BY <1>1, <1>3 DEF PhaseOK
<1>5. /\ next \in BootJobs /\ next.at = "look" /\ next.todo = Tail(k.todo) /\ next.kind = k.kind
      /\ next.hooks = k.hooks /\ next.failed = k.failed /\ next.code = k.code
      /\ next.made = k.made
  BY <1>1, <1>2, NextItemIs
<1> HIDE DEF next
<1>6. /\ ItemTypes' /\ \A x \in Boot!Items \ {h} : item'[x] = item[x]
      /\ item[h] = "torn" => item'[h] = "ours"
  <2>1. "ours" \in Boot!Values(h)
    BY <1>2, ValueIs
  <2>2. CASE item[h] = "torn"
    BY <1>1, <1>2, <1>3, <2>1, <2>2, PutTypes
  <2>3. CASE item[h] # "torn"
    BY <1>1, <1>3, <2>3 DEF ItemTypes
  <2> QED
    BY <2>2, <2>3
<1>7. ASSUME Undisturbed(t), Sound(k) PROVE item'[h] = "ours" /\ Boot!Mcp \notin k.made
  BY <1>1, <1>3, <1>6, <1>7 DEF WellOK
<1>8. private \subseteq private' /\ private' \subseteq Boot!Items
  BY <1>1, <1>3
<1>9. CASE h = Boot!Mcp
  <2>1. Boot!Step(t, next)
    BY <1>1, <1>9
  <2>2. Undisturbed(t) /\ Sound(k) =>
          /\ h \in Wanted(k.kind, contract, hooksDir) => Good(h, item')
          /\ h \in next.made => item'[h] = "ours" /\ h \in private'
    BY <1>5, <1>7, <1>9 DEF Good
  <2>3. next.made \subseteq k.made \union {h}
    BY <1>5
  <2> QED
    BY <1>1, <1>4, <1>5, <1>6, <1>8, <2>1, <2>2, <2>3, NextKeeps
<1>10. CASE h # Boot!Mcp
  <2>1. Boot!Step(t, [k EXCEPT !.at = "chmod"])
    BY <1>1, <1>10
  <2>2. Undisturbed(t) /\ Sound(k) => item'[h] = IF "chmod" = "fill" THEN "torn" ELSE "ours"
    BY <1>7
  <2> QED
    BY <1>1, <1>6, <1>8, <1>10, <2>1, <2>2, WriteKeeps
<1> QED
  BY <1>9, <1>10

LEMMA ChmodKeeps ==
  ASSUME BootInv, NEW t \in Terminals, Boot!Chmod(t)
  PROVE  BootInv'
<1> DEFINE k == setup[t]
           h == Head(setup[t].todo)
           more == [setup[t] EXCEPT !.made = @ \union {h}]
           next == Boot!NextItem(more)
           fail == Boot!Failed(k)
<1>1. /\ k.at = "chmod" /\ k.todo # <<>> /\ UNCHANGED item /\ Boot!NothingElse
      /\ IF item[h] = "absent" THEN UNCHANGED private /\ Boot!Step(t, fail)
         ELSE private' = private \union {h} /\ Boot!Step(t, next)
  BY DEF Boot!Chmod, Boot!Going, Boot!Here
<1>2. k \in BootJobs /\ h \in Boot!Items
  BY <1>1, HeadIs
<1>3. /\ PhaseOK(k) /\ (Undisturbed(t) => WellOK(k, item, private, contract, cloned, hooksDir))
      /\ private \subseteq Boot!Items /\ ItemTypes /\ edits \in 0..MaxEdits
  BY DEF BootInv, BootTypes
<1>4. k.code = 0 /\ k.kind # "check"
  BY <1>1, <1>3 DEF PhaseOK
<1>5. fail \in BootJobs /\ fail.at = "look" /\ fail.failed /\ fail.kind # "check" /\ fail.code = 0
  BY <1>1, <1>2, <1>4, FailedIs
<1>6. k.made \union {h} \in SUBSET Boot!Items
  BY <1>2 DEF BootJobs
<1>7. /\ more \in BootJobs /\ more.todo = k.todo /\ more.kind = k.kind /\ more.hooks = k.hooks
      /\ more.failed = k.failed /\ more.code = k.code /\ more.made = k.made \union {h}
  BY <1>2, <1>6 DEF BootJobs
<1> HIDE DEF more
<1>8. /\ next \in BootJobs /\ next.at = "look" /\ next.todo = Tail(k.todo) /\ next.kind = k.kind
      /\ next.hooks = k.hooks /\ next.failed = k.failed /\ next.code = k.code
      /\ next.made = k.made \union {h}
  BY <1>1, <1>7, NextItemIs
<1> HIDE DEF next, fail
<1>9. ItemTypes' /\ (\A x \in Boot!Items \ {h} : item'[x] = item[x]) /\ item' = item
  BY <1>1, <1>3 DEF ItemTypes
<1>10. CASE item[h] = "absent"
  <2>1. UNCHANGED <<item, private, contract, cloned, hooksDir, edits>> /\ Boot!Step(t, fail)
    BY <1>1, <1>10 DEF Boot!NothingElse
  <2>2. edits' \in 0..MaxEdits /\ edits' >= edits
    BY <1>3, <2>1
  <2> QED
    BY <1>5, <2>1, <2>2, FailKeeps
<1>11. CASE item[h] # "absent"
  <2>1. private' = private \union {h} /\ Boot!Step(t, next)
    BY <1>1, <1>11
  <2>2. private \subseteq private' /\ private' \subseteq Boot!Items
    BY <1>2, <1>3, <2>1
  <2>3. ASSUME Undisturbed(t), Sound(k) PROVE item[h] = "ours"
    BY <1>1, <1>3, <2>3 DEF WellOK
  <2>4. Undisturbed(t) /\ Sound(k) =>
          /\ h \in Wanted(k.kind, contract, hooksDir) => Good(h, item')
          /\ h \in next.made => item'[h] = "ours" /\ h \in private'
    BY <1>9, <2>1, <2>3 DEF Good
  <2>5. h # Boot!Mcp
    BY <1>1, <1>3 DEF PhaseOK
  <2>6. Boot!Mcp \in next.made => Boot!Mcp \in k.made
    BY <1>8, <2>5
  <2> QED
    BY <1>1, <1>4, <1>8, <1>9, <2>1, <2>2, <2>4, <2>6, NextKeeps
<1> QED
  BY <1>10, <1>11

LEMMA ErrorKeeps ==
  ASSUME BootInv, NEW t \in Terminals, Boot!Error(t)
  PROVE  BootInv'
<1> DEFINE k == setup[t]
           fail == Boot!Failed(k)
<1>1. /\ k.at \in {"make", "fill", "chmod"}
      /\ UNCHANGED <<item, private, contract, cloned, hooksDir>>
      /\ edits < MaxEdits /\ edits' = edits + 1 /\ Boot!Step(t, fail)
  BY DEF Boot!Error
<1>2. k \in BootJobs /\ PhaseOK(k) /\ edits \in 0..MaxEdits
  BY DEF BootInv, BootTypes
<1>3. k.code = 0 /\ k.kind # "check" /\ k.todo # <<>>
  BY <1>1, <1>2 DEF PhaseOK
<1>4. fail \in BootJobs /\ fail.at = "look" /\ fail.failed /\ fail.kind # "check" /\ fail.code = 0
  BY <1>2, <1>3, FailedIs
<1> HIDE DEF fail
<1>5. edits' \in 0..MaxEdits /\ edits' >= edits
  BY <1>1, <1>2, BootBounds
<1> QED
  BY <1>1, <1>4, <1>5, FailKeeps

LEMMA KillKeeps ==
  ASSUME BootInv, NEW t \in Terminals, Boot!Kill(t)
  PROVE  BootInv'
<1> DEFINE k == setup[t]
           j == [setup[t] EXCEPT !.at = "killed"]
<1>1. /\ k.at \notin {"idle", "done", "killed"}
      /\ UNCHANGED <<item, private, contract, cloned, hooksDir, edits>> /\ Boot!Step(t, j)
  BY DEF Boot!Kill, Boot!NothingElse
<1>2. k \in BootJobs /\ PhaseOK(k) /\ edits \in 0..MaxEdits
  BY DEF BootInv, BootTypes
<1>3. j \in BootJobs /\ j.at = "killed" /\ j.code = k.code /\ j.kind = k.kind
  BY <1>2 DEF BootJobs
<1> HIDE DEF j
<1>4. setup'[t] \in BootJobs /\ Same(setup'[t], j)
  BY <1>1, <1>3, StepIs DEF BootInv, BootTypes
<1>5. BootTypes'
  BY <1>1, <1>3, StepTypes DEF BootInv, BootTypes, ItemTypes
<1>6. OwnOK(t)'
  BY <1>1, <1>2, <1>3, <1>4 DEF OwnOK, PhaseOK, CheckOK, KeptOK, Same
<1>7. Well(t)'
  BY <1>3, <1>4 DEF Well, WellOK, Sound, Same
<1> QED
  BY <1>1, <1>2, <1>3, <1>5, <1>6, <1>7, StepKeeps

LEMMA ExitKeeps ==
  ASSUME BootInv, NEW t \in Terminals, Boot!Exit(t)
  PROVE  BootInv'
<1> DEFINE k == setup[t]
           code == IF k.failed THEN 1
                   ELSE IF k.kind = "check" /\ Boot!Found = {} THEN 2 ELSE 0
           j == [setup[t] EXCEPT !.at = "done", !.code = code]
           n == setup'[t]
<1>1. /\ k.at = "look" /\ k.todo = <<>>
      /\ UNCHANGED <<item, private, contract, cloned, hooksDir, edits>> /\ Boot!Step(t, j)
  BY DEF Boot!Exit, Boot!NothingElse
<1>2. /\ k \in BootJobs /\ PhaseOK(k) /\ CheckOK(k, contract) /\ edits \in 0..MaxEdits
      /\ Undisturbed(t) => WellOK(k, item, private, contract, cloned, hooksDir)
  BY DEF BootInv, BootTypes
<1>3. /\ code \in 0..2
      /\ k.failed => code = 1
      /\ ~k.failed => code # 1
      /\ k.kind # "check" /\ ~k.failed => code = 0
  OBVIOUS
<1> HIDE DEF code
<1>4. /\ j \in BootJobs /\ j.at = "done" /\ j.code = code /\ j.todo = k.todo /\ j.kind = k.kind
      /\ j.hooks = k.hooks /\ j.failed = k.failed /\ j.made = k.made
      /\ j.steady = k.steady /\ j.ever = k.ever
  BY <1>2, <1>3 DEF BootJobs
<1> HIDE DEF j
<1>5. n \in BootJobs /\ Same(n, j) /\ n = j
  BY <1>1, <1>4, StepIs DEF BootInv, BootTypes, Resting
<1>6. BootTypes'
  BY <1>1, <1>4, StepTypes DEF BootInv, BootTypes, ItemTypes
<1>7. Told(k.todo) = {}
  BY <1>1, ToldOf
<1>8. PhaseOK(n) /\ KeptOK(n, item')
  BY <1>1, <1>3, <1>4, <1>5 DEF PhaseOK, KeptOK
<1>9. CheckOK(n, contract')
  BY <1>1, <1>2, <1>3, <1>4, <1>5, <1>7 DEF CheckOK
<1>10. ASSUME Undisturbed(t) PROVE WellOK(n, item, private, contract, cloned, hooksDir)
  <2> SUFFICES ASSUME Sound(n) PROVE WellOK(n, item, private, contract, cloned, hooksDir)
    BY DEF WellOK
  <2>1. k.code = 0
    BY <1>1, <1>2 DEF PhaseOK
  <2>2. Sound(k) /\ WellOK(k, item, private, contract, cloned, hooksDir)
    BY <1>1, <1>2, <1>4, <1>5, <1>10, <2>1 DEF Sound
  <2>3. n.at = "done" /\ n.todo = k.todo /\ n.kind = k.kind /\ n.made = k.made
    BY <1>4, <1>5
  <2> HIDE DEF n
  <2> QED
    BY <1>1, <2>2, <2>3 DEF WellOK
<1>11. Undisturbed(t) => Well(t)'
  BY <1>1, <1>10 DEF Well
<1>12. OwnOK(t)'
  BY <1>8, <1>9 DEF OwnOK
<1> QED
  BY <1>1, <1>2, <1>4, <1>6, <1>11, <1>12, StepKeeps

LEMMA CloneKeeps ==
  ASSUME BootInv, NEW t \in Terminals, Boot!Clone(t)
  PROVE  BootInv'
<1>1. PICK ok \in SUBSET (Scope \ cloned) :
        /\ setup[t].at = "clone"
        /\ UNCHANGED <<item, private, contract, hooksDir, edits>>
        /\ cloned' = cloned \union ok
        /\ Boot!Step(t, [ setup[t] EXCEPT !.at = "look", !.failed = cloned' # Scope,
                            !.todo = IF setup[t].hooks THEN Boot!Tasks ELSE <<>> ])
  BY DEF Boot!Clone
<1> DEFINE k == setup[t]
           bad == cloned' # Scope
           s == IF setup[t].hooks THEN Boot!Tasks ELSE <<>>
           j == [setup[t] EXCEPT !.at = "look", !.failed = bad, !.todo = s]
           n == setup'[t]
           cl2 == cloned'
<1>2. Boot!Step(t, j)
  BY <1>1
<1>3. k \in BootJobs /\ PhaseOK(k) /\ cloned \subseteq Scope /\ edits \in 0..MaxEdits
  BY DEF BootInv, BootTypes
<1>4. s \in Seq(Boot!Items)
  BY TasksIs
<1>5. k.hooks => Wanted("init", contract, hooksDir) \subseteq Told(s)
  BY TasksIs
<1>6. bad \in BOOLEAN /\ (~bad => cl2 = Scope)
  OBVIOUS
<1> HIDE DEF s, bad, cl2
<1>7. /\ j \in BootJobs /\ j.at = "look" /\ j.todo = s /\ j.kind = k.kind
      /\ j.hooks = k.hooks /\ j.failed = bad /\ j.code = k.code /\ j.made = k.made
  BY <1>3, <1>4, <1>6 DEF BootJobs
<1>8. k.kind = "init" /\ k.made = {} /\ k.code = 0
  BY <1>1, <1>3 DEF PhaseOK
<1> HIDE DEF j
<1>9. n \in BootJobs /\ Same(n, j)
  BY <1>2, <1>7, StepIs DEF BootInv, BootTypes
<1>10. BootTypes'
  BY <1>1, <1>2, <1>3, <1>7, StepTypes DEF BootInv, BootTypes, ItemTypes
<1>11. OwnOK(t)'
  BY <1>7, <1>8, <1>9, AtLook DEF OwnOK, Same
<1>12. WellOK(n, item, private, contract, cl2, hooksDir)
  <2>1. /\ n.at = "look" /\ n.todo = s /\ n.kind = "init" /\ n.made = {} /\ n.hooks = k.hooks
        /\ n.failed = bad
    BY <1>7, <1>8, <1>9 DEF Same
  <2> HIDE DEF n
  <2> QED
    BY <1>5, <1>6, <2>1 DEF WellOK, Sound
<1>13. Well(t)'
  BY <1>1, <1>12 DEF Well, cl2
<1> QED
  BY <1>1, <1>2, <1>3, <1>7, <1>10, <1>11, <1>13, StepKeeps

(* What the check says of a file is whether it is at fault. *)
LEMMA BadIsFault ==
  ASSUME BootTypes, NEW i \in Boot!Items,
         i = Boot!Mcp \/ (i \in Boot!Envs /\ contract[i[2]] # "none")
  PROVE  i \in Boot!Faults(item, private, contract)
           <=> IF i = Boot!Mcp THEN Boot!McpExposed(item, private)
               ELSE ~Boot!Satisfies(item[i], contract[i[2]])
<1>1. i = Boot!Mcp => i \notin Boot!Envs
  BY ItemKinds DEF KindOK
<1>2. CASE i = Boot!Mcp
  BY <1>1, <1>2 DEF Boot!Faults, Boot!McpExposed
<1>3. CASE i # Boot!Mcp
  <2>1. i \in Boot!Envs /\ contract[i[2]] \in Boot!Contracts \ {"none"}
    BY <1>3, ItemKinds DEF KindOK, BootTypes
  <2>2. i \in Boot!Faults(item, private, contract)
          <=> ~(\/ contract[i[2]] # "broken" /\ item[i] = "mine"
                \/ contract[i[2]] = "defaults" /\ item[i] = "ours")
    BY <1>3, <2>1 DEF Boot!Faults
  <2> QED
    BY <1>3, <2>1, <2>2 DEF Boot!Satisfies, Boot!Parsed, Boot!Contracts
<1> QED
  BY <1>2, <1>3

LEMMA InspectKeeps ==
  ASSUME BootInv, NEW t \in Terminals, Boot!Inspect(t)
  PROVE  BootInv'
<1> DEFINE k == setup[t]
           h == Head(setup[t].todo)
           bad == IF h = Boot!Mcp THEN Boot!McpExposed(item, private)
                  ELSE ~Boot!Satisfies(item[h], contract[h[2]])
           j == IF bad THEN Boot!Failed(k) ELSE Boot!NextItem(k)
           n == setup'[t]
           f == Boot!Faults(item, private, contract)
<1>1. /\ k.at = "look" /\ k.todo # <<>> /\ k.kind = "check"
      /\ UNCHANGED <<item, private, contract, cloned, hooksDir, edits>> /\ Boot!Step(t, j)
  BY DEF Boot!Inspect, Boot!Going, Boot!Here, Boot!NothingElse
<1>2. /\ k \in BootJobs /\ PhaseOK(k) /\ CheckOK(k, contract) /\ edits \in 0..MaxEdits
      /\ h \in Boot!Items /\ BootTypes
      /\ Told(k.todo) = {h} \union Told(Tail(k.todo))
  BY <1>1, HeadIs DEF BootInv, BootTypes
<1>3. h = Boot!Mcp \/ (h \in Boot!Envs /\ contract[h[2]] # "none")
  BY <1>1, <1>2 DEF CheckOK
<1>4. bad <=> h \in f
  BY <1>2, <1>3, BadIsFault
<1> HIDE DEF bad
<1>5. /\ j \in BootJobs /\ j.at = "look" /\ j.kind = k.kind /\ j.code = k.code
      /\ j.failed <=> k.failed \/ bad
      /\ j.todo = Tail(k.todo) /\ j.steady = k.steady /\ j.ever = k.ever
  <2>1. CASE bad
    <3>1. j = Boot!Failed(k)
      BY <2>1
    <3> HIDE DEF j
    <3> QED
      BY <1>1, <1>2, <2>1, <3>1, FailedIs
  <2>2. CASE ~bad
    <3>1. j = Boot!NextItem(k)
      BY <2>2
    <3> HIDE DEF j
    <3>2. j.steady = k.steady /\ j.ever = k.ever
      BY <1>2, <3>1 DEF Boot!NextItem, BootJobs
    <3> QED
      BY <1>1, <1>2, <2>2, <3>1, <3>2, NextItemIs
  <2> QED
    BY <2>1, <2>2
<1> HIDE DEF j
<1>6. /\ n \in BootJobs /\ Same(n, j) /\ n.steady \subseteq j.steady /\ j.ever \subseteq n.ever
      /\ n.steady \subseteq Boot!Faults(item', private', contract')
      /\ Boot!Faults(item', private', contract') \subseteq n.ever
  BY <1>1, <1>2, <1>5, StepIs DEF BootInv, BootTypes, Resting
<1>7. Boot!Faults(item', private', contract') = f
  BY <1>1
<1>8. n.steady \subseteq f /\ f \subseteq n.ever
  BY <1>6, <1>7
<1> HIDE DEF f
<1>9. BootTypes'
  BY <1>1, <1>5, StepTypes DEF BootInv, BootTypes, ItemTypes
<1>10. /\ n.at = "look" /\ n.kind = "check" /\ n.code = 0 /\ n.todo = Tail(k.todo)
       /\ (n.failed <=> k.failed \/ bad) /\ n.steady \subseteq k.steady /\ k.ever \subseteq n.ever
  BY <1>1, <1>2, <1>5, <1>6 DEF Same, PhaseOK
<1>11. CheckOK(n, contract)
  BY <1>1, <1>2, <1>4, <1>8, <1>10 DEF CheckOK
<1>12. PhaseOK(n) /\ KeptOK(n, item')
  BY <1>10 DEF PhaseOK, KeptOK
<1>13. Well(t)'
  BY <1>10 DEF Well, WellOK, Sound
<1>14. OwnOK(t)'
  BY <1>1, <1>11, <1>12 DEF OwnOK
<1> QED
  BY <1>1, <1>2, <1>5, <1>9, <1>13, <1>14, StepKeeps

(* The start of a command. *)
LEMMA OpenedIs ==
  ASSUME BootInv, NEW t \in Terminals, NEW j, Boot!Opened(t, j), j \in BootJobs, j.at # "idle"
  PROVE  /\ BootTypes' /\ setup[t].at = "idle"
         /\ setup'[t] \in BootJobs /\ Same(setup'[t], j)
         /\ \A u \in Terminals \ {t} : setup'[u] = setup[u]
         /\ UNCHANGED <<item, private, contract, cloned, hooksDir>>
         /\ edits' >= edits
         /\ j.kind = "check" => /\ setup'[t].steady = Boot!Faults(item, private, contract)
                                /\ setup'[t].ever = Boot!Faults(item, private, contract)
<1> DEFINE f == IF j.kind = "check" THEN Boot!Faults(item, private, contract) ELSE {}
           m == {i \in Boot!Envs \union Boot!Hooks : item[i] = "absent"}
           new == [j EXCEPT !.steady = f, !.ever = f, !.missing = m]
           more == IF \E u \in Terminals : setup[u].at # "idle" THEN 1 ELSE 0
<1>1. /\ setup[t].at = "idle" /\ edits' = edits + more /\ edits' <= MaxEdits
      /\ setup' = [setup EXCEPT ![t] = new]
      /\ UNCHANGED <<item, private, contract, cloned, hooksDir>>
  BY DEF Boot!Opened
<1>2. f \in SUBSET Boot!Items /\ m \in SUBSET Boot!Items
  BY FaultsIn, ItemKinds
<1>3. more \in {0, 1}
  OBVIOUS
<1>4. j.kind = "check" => f = Boot!Faults(item, private, contract)
  OBVIOUS
<1> HIDE DEF f, m, more
<1>5. new \in BootJobs /\ Same(new, j) /\ new.steady = f /\ new.ever = f
  BY <1>2 DEF BootJobs, Same
<1> HIDE DEF new
<1>6. setup' \in [Terminals -> BootJobs] /\ setup'[t] = new
  BY <1>1, <1>5 DEF BootInv, BootTypes
<1>7. \A u \in Terminals \ {t} : setup'[u] = setup[u]
  BY <1>1 DEF BootInv, BootTypes
<1>8. edits' \in 0..MaxEdits /\ edits' >= edits
  BY <1>1, <1>3, BootBounds DEF BootInv, BootTypes
<1>9. BootTypes'
  BY <1>1, <1>6, <1>8 DEF BootInv, BootTypes, ItemTypes
<1> QED
  BY <1>1, <1>4, <1>5, <1>6, <1>7, <1>8, <1>9

LEMMA OpenedKeeps ==
  ASSUME BootInv, NEW t \in Terminals, NEW j, Boot!Opened(t, j), j \in BootJobs, j.at # "idle",
         OwnOK(t)', Well(t)'
  PROVE  BootInv'
<1>1. /\ BootTypes' /\ Same(setup'[t], j)
      /\ \A u \in Terminals \ {t} : setup'[u] = setup[u]
      /\ UNCHANGED <<item, private, contract, cloned, hooksDir>>
  BY OpenedIs
<1>2. ASSUME NEW u \in Terminals, u # t PROVE OwnOK(u)' /\ ~Undisturbed(u)'
  <2>1. OwnOK(u)'
    BY <1>1, <1>2 DEF BootInv, OwnOK
  <2>2. setup'[t].at # "idle"
    BY <1>1 DEF Same
  <2> QED
    BY <1>2, <2>1, <2>2 DEF Undisturbed
<1>3. ASSUME NEW u \in Terminals PROVE OwnOK(u)'
  BY <1>2
<1>4. ASSUME NEW u \in Terminals, Undisturbed(u)' PROVE Well(u)'
  BY <1>2, <1>4
<1> QED
  BY <1>1, <1>3, <1>4 DEF BootInv, OwnOK, Well

LEMMA IdleIs ==
  /\ Boot!Idle \in BootJobs /\ Boot!Idle.kind = "none" /\ Boot!Idle.at = "idle"
  /\ Boot!Idle.todo = <<>> /\ Boot!Idle.made = {} /\ Boot!Idle.failed = FALSE
  /\ Boot!Idle.code = 0
<1>1. <<>> \in Seq(Boot!Items)
  OBVIOUS
<1> QED
  BY <1>1 DEF Boot!Idle, BootJobs

LEMMA StartSetupKeeps ==
  ASSUME BootInv, NEW t \in Terminals, NEW b \in BOOLEAN, Boot!StartSetup(t, b)
  PROVE  BootInv'
<1> DEFINE s == Append(Boot!EnvsFound, Boot!Mcp)
           none == [Boot!Idle EXCEPT !.kind = "setup", !.at = "done", !.code = 2]
           some == [Boot!Idle EXCEPT !.kind = "setup", !.force = b, !.at = "look", !.todo = s]
           j == IF Boot!Found = {} THEN none ELSE some
           n == setup'[t]
<1>1. Boot!Opened(t, j)
  BY DEF Boot!StartSetup
<1>2. s \in Seq(Boot!Items) /\ Told(s) = {Boot!Env(d) : d \in Boot!Found} \union {Boot!Mcp}
  BY EnvsFoundIs DEF BootInv
<1> HIDE DEF s
<1>3. /\ none \in BootJobs /\ none.kind = "setup" /\ none.at = "done" /\ none.code = 2
      /\ none.todo = <<>>
  <2>1. 2 \in 0..2
    OBVIOUS
  <2> QED
    BY <2>1, IdleIs DEF BootJobs
<1>4. /\ some \in BootJobs /\ some.kind = "setup" /\ some.at = "look" /\ some.code = 0
      /\ some.todo = s /\ some.made = {}
  BY <1>2, IdleIs DEF BootJobs
<1> HIDE DEF none, some
<1>5. /\ j \in BootJobs /\ j.kind = "setup"
      /\ \/ j.at = "done" /\ j.code = 2 /\ j.todo = <<>>
         \/ j.at = "look" /\ j.code = 0 /\ j.todo = s /\ j.made = {}
  BY <1>3, <1>4
<1> HIDE DEF j
<1>6. /\ n \in BootJobs /\ Same(n, j)
      /\ UNCHANGED <<item, private, contract, cloned, hooksDir>>
  BY <1>1, <1>5, OpenedIs
<1> HIDE DEF n
<1>7. /\ n.kind = "setup"
      /\ \/ n.at = "done" /\ n.code = 2 /\ n.todo = <<>>
         \/ n.at = "look" /\ n.code = 0 /\ n.todo = s /\ n.made = {}
  BY <1>5, <1>6 DEF Same
<1>8. PhaseOK(n) /\ CheckOK(n, contract') /\ KeptOK(n, item')
  BY <1>7 DEF PhaseOK, CheckOK, KeptOK
<1>9. Wanted("setup", contract, hooksDir) = Told(s)
  BY <1>2 DEF Wanted, Boot!Found
<1>10. WellOK(n, item, private, contract, cloned, hooksDir)
  BY <1>7, <1>9 DEF WellOK, Sound
<1>11. OwnOK(t)'
  BY <1>8 DEF OwnOK, n
<1>12. Well(t)'
  BY <1>6, <1>10 DEF Well, n
<1> QED
  BY <1>1, <1>5, <1>11, <1>12, OpenedKeeps

LEMMA StartCheckKeeps ==
  ASSUME BootInv, NEW t \in Terminals, Boot!StartCheck(t)
  PROVE  BootInv'
<1> DEFINE s == Append(Boot!EnvsFound, Boot!Mcp)
           j == [Boot!Idle EXCEPT !.kind = "check", !.at = "look", !.todo = s]
           n == setup'[t]
           f == Boot!Faults(item, private, contract)
<1>1. Boot!Opened(t, j)
  BY DEF Boot!StartCheck
<1>2. s \in Seq(Boot!Items) /\ Told(s) = {Boot!Env(d) : d \in Boot!Found} \union {Boot!Mcp}
  BY EnvsFoundIs DEF BootInv
<1> HIDE DEF s
<1>3. /\ j \in BootJobs /\ j.kind = "check" /\ j.at = "look" /\ j.todo = s /\ j.code = 0
      /\ j.failed = FALSE
  BY <1>2, IdleIs DEF BootJobs
<1> HIDE DEF j
<1>4. /\ n \in BootJobs /\ Same(n, j)
      /\ UNCHANGED <<item, private, contract, cloned, hooksDir>>
      /\ n.steady = f
  BY <1>1, <1>3, OpenedIs
<1>5. \A i \in Told(s) : i = Boot!Mcp \/ (i \in Boot!Envs /\ contract[i[2]] # "none")
  <2>1. ASSUME NEW d \in Boot!Found
        PROVE  Boot!Env(d) \in Boot!Envs /\ contract[Boot!Env(d)[2]] # "none"
    <3>1. d \in Dirs /\ contract[d] # "none"
      BY DEF Boot!Found
    <3>2. Boot!Env(d)[2] = d
      BY DEF Boot!Env
    <3> QED
      BY <3>1, <3>2 DEF Boot!Envs
  <2> QED
    BY <1>2, <2>1
<1>6. f \subseteq Told(s)
  <2>1. ASSUME NEW i \in f PROVE i \in Told(s)
    <3>1. i = Boot!Mcp \/ (i \in Boot!Envs /\ contract[i[2]] # "none")
      BY DEF Boot!Faults
    <3>2. i \in Boot!Envs => i[2] \in Dirs /\ i = Boot!Env(i[2])
      BY ItemKinds DEF KindOK
    <3> QED
      BY <1>2, <3>1, <3>2 DEF Boot!Found
  <2> QED
    BY <2>1
<1> HIDE DEF n, f
<1>7. n.kind = "check" /\ n.at = "look" /\ n.todo = s /\ n.code = 0 /\ n.failed = FALSE
  BY <1>3, <1>4 DEF Same
<1>8. PhaseOK(n) /\ CheckOK(n, contract) /\ KeptOK(n, item')
  BY <1>4, <1>5, <1>6, <1>7 DEF PhaseOK, CheckOK, KeptOK
<1>9. OwnOK(t)'
  BY <1>4, <1>8 DEF OwnOK, n
<1>10. Well(t)'
  BY <1>7 DEF Well, WellOK, Sound, n
<1> QED
  BY <1>1, <1>3, <1>9, <1>10, OpenedKeeps

LEMMA StartInitKeeps ==
  ASSUME BootInv, NEW t \in Terminals, NEW b \in BOOLEAN, Boot!StartInit(t, b)
  PROVE  BootInv'
<1> DEFINE j == [Boot!Idle EXCEPT !.kind = "init", !.hooks = b, !.at = "clone"]
           n == setup'[t]
<1>1. Boot!Opened(t, j)
  BY DEF Boot!StartInit
<1>2. j \in BootJobs /\ j.kind = "init" /\ j.at = "clone" /\ j.code = 0 /\ j.made = {}
  BY IdleIs DEF BootJobs
<1> HIDE DEF j
<1>3. n \in BootJobs /\ Same(n, j)
  BY <1>1, <1>2, OpenedIs
<1> HIDE DEF n
<1>4. n.kind = "init" /\ n.at = "clone" /\ n.code = 0 /\ n.made = {}
  BY <1>2, <1>3 DEF Same
<1>5. OwnOK(t)'
  BY <1>4 DEF OwnOK, PhaseOK, CheckOK, KeptOK, n
<1>6. Well(t)'
  BY <1>4 DEF Well, WellOK, Sound, n
<1> QED
  BY <1>1, <1>2, <1>5, <1>6, OpenedKeeps

LEMMA EditKeeps ==
  ASSUME BootInv, Boot!Edit
  PROVE  BootInv'
<1>1. /\ edits < MaxEdits /\ UNCHANGED <<cloned, hooksDir>> /\ edits' = edits + 1
      /\ Boot!Step("", Boot!Idle)
  BY DEF Boot!Edit
<1>2. /\ ItemTypes /\ private \subseteq Boot!Items /\ contract \in [Dirs -> Boot!Contracts]
      /\ edits \in 0..MaxEdits
  BY DEF BootInv, BootTypes
<1>3. /\ ItemTypes' /\ private' \subseteq Boot!Items /\ contract' \in [Dirs -> Boot!Contracts]
      /\ \A d \in Dirs : contract[d] # "none" => contract'[d] # "none"
  <2>1. ASSUME NEW i \in Boot!Items, NEW v \in Boot!Values(i) \ {item[i]},
               Boot!Put(i, v), UNCHANGED <<private, contract>>
        PROVE  <1>3!:
    BY <1>2, <2>1, PutTypes
  <2>2. ASSUME NEW i \in Boot!Envs \union {Boot!Mcp},
               private' = IF i \in private THEN private \ {i} ELSE private \union {i},
               UNCHANGED <<item, contract>>
        PROVE  <1>3!:
    BY <1>2, <2>2, ItemKinds DEF ItemTypes
  <2>3. ASSUME NEW d \in Boot!Found, NEW c \in Boot!Contracts \ {"none"},
               contract' = [contract EXCEPT ![d] = c], UNCHANGED <<item, private>>
        PROVE  <1>3!:
    BY <1>2, <2>3 DEF ItemTypes, Boot!Found
  <2> QED
    BY <2>1, <2>2, <2>3 DEF Boot!Edit
<1>4. edits' \in 0..MaxEdits /\ edits' # 0
  <2>1. edits \in 0..MaxEdits /\ edits < MaxEdits /\ edits' = edits + 1
    BY <1>1, <1>2
  <2> QED
    BY <2>1, BootBounds
<1>5. BootTypes'
  BY <1>1, <1>3, <1>4, IdleIs, StepTypes DEF BootInv, BootTypes
<1>6. "" \notin Terminals
  BY InspectAssumption, Zenon
<1>7. ASSUME NEW u \in Terminals PROVE OwnOK(u)'
  <2>1. u # ""
    BY <1>6
  <2> QED
    BY <1>1, <1>3, <1>5, <2>1, IdleIs, OthersKeep DEF OwnOK
<1>8. \A u \in Terminals : ~Undisturbed(u)'
  BY <1>4 DEF Undisturbed
<1> QED
  BY <1>5, <1>7, <1>8 DEF BootInv, OwnOK

LEMMA BootStep == BootInv /\ Boot!Next => BootInv'
<1> SUFFICES ASSUME BootInv, Boot!Next PROVE BootInv'
  OBVIOUS
<1>1. CASE Boot!Edit
  BY <1>1, EditKeeps
<1>2. ASSUME NEW t \in Terminals, NEW b \in BOOLEAN, Boot!StartSetup(t, b) \/ Boot!StartInit(t, b)
      PROVE  BootInv'
  BY <1>2, StartSetupKeeps, StartInitKeeps
<1>3. ASSUME NEW t \in Terminals, Boot!StartCheck(t) \/ Boot!Clone(t) \/ Boot!Look(t)
      PROVE  BootInv'
  BY <1>3, StartCheckKeeps, CloneKeeps, LookKeeps
<1>4. ASSUME NEW t \in Terminals, Boot!MakeAtOnce(t) \/ Boot!OpenFile(t) \/ Boot!Fill(t)
      PROVE  BootInv'
  BY <1>4, MakeKeeps, OpenKeeps, FillKeeps
<1>5. ASSUME NEW t \in Terminals, Boot!Chmod(t) \/ Boot!Error(t) \/ Boot!Inspect(t)
      PROVE  BootInv'
  BY <1>5, ChmodKeeps, ErrorKeeps, InspectKeeps
<1>6. ASSUME NEW t \in Terminals, Boot!Exit(t) \/ Boot!Kill(t)
      PROVE  BootInv'
  BY <1>6, ExitKeeps, KillKeeps
<1> QED
  BY <1>1, <1>2, <1>3, <1>4, <1>5, <1>6 DEF Boot!Next

LEMMA BootStill == BootInv /\ UNCHANGED bootVars => BootInv'
BY DEF BootInv, BootTypes, ItemTypes, bootVars, Undisturbed

LEMMA BootInit == Boot!Init => BootInv
<1> SUFFICES ASSUME Boot!Init PROVE BootInv
  OBVIOUS
<1>1. PICK base \in {"absent", "ours"} :
        \/ /\ \E i \in Boot!Items : \E v \in Boot!Values(i) :
                item = [x \in Boot!Items |-> IF x = i THEN v ELSE base]
           /\ private = Boot!Envs \union {Boot!Mcp}
           /\ contract \in [Dirs -> {"defaults"}]
           /\ hooksDir = TRUE
        \/ /\ item = [x \in Boot!Items |-> base]
           /\ \E i \in Boot!Items : private = (Boot!Envs \union {Boot!Mcp}) \ {i}
           /\ contract \in [Dirs -> Boot!Contracts]
           /\ hooksDir \in BOOLEAN
  BY DEF Boot!Init
<1>2. /\ cloned \in {{}, Scope} /\ setup = [t \in Terminals |-> Boot!Idle] /\ edits = 0
  BY DEF Boot!Init
<1>3. \A x \in Boot!Items : base \in Boot!Values(x) /\ Boot!Values(x) \subseteq BootValues
  BY ValueIs
<1>4. ItemTypes
  BY <1>1, <1>3 DEF ItemTypes
<1>5. contract \in [Dirs -> Boot!Contracts] /\ hooksDir \in BOOLEAN
  BY <1>1 DEF Boot!Contracts
<1>6. private \subseteq Boot!Items
  BY <1>1, ItemKinds
<1>7. cloned \subseteq Scope /\ edits \in 0..MaxEdits
  BY <1>2, BootBounds
<1>8. BootTypes
  BY <1>2, <1>4, <1>5, <1>6, <1>7, IdleIs DEF BootTypes
<1>9. ASSUME NEW t \in Terminals PROVE setup[t] = Boot!Idle
  BY <1>2
<1>10. /\ PhaseOK(Boot!Idle) /\ CheckOK(Boot!Idle, contract) /\ KeptOK(Boot!Idle, item)
       /\ WellOK(Boot!Idle, item, private, contract, cloned, hooksDir)
  BY IdleIs DEF PhaseOK, CheckOK, KeptOK, WellOK, Sound
<1> QED
  BY <1>8, <1>9, <1>10 DEF BootInv

-----------------------------------------------------------------------------
(* What follows. *)
LEMMA BootTypeOK == BootInv => Boot!TypeOK
<1> SUFFICES ASSUME BootInv PROVE Boot!TypeOK
  OBVIOUS
<1>1. ASSUME NEW t \in Terminals
      PROVE  /\ setup[t].at \in {"idle", "clone", "look", "make", "fill", "chmod",
                                 "done", "killed"}
             /\ \A n \in DOMAIN setup[t].todo : setup[t].todo[n] \in Boot!Items
             /\ setup[t].code \in 0..2
  <2>1. setup[t] \in BootJobs
    BY DEF BootInv, BootTypes
  <2>2. setup[t].todo \in Seq(Boot!Items)
    BY <2>1 DEF BootJobs
  <2>3. \A n \in DOMAIN setup[t].todo : setup[t].todo[n] \in Boot!Items
    BY <2>2
  <2> QED
    BY <2>1, <2>3 DEF BootJobs
<1> QED
  BY <1>1 DEF BootInv, BootTypes, ItemTypes, Boot!TypeOK

LEMMA BootTells == BootInv => Boot!CheckIsEvidence /\ Boot!SuccessIsComplete
<1> SUFFICES ASSUME BootInv PROVE Boot!CheckIsEvidence /\ Boot!SuccessIsComplete
  OBVIOUS
<1>1. Boot!CheckIsEvidence
  BY DEF BootInv, CheckOK, Boot!CheckIsEvidence, Boot!Ended
<1>2. ASSUME NEW t \in Terminals, Undisturbed(t), setup[t].at = "done", setup[t].code = 0,
             setup[t].kind = "setup" \/ (setup[t].kind = "init" /\ setup[t].hooks)
      PROVE  /\ setup[t].kind = "init" => cloned = Scope
             /\ \A i \in Wanted(setup[t].kind, contract, hooksDir) : Good(i, item)
             /\ \A i \in setup[t].made : item[i] = "ours" /\ i \in private
  <2>1. WellOK(setup[t], item, private, contract, cloned, hooksDir) /\ PhaseOK(setup[t])
    BY <1>2 DEF BootInv
  <2>2. setup[t].todo = <<>> /\ ~setup[t].failed
    BY <1>2, <2>1 DEF PhaseOK
  <2>3. Told(setup[t].todo) = {}
    BY <2>2, ToldOf
  <2> QED
    BY <1>2, <2>1, <2>2, <2>3 DEF WellOK, Sound
<1>3. ASSUME NEW t \in Terminals, Undisturbed(t), Boot!Ended(t, "setup", 0)
      PROVE  /\ \A i \in setup[t].made : item[i] = "ours" /\ i \in private
             /\ \A d \in Boot!Found : item[Boot!Env(d)] # "absent"
             /\ item[Boot!Mcp] \notin {"absent", "alias"}
  <2>1. setup[t].kind = "setup" /\ setup[t].at = "done" /\ setup[t].code = 0
    BY <1>3 DEF Boot!Ended
  <2>2. Good(Boot!Mcp, item) /\ \A d \in Boot!Found : Good(Boot!Env(d), item)
    BY <1>2, <1>3, <2>1 DEF Wanted, Boot!Found
  <2>3. Boot!Mcp[1] = "mcp" /\ \A d : Boot!Env(d)[1] = "env"
    BY DEF Boot!Mcp, Boot!Env
  <2> QED
    BY <1>2, <1>3, <2>1, <2>2, <2>3 DEF Good
<1>4. ASSUME NEW t \in Terminals, Undisturbed(t), Boot!Ended(t, "init", 0), setup[t].hooks
      PROVE  /\ cloned = Scope /\ item[Boot!Tree] = "ours"
             /\ hooksDir => \A r \in Scope : item[Boot!Hook(r)] = "ours"
             /\ \A l \in Links : item[Boot!Link(l)] = "ours"
             /\ item[Boot!Mcp] \notin {"absent", "alias"}
  <2>1. setup[t].kind = "init" /\ setup[t].at = "done" /\ setup[t].code = 0
    BY <1>4 DEF Boot!Ended
  <2>2. /\ Good(Boot!Mcp, item) /\ Good(Boot!Tree, item)
        /\ hooksDir => \A r \in Scope : Good(Boot!Hook(r), item)
        /\ \A l \in Links : Good(Boot!Link(l), item)
    BY <1>2, <1>4, <2>1 DEF Wanted, Boot!Hooks
  <2>3. /\ Boot!Mcp[1] = "mcp" /\ Boot!Tree[1] = "tree" /\ \A r : Boot!Hook(r)[1] = "hook"
        /\ \A l : Boot!Link(l)[1] = "link"
    BY DEF Boot!Mcp, Boot!Tree, Boot!Hook, Boot!Link
  <2> QED
    BY <1>2, <1>4, <2>1, <2>2, <2>3 DEF Good
<1>5. Boot!SuccessIsComplete
  BY <1>3, <1>4 DEF Boot!SuccessIsComplete, Undisturbed
<1> QED
  BY <1>1, <1>5

KeepsTheirs ==
  item' # item /\ edits' = edits =>
    \A i \in {x \in Boot!Items : item'[x] # item[x] /\ item[x] \in {"mine", "wrong", "alias"}} :
      /\ i[1] \in {"env", "hook"}
      /\ \E t \in Terminals :
           /\ setup[t] # setup'[t]
           /\ \/ i \in setup[t].missing
              \/ i[1] = "env" /\ setup[t].force
              \/ i[1] = "hook" /\ ~setup[t].alone

LEMMA WritesAreTold ==
  ASSUME BootInv, NEW t \in Terminals, setup[t].todo # <<>>, NEW j \in BootJobs,
         Boot!Step(t, j), j.at # setup[t].at, NEW v \in Boot!Values(Head(setup[t].todo)),
         Boot!Put(Head(setup[t].todo), v),
         item[Head(setup[t].todo)] \in {"mine", "wrong", "alias"} =>
           /\ Head(setup[t].todo)[1] \in {"env", "hook"}
           /\ \/ Head(setup[t].todo) \in setup[t].missing
              \/ Head(setup[t].todo)[1] = "env" /\ setup[t].force
              \/ Head(setup[t].todo)[1] = "hook" /\ ~setup[t].alone
  PROVE  KeepsTheirs
<1>1. Head(setup[t].todo) \in Boot!Items
  BY HeadIs
<1>2. \A x \in Boot!Items \ {Head(setup[t].todo)} : item'[x] = item[x]
  BY <1>1, PutTypes DEF BootInv, BootTypes
<1>3. setup[t] # setup'[t]
  BY StepIs DEF Same, BootInv, BootTypes
<1> QED
  BY <1>1, <1>2, <1>3 DEF KeepsTheirs

LEMMA BootTouches ==
  ASSUME BootInv, Boot!Next \/ UNCHANGED bootVars
  PROVE  KeepsTheirs
<1> SUFFICES ASSUME item' # item, edits' = edits PROVE KeepsTheirs
  BY DEF KeepsTheirs
<1>1. edits \in 0..MaxEdits
  BY DEF BootInv, BootTypes
<1>2. ~Boot!Edit
  <2>1. Boot!Edit => edits' = edits + 1
    BY DEF Boot!Edit
  <2> QED
    BY <1>1, <2>1
<1>3. ASSUME NEW t \in Terminals, Boot!MakeAtOnce(t) PROVE KeepsTheirs
  <2> DEFINE h == Head(setup[t].todo)
  <2>1. /\ setup[t].at = "make" /\ setup[t].todo # <<>> /\ h[1] \in {"tree", "hook", "link"}
        /\ h[1] = "hook" \/ item[h] = "absent"
        /\ Boot!Put(h, "ours") /\ Boot!Step(t, Boot!NextItem(setup[t]))
    BY <1>3 DEF Boot!MakeAtOnce, Boot!Going, Boot!Here
  <2>2. /\ setup[t] \in BootJobs /\ h \in Boot!Items /\ KindOK(h)
        /\ item[h] \in Boot!Values(h)
    BY <2>1, HeadIs
  <2>3. KeptOK(setup[t], item)
    BY DEF BootInv
  <2>4. "ours" \in Boot!Values(h)
    BY <2>2, ValueIs
  <2>5. item[h] \in {"mine", "wrong", "alias"} => h[1] = "hook" /\ item[h] = "mine"
    BY <2>1, <2>2, ValueIs
  <2>6. item[h] \in {"mine", "wrong", "alias"} => h[1] = "hook" /\ ~setup[t].alone
    BY <2>1, <2>3, <2>5 DEF KeptOK
  <2>7. Boot!NextItem(setup[t]) \in BootJobs /\ Boot!NextItem(setup[t]).at # setup[t].at
    BY <2>1, <2>2, NextItemIs
  <2> QED
    BY <2>1, <2>4, <2>6, <2>7, WritesAreTold
<1>4. ASSUME NEW t \in Terminals, Boot!OpenFile(t) PROVE KeepsTheirs
  <2> DEFINE h == Head(setup[t].todo)
             j == [setup[t] EXCEPT !.at = "fill"]
  <2>1. /\ setup[t].at = "make" /\ setup[t].todo # <<>> /\ h[1] \in {"env", "mcp"}
        /\ h = Boot!Mcp => item[h] = "absent"
        /\ Boot!Put(h, "torn") /\ Boot!Step(t, j)
    BY <1>4 DEF Boot!OpenFile, Boot!Going, Boot!Here
  <2>2. setup[t] \in BootJobs /\ h \in Boot!Items /\ KindOK(h)
    BY <2>1, HeadIs
  <2>3. KeptOK(setup[t], item)
    BY DEF BootInv
  <2>4. "torn" \in Boot!Values(h)
    BY <2>1, <2>2, ValueIs
  <2>5. j \in BootJobs /\ j.at # setup[t].at
    BY <2>1, <2>2 DEF BootJobs
  <2> HIDE DEF j
  <2>6. item[h] \in {"mine", "wrong", "alias"} =>
          h[1] = "env" /\ (setup[t].force \/ h \in setup[t].missing)
    BY <2>1, <2>2, <2>3 DEF KeptOK, KindOK
  <2> QED
    BY <2>1, <2>4, <2>5, <2>6, WritesAreTold
<1>5. ASSUME NEW t \in Terminals, Boot!Fill(t) PROVE KeepsTheirs
  <2> DEFINE h == Head(setup[t].todo)
             j == IF h = Boot!Mcp THEN Boot!NextItem(setup[t])
                  ELSE [setup[t] EXCEPT !.at = "chmod"]
  <2>1. /\ setup[t].at = "fill" /\ setup[t].todo # <<>>
        /\ item[h] = "torn" /\ Boot!Put(h, "ours") /\ Boot!Step(t, j)
    BY <1>5 DEF Boot!Fill, Boot!Going, Boot!Here
  <2>2. setup[t] \in BootJobs /\ h \in Boot!Items
    BY <2>1, HeadIs
  <2>3. "ours" \in Boot!Values(h)
    BY <2>2, ValueIs
  <2>4. [setup[t] EXCEPT !.at = "chmod"] \in BootJobs
        /\ [setup[t] EXCEPT !.at = "chmod"].at = "chmod"
    BY <2>2 DEF BootJobs
  <2>5. Boot!NextItem(setup[t]) \in BootJobs /\ Boot!NextItem(setup[t]).at = "look"
    BY <2>1, <2>2, NextItemIs
  <2>6. j \in BootJobs /\ j.at # setup[t].at
    BY <2>1, <2>4, <2>5
  <2> HIDE DEF j
  <2> QED
    BY <2>1, <2>3, <2>6, WritesAreTold
<1>6. Boot!Next
  BY DEF bootVars
<1>7. PICK t \in Terminals : Boot!MakeAtOnce(t) \/ Boot!OpenFile(t) \/ Boot!Fill(t)
  BY <1>2, <1>6
     DEF Boot!Next, Boot!StartSetup, Boot!StartCheck, Boot!StartInit, Boot!Opened, Boot!Clone,
         Boot!Look, Boot!Chmod, Boot!Error, Boot!Inspect, Boot!Exit, Boot!Kill
<1> QED
  BY <1>3, <1>4, <1>5, <1>7

-----------------------------------------------------------------------------
(* The parts by themselves.                                                *)

LEMMA AuditNext == AuditInv /\ [Aud!Next]_(Aud!vars) => AuditInv'
BY AuditStep, AuditStill DEF Aud!vars, auditVars

LEMMA DoctorNext == DoctorInv /\ [Doc!Next]_(Doc!vars) => DoctorInv'
BY DoctorStep, DoctorStill DEF Doc!vars, doctorVars

LEMMA BootNext == BootInv /\ [Boot!Next]_(Boot!vars) => BootInv'
BY BootStep, BootStill DEF Boot!vars, bootVars

(* A change of the machine that the doctor makes has a reason: the flag    *)
(* that asks for it, or a fault its diagnosis saw (heal.go, recipes.go).   *)
THEOREM DoctorTouchesForAReason == Doc!Spec => Doc!TouchedForAReason
<1>1. DoctorInv /\ [Doc!Next]_(Doc!vars)
        => [ machine' # machine /\ changes' = changes =>
               \A a \in {x \in DOMAIN Doc!Values : machine'[x] # machine[x]} :
                 /\ visit.opts.fix
                 /\ \/ a = "key" /\ visit.opts.accept
                    \/ a = "assets" /\ visit.opts.remote
                    \/ \E c \in seen : a \in Doc!Remedied(c)
                    \/ visit.late /\ a \notin {"key", "assets"} ]_(Doc!vars)
  BY DoctorTouches DEF TouchesForAReason, Doc!vars, doctorVars
<1> QED
  BY <1>1, DoctorInit, DoctorNext, PTL DEF Doc!Spec, Doc!TouchedForAReason

(* No recipe runs twice in a command, and none breaks what it does not     *)
(* install (heal.go).                                                      *)
THEOREM DoctorDoesNoHarm == Doc!Spec => Doc!RecipesDoNoHarm
<1>1. DoctorInv /\ [Doc!Next]_(Doc!vars)
        => [ /\ visit'.ran # visit.ran =>
                  \A i, j \in DOMAIN visit'.ran : visit'.ran[i] = visit'.ran[j] => i = j
             /\ machine' # machine /\ changes' = changes =>
                  Doc!Faults(machine', visit.opts) \ {"go"}
                    \subseteq Doc!Faults(machine, visit.opts) ]_(Doc!vars)
  BY DoctorTouches DEF DoesNoHarm, Doc!vars, doctorVars
<1> QED
  BY <1>1, DoctorInit, DoctorNext, PTL DEF Doc!Spec, Doc!RecipesDoNoHarm

(* Who has something in the workspace keeps it, in any number of terminals *)
(* and whatever the developer does meanwhile (Bootstrap).                  *)
THEOREM BootstrapKeepsTheirs == Boot!Spec => Boot!TheirsIsKept
<1>1. BootInv /\ [Boot!Next]_(Boot!vars)
        => [ item' # item /\ edits' = edits =>
               \A i \in {x \in Boot!Items :
                           item'[x] # item[x] /\ item[x] \in {"mine", "wrong", "alias"}} :
                 /\ i[1] \in {"env", "hook"}
                 /\ \E t \in Terminals :
                      /\ setup[t] # setup'[t]
                      /\ \/ i \in setup[t].missing
                         \/ i[1] = "env" /\ setup[t].force
                         \/ i[1] = "hook" /\ ~setup[t].alone ]_(Boot!vars)
  BY BootTouches DEF KeepsTheirs, Boot!vars, bootVars
<1> QED
  BY <1>1, BootInit, BootNext, PTL DEF Boot!Spec, Boot!TheirsIsKept

-----------------------------------------------------------------------------
(* The parts together.                                                     *)
allVars == <<part, vars, auditVars, doctorVars, bootVars>>

InspectInv ==
  /\ part \in {"grants", "audit", "doctor", "bootstrap"}
  /\ IInv /\ AuditInv /\ DoctorInv /\ BootInv

LEMMA InspectInits ==
  Init4 => /\ part \in {"grants", "audit", "doctor", "bootstrap"}
           /\ Init /\ Aud!Init /\ Doc!Init /\ Boot!Init
BY DEF Init4

LEMMA InspectSteps ==
  [Next4]_allVars =>
    /\ part' = part
    /\ [Next]_vars
    /\ [Aud!Next]_(Aud!vars)
    /\ [Doc!Next]_(Doc!vars)
    /\ [Boot!Next]_(Boot!vars)
BY DEF Next4, On, Others, allVars, auditVars, doctorVars, bootVars, Aud!vars, Doc!vars,
       Boot!vars

LEMMA InspectInit == Init4 => InspectInv
BY InspectInits, InitEstablishesIInv, AuditInit, DoctorInit, BootInit DEF InspectInv

LEMMA InspectStep == InspectInv /\ [Next4]_allVars => InspectInv'
<1> SUFFICES ASSUME InspectInv, [Next4]_allVars PROVE InspectInv'
  OBVIOUS
<1>1. IInv' /\ AuditInv' /\ DoctorInv' /\ BootInv'
  BY InspectSteps, StepKeepsIInv, AuditNext, DoctorNext, BootNext DEF InspectInv
<1>2. part' = part
  BY InspectSteps
<1> QED
  BY <1>1, <1>2 DEF InspectInv

(* The inductive invariant of the four parts. *)
THEOREM InspectInvariance == InspectSpec => []InspectInv
BY InspectInit, InspectStep, PTL DEF InspectSpec, allVars

(* Every part keeps its types. *)
THEOREM InspectTypeCorrect == InspectSpec => []InspectTypeOK
<1>1. InspectInv => TypeOK /\ Aud!TypeOK /\ Doc!TypeOK /\ Boot!TypeOK
  BY AuditTypeOK, DoctorTypeOK, BootTypeOK DEF InspectInv, IInv
<1>2. InspectInv => part \in {"grants", "audit", "doctor", "bootstrap"}
  BY DEF InspectInv
<1>3. InspectInv => InspectTypeOK
  BY <1>1, <1>2 DEF InspectTypeOK
<1> QED
  BY <1>3, InspectInvariance, PTL

(* What the audit, the doctor, env check and init answer was so of the     *)
(* world while they ran.                                                   *)
THEOREM AnswersAreEvidenceAlways == InspectSpec => []AnswersAreEvidence
<1>1. InspectInv => Aud!ZeroIsClean /\ Aud!OneIsWrong /\ Aud!ErrorsAreTold
  BY AuditTells DEF InspectInv
<1>2. InspectInv => Doc!VerdictIsCurrent /\ Boot!CheckIsEvidence /\ Boot!SuccessIsComplete
  BY DoctorTells, BootTells DEF InspectInv
<1>3. InspectInv => AnswersAreEvidence
  BY <1>1, <1>2 DEF AnswersAreEvidence
<1> QED
  BY <1>3, InspectInvariance, PTL

(* Neither the doctor nor the commands of the workspace touch what they    *)
(* have no reason to, or what is somebody else's.                          *)
THEOREM HandsOffAlways == InspectSpec => HandsOff
<1>1. InspectSpec => Doc!Spec /\ Boot!Spec
  BY InspectInits, InspectSteps, PTL DEF InspectSpec, allVars, Doc!Spec, Boot!Spec
<1> QED
  BY <1>1, DoctorTouchesForAReason, DoctorDoesNoHarm, BootstrapKeepsTheirs DEF HandsOff

==============================================================================
