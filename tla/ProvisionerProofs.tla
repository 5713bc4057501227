-------------------------- MODULE ProvisionerProofs --------------------------
(***************************************************************************)
(* Proofs about Provisioner for every set of people, addresses and tokens  *)
(* and every pool of VPN offsets: nothing is left of a failed call,        *)
(* addresses are distinct, the address index is sound, and the provisioner *)
(* implements AccountDirectory.                                            *)
(***************************************************************************)
EXTENDS Provisioner, SequenceTheorems, TLAPS

(* What the call that holds the mutex has done so far for somebody who has *)
(* no account: the first n stages, which are its undo stack.               *)
Did(n) ==
  /\ Len(call.undo) = n
  /\ n >= 1 => call.undo[1] = "lldap"
  /\ n >= 2 => call.undo[2] = "forgejo"
  /\ call.uid \in lldap <=> n >= 1
  /\ forgejo[call.uid] # None <=> n >= 2
  /\ peers[call.uid] # None <=> n >= 3

Progress ==
  \/ call.phase = "lldap" /\ Did(0)
  \/ call.phase \in {"forgejo", "undo"} /\ Did(1)
  \/ call.phase \in {"wireguard", "undo"} /\ Did(2)
  \/ call.phase = "assemble" /\ Did(3)

CallOK ==
  ~Idle => users[call.uid] = None /\ userByEmail[call.email] = None /\ Progress

(* Every registry agrees about everybody else.                             *)
RegistriesOK ==
  \A u \in Uids :
    Idle \/ u # call.uid =>
      /\ users[u] # None <=> u \in lldap
      /\ users[u] # None <=> forgejo[u] # None
      /\ users[u] # None <=> peers[u] # None

(* An offset is held by the peer that has it, and in the pool by no other. *)
OffsetsOK ==
  /\ \A i \in Offsets, u \in Uids : allocated[i] = u => peers[u] = i
  /\ \A u \in Uids, i \in First .. Last : peers[u] = i => allocated[i] = u

(* Tokens are fresh when drawn, and stored with the account.               *)
TokensOK ==
  /\ \A u \in Uids : forgejo[u] # None => forgejo[u] \in spent
  /\ \A u, v \in Uids : u # v /\ forgejo[u] # None => forgejo[u] # forgejo[v]
  /\ \A u \in Uids : users[u] # None => users[u].cred = forgejo[u]

IInv == TypeOK /\ CallOK /\ RegistriesOK /\ OffsetsOK /\ TokensOK /\ IndexSound

-----------------------------------------------------------------------------
LEMMA InitEstablishesIInv == Init => IInv
<1> SUFFICES ASSUME Init PROVE IInv
  OBVIOUS
<1>1. << >> \in Seq(Stages)
  OBVIOUS
<1>2. call \in Call /\ Idle
  BY <1>1 DEF Init, Call, Idle
<1>3. TypeOK
  BY <1>2 DEF Init, TypeOK
<1>4. CallOK /\ RegistriesOK /\ TokensOK
  BY <1>2 DEF Init, CallOK, RegistriesOK, TokensOK
<1>5. First .. Last \subseteq Offsets
  BY PoolAssumption DEF Offsets, Overflow
<1>6. OffsetsOK
  BY <1>5, PoolAssumption, NoneAssumption DEF Init, OffsetsOK
<1>7. IndexSound
  BY NoneAssumption DEF Init, IndexSound
<1> QED
  BY <1>3, <1>4, <1>6, <1>7 DEF IInv

LEMMA CallType ==
  ASSUME call \in Call, NEW p \in {"idle"} \union Stages \union {"assemble", "undo"},
         NEW s \in Seq(Stages), GoTo(p, s)
  PROVE  call' \in Call
BY DEF Call, GoTo

(* The undo stack after one more stage, and after one was undone.          *)
LEMMA PushEffect ==
  ASSUME NEW stage \in Stages, call \in Call
  PROVE  /\ Push(stage) \in Seq(Stages)
         /\ Len(Push(stage)) = Len(call.undo) + 1
         /\ Push(stage)[Len(call.undo) + 1] = stage
         /\ \A i \in 1 .. Len(call.undo) : Push(stage)[i] = call.undo[i]
BY DEF Push, Call

LEMMA PopEffect ==
  ASSUME NEW s \in Seq(Stages), Len(s) >= 1
  PROVE  LET rest == SubSeq(s, 1, Len(s) - 1)
         IN  /\ rest \in Seq(Stages)
             /\ Len(rest) = Len(s) - 1
             /\ \A i \in 1 .. Len(s) - 1 : rest[i] = s[i]
OBVIOUS

(* An index or a registry with one entry replaced.                         *)
LEMMA PutType ==
  ASSUME NEW D, NEW R, NEW f \in [D -> R], NEW x \in D, NEW v \in R
  PROVE  [f EXCEPT ![x] = v] \in [D -> R]
OBVIOUS

LEMMA PutEffect ==
  ASSUME NEW D, NEW R, NEW f \in [D -> R], NEW x \in D, NEW v
  PROVE  /\ [f EXCEPT ![x] = v][x] = v
         /\ \A y \in D : y # x => [f EXCEPT ![x] = v][y] = f[y]
OBVIOUS

(* An index keeps its type when it loses an entry.                         *)
LEMMA DropOneType ==
  ASSUME NEW D, NEW R, NEW f \in [D -> R \union {None}], NEW u \in R,
         NEW g \in DropOne(f, u)
  PROVE  g \in [D -> R \union {None}]
BY DEF DropOne

(* Of an index with a single entry for u, only that entry goes.            *)
LEMMA OffsetDropped ==
  ASSUME allocated \in [Offsets -> Uids \union {None}], NEW u \in Uids,
         allocated' \in DropOne(allocated, u),
         \A x, y \in Offsets : allocated[x] = u /\ allocated[y] = u => x = y
  PROVE  \A x \in Offsets : allocated'[x] = IF allocated[x] = u THEN None ELSE allocated[x]
<1>1. CASE \E x \in DOMAIN allocated : allocated[x] = u
  <2>1. PICK y \in Offsets : allocated[y] = u /\ allocated' = [allocated EXCEPT ![y] = None]
    BY <1>1 DEF DropOne
  <2> QED
    BY <2>1
<1>2. CASE ~\E x \in DOMAIN allocated : allocated[x] = u
  <2>1. allocated' = allocated
    BY <1>2 DEF DropOne
  <2> QED
    BY <1>2, <2>1
<1> QED
  BY <1>1, <1>2

(* The same of the address index.                                          *)
LEMMA AddressDropped ==
  ASSUME userByEmail \in [Emails -> Uids \union {None}], NEW u \in Uids,
         userByEmail' \in DropOne(userByEmail, u),
         \A x, y \in Emails : userByEmail[x] = u /\ userByEmail[y] = u => x = y
  PROVE  \A x \in Emails : userByEmail'[x] = IF userByEmail[x] = u THEN None ELSE userByEmail[x]
<1>1. CASE \E x \in DOMAIN userByEmail : userByEmail[x] = u
  <2>1. PICK y \in Emails : userByEmail[y] = u /\ userByEmail' = [userByEmail EXCEPT ![y] = None]
    BY <1>1 DEF DropOne
  <2> QED
    BY <2>1
<1>2. CASE ~\E x \in DOMAIN userByEmail : userByEmail[x] = u
  <2>1. userByEmail' = userByEmail
    BY <1>2 DEF DropOne
  <2> QED
    BY <1>2, <2>1
<1> QED
  BY <1>1, <1>2

LEMMA TypeOKStep == TypeOK /\ CallOK /\ [Next]_vars => TypeOK'
<1> SUFFICES ASSUME TypeOK, CallOK, [Next]_vars PROVE TypeOK'
  OBVIOUS
<1> USE DEF TypeOK
<1>0. call.uid \in Uids /\ call.email \in Emails /\ call.undo \in Seq(Stages)
  BY DEF Call
<1>1. ASSUME NEW u \in Uids, NEW e \in Emails, Begin(u, e) PROVE TypeOK'
  <2>1. << >> \in Seq(Stages)
    OBVIOUS
  <2>2. call' \in Call
    BY <1>1, <2>1 DEF Begin, Call, Stages
  <2> QED
    BY <1>1, <2>2 DEF Begin
<1>2. CASE StageLldap
  <2>1. Push("lldap") \in Seq(Stages)
    BY PushEffect DEF Stages
  <2>2. call' \in Call
    BY <1>2, <2>1, CallType DEF StageLldap, Stages
  <2> QED
    BY <1>0, <1>2, <2>2 DEF StageLldap
<1>3. ASSUME NEW k \in Credentials, StageForgejo(k) PROVE TypeOK'
  <2>1. Push("forgejo") \in Seq(Stages)
    BY PushEffect DEF Stages
  <2>2. call' \in Call
    BY <1>3, <2>1, CallType DEF StageForgejo, Stages
  <2>3. forgejo' \in [Uids -> Credentials \union {None}]
    BY <1>0, <1>3, PutType DEF StageForgejo
  <2> QED
    BY <1>3, <2>2, <2>3 DEF StageForgejo
<1>4. ASSUME NEW i \in Offsets, StageWireGuard(i) PROVE TypeOK'
  <2>1. Push("wireguard") \in Seq(Stages)
    BY PushEffect DEF Stages
  <2>2. call' \in Call
    BY <1>4, <2>1, CallType DEF StageWireGuard, Stages
  <2>3. allocated' \in [Offsets -> Uids \union {None}]
    BY <1>0, <1>4, PutType DEF StageWireGuard
  <2>4. peers' \in [Uids -> Offsets \union {None}]
    BY <1>0, <1>4, PutType DEF StageWireGuard
  <2> QED
    BY <1>4, <2>2, <2>3, <2>4 DEF StageWireGuard
<1>5. CASE Assemble
  <2>1. << >> \in Seq(Stages)
    OBVIOUS
  <2>2. call' \in Call
    BY <1>5, <2>1, CallType DEF Assemble
  <2>3. forgejo[call.uid] \in Credentials
    BY <1>0, <1>5 DEF Assemble, CallOK, Idle, Progress, Did
  <2>4. users' \in [Uids -> [email : Emails, cred : Credentials] \union {None}]
    BY <1>0, <1>5, <2>3, PutType DEF Assemble
  <2>5. userByEmail' \in [Emails -> Uids \union {None}]
    BY <1>0, <1>5, PutType DEF Assemble
  <2> QED
    BY <1>5, <2>2, <2>4, <2>5 DEF Assemble
<1>6. CASE StageFails
  <2>1. call' \in Call
    BY <1>0, <1>6, CallType DEF StageFails
  <2> QED
    BY <1>6, <2>1 DEF StageFails
<1>7. CASE Undo
  <2> DEFINE rest == SubSeq(call.undo, 1, Len(call.undo) - 1)
  <2>1. rest \in Seq(Stages)
    BY <1>0, <1>7 DEF Undo, CallOK, Idle, Progress, Did
  <2>2. call' \in Call
    BY <1>7, <2>1, CallType DEF Undo
  <2>3. forgejo' \in [Uids -> Credentials \union {None}]
    BY <1>0, <1>7, PutType DEF Undo
  <2> QED
    BY <1>7, <2>2, <2>3 DEF Undo
<1>8. ASSUME NEW u \in Uids, Rollback(u) PROVE TypeOK'
  <2>1. userByEmail' \in [Emails -> Uids \union {None}]
    BY <1>8, DropOneType DEF Rollback
  <2>2. allocated' \in [Offsets -> Uids \union {None}]
    BY <1>8, DropOneType DEF Rollback
  <2> QED
    BY <1>8, <2>1, <2>2 DEF Rollback
<1>9. CASE Restart
  <2>1. << >> \in Seq(Stages)
    OBVIOUS
  <2>2. call' \in Call
    BY <1>9, <2>1, CallType DEF Restart
  <2> QED
    BY <1>9, <2>2 DEF Restart
<1>10. CASE UNCHANGED vars
  BY <1>10 DEF vars
<1> QED
  BY <1>1, <1>2, <1>3, <1>4, <1>5, <1>6, <1>7, <1>8, <1>9, <1>10 DEF Next

(* A step of the call leaves it in one of the situations of Progress.      *)
LEMMA CallStep == IInv /\ [Next]_vars => CallOK'
<1> SUFFICES ASSUME IInv, [Next]_vars PROVE CallOK'
  OBVIOUS
<1> USE DEF IInv, CallOK, Idle
<1>0. /\ call \in Call /\ call.uid \in Uids /\ call.email \in Emails
      /\ call.undo \in Seq(Stages) /\ Len(call.undo) \in Nat
  BY DEF TypeOK, Call
<1>1. ASSUME NEW u \in Uids, NEW e \in Emails, Begin(u, e) PROVE CallOK'
  <2>1. /\ users[u] = None /\ u \notin lldap
        /\ forgejo[u] = None /\ peers[u] = None
    BY <1>1 DEF Begin, Known, RegistriesOK
  <2>2. userByEmail[e] = None
    BY <1>1 DEF Begin, Known, IndexSound, TypeOK
  <2>3. /\ call'.phase = "lldap" /\ call'.uid = u /\ call'.email = e
        /\ Len(call'.undo) = 0
    BY <1>1 DEF Begin
  <2>4. Did(0)'
    BY <1>1, <2>1, <2>3 DEF Begin, Did
  <2> QED
    BY <1>1, <2>1, <2>2, <2>3, <2>4 DEF Begin, Progress
<1>2. CASE StageLldap
  <2>1. Did(0)
    BY <1>2 DEF StageLldap, Progress
  <2>2. Len(Push("lldap")) = 1 /\ Push("lldap")[1] = "lldap"
    BY <1>0, <2>1, PushEffect DEF Did, Stages
  <2>3. /\ call'.phase = "forgejo" /\ call'.uid = call.uid
        /\ call'.email = call.email /\ call'.undo = Push("lldap")
    BY <1>2 DEF StageLldap, GoTo
  <2>4. Did(1)'
    BY <1>2, <2>1, <2>2, <2>3 DEF StageLldap, Did
  <2> QED
    BY <1>2, <2>3, <2>4 DEF StageLldap, Progress
<1>3. ASSUME NEW k \in Credentials, StageForgejo(k) PROVE CallOK'
  <2>1. Did(1)
    BY <1>3 DEF StageForgejo, Progress
  <2>2. /\ Len(Push("forgejo")) = 2 /\ Push("forgejo")[2] = "forgejo"
        /\ Push("forgejo")[1] = "lldap"
    BY <1>0, <2>1, PushEffect DEF Did, Stages
  <2>3. /\ call'.phase = "wireguard" /\ call'.uid = call.uid
        /\ call'.email = call.email /\ call'.undo = Push("forgejo")
    BY <1>3 DEF StageForgejo, GoTo
  <2>4. forgejo'[call.uid] # None
    <3>1. forgejo'[call.uid] = k
      BY <1>0, <1>3, PutEffect DEF StageForgejo, TypeOK
    <3> QED
      BY <3>1, NoneAssumption
  <2>5. Did(2)'
    BY <1>3, <2>1, <2>2, <2>3, <2>4 DEF StageForgejo, Did
  <2> QED
    BY <1>3, <2>3, <2>5 DEF StageForgejo, Progress
<1>4. ASSUME NEW i \in Offsets, StageWireGuard(i) PROVE CallOK'
  <2>1. Did(2)
    BY <1>4 DEF StageWireGuard, Progress
  <2>2. /\ Len(Push("wireguard")) = 3 /\ Push("wireguard")[2] = "forgejo"
        /\ Push("wireguard")[1] = "lldap"
    BY <1>0, <2>1, PushEffect DEF Did, Stages
  <2>3. /\ call'.phase = "assemble" /\ call'.uid = call.uid
        /\ call'.email = call.email /\ call'.undo = Push("wireguard")
    BY <1>4 DEF StageWireGuard, GoTo
  <2>4. peers'[call.uid] # None
    <3>1. peers'[call.uid] = i
      BY <1>0, <1>4, PutEffect DEF StageWireGuard, TypeOK
    <3> QED
      BY <3>1, PoolAssumption, NoneAssumption DEF Offsets, Overflow
  <2>5. Did(3)'
    BY <1>4, <2>1, <2>2, <2>3, <2>4 DEF StageWireGuard, Did
  <2> QED
    BY <1>4, <2>3, <2>5 DEF StageWireGuard, Progress
<1>5. CASE Assemble \/ Restart
  BY <1>5 DEF Assemble, Restart, GoTo
<1>6. CASE StageFails
  <2>1. CASE call.undo = << >>
    BY <1>6, <2>1 DEF StageFails, GoTo
  <2>2. CASE call.undo # << >>
    <3>1. /\ call'.phase = "undo" /\ call'.uid = call.uid
          /\ call'.email = call.email /\ call'.undo = call.undo
      BY <1>6, <2>2 DEF StageFails, GoTo
    <3>2. Len(call.undo) # 0
      BY <1>0, <2>2, EmptySeq
    <3>3. Did(1) \/ Did(2)
      BY <1>6, <3>2 DEF StageFails, Progress, Did, Stages
    <3>4. Did(1)' \/ Did(2)'
      BY <1>6, <3>1, <3>3 DEF StageFails, Did
    <3> QED
      BY <1>6, <3>1, <3>4 DEF StageFails, Progress, Stages
  <2> QED
    BY <2>1, <2>2
<1>7. CASE Undo
  <2> DEFINE rest == SubSeq(call.undo, 1, Len(call.undo) - 1)
  <2>1. Did(1) \/ Did(2)
    BY <1>7 DEF Undo, Progress
  <2>2. Len(rest) = Len(call.undo) - 1
    BY <1>0, <2>1, PopEffect DEF Did
  <2>3. CASE Did(1)
    <3>1. rest = << >>
      BY <1>0, <2>2, <2>3, PopEffect, EmptySeq DEF Did
    <3> QED
      BY <1>7, <3>1 DEF Undo, GoTo
  <2>4. CASE Did(2)
    <3>1. /\ Len(rest) = 1 /\ rest[1] = "lldap"
          /\ call.undo[Len(call.undo)] = "forgejo"
      BY <1>0, <2>2, <2>4, PopEffect DEF Did
    <3>2. rest # << >>
      BY <1>0, <2>4, <3>1, PopEffect, EmptySeq DEF Did
    <3>3. /\ call'.phase = "undo" /\ call'.uid = call.uid
          /\ call'.email = call.email /\ call'.undo = rest
      BY <1>7, <3>2 DEF Undo, GoTo
    <3>4. lldap' = lldap /\ forgejo' = [forgejo EXCEPT ![call.uid] = None]
      BY <1>7, <3>1 DEF Undo
    <3>5. forgejo'[call.uid] = None
      BY <1>0, <3>4, PutEffect DEF TypeOK
    <3>6. Did(1)'
      BY <1>7, <2>4, <3>1, <3>3, <3>4, <3>5 DEF Undo, Did
    <3> QED
      BY <1>7, <3>3, <3>6 DEF Undo, Progress
  <2> QED
    BY <2>1, <2>3, <2>4
<1>8. ASSUME NEW u \in Uids, Rollback(u) PROVE CallOK'
  BY <1>8 DEF Rollback
<1>9. CASE UNCHANGED vars
  BY <1>9 DEF vars, Progress, Did
<1> QED
  BY <1>1, <1>2, <1>3, <1>4, <1>5, <1>6, <1>7, <1>8, <1>9 DEF Next

(* What the two stages that store something under the caller's uid store.  *)
LEMMA StoreEffect ==
  ASSUME IInv
  PROVE  /\ \A k \in Credentials : StageForgejo(k) =>
              /\ forgejo'[call.uid] = k
              /\ \A u \in Uids : u # call.uid => forgejo'[u] = forgejo[u]
         /\ \A i \in Offsets : StageWireGuard(i) =>
              /\ peers'[call.uid] = i /\ allocated'[i] = call.uid
              /\ \A u \in Uids : u # call.uid => peers'[u] = peers[u]
              /\ \A j \in Offsets : j # i => allocated'[j] = allocated[j]
<1>0. call.uid \in Uids
  BY DEF IInv, TypeOK, Call
<1>1. ASSUME NEW k \in Credentials, StageForgejo(k)
      PROVE  /\ forgejo'[call.uid] = k
             /\ \A u \in Uids : u # call.uid => forgejo'[u] = forgejo[u]
  BY <1>0, <1>1, PutEffect DEF StageForgejo, IInv, TypeOK
<1>2. ASSUME NEW i \in Offsets, StageWireGuard(i)
      PROVE  /\ peers'[call.uid] = i /\ allocated'[i] = call.uid
             /\ \A u \in Uids : u # call.uid => peers'[u] = peers[u]
             /\ \A j \in Offsets : j # i => allocated'[j] = allocated[j]
  <2>1. peers' = [peers EXCEPT ![call.uid] = i]
        /\ allocated' = [allocated EXCEPT ![i] = call.uid]
    BY <1>2 DEF StageWireGuard
  <2>2. peers'[call.uid] = i /\ \A u \in Uids : u # call.uid => peers'[u] = peers[u]
    BY <1>0, <2>1, PutEffect DEF IInv, TypeOK
  <2>3. /\ allocated'[i] = call.uid
        /\ \A j \in Offsets : j # i => allocated'[j] = allocated[j]
    BY <1>0, <2>1, PutEffect DEF IInv, TypeOK
  <2> QED
    BY <2>2, <2>3
<1> QED
  BY <1>1, <1>2

(* What an undone stage leaves: somebody else's entries as they were.      *)
LEMMA UndoEffect ==
  ASSUME IInv, Undo
  PROVE  /\ \A u \in Uids : u # call.uid =>
                /\ u \in lldap' <=> u \in lldap
                /\ forgejo'[u] = forgejo[u]
         /\ forgejo'[call.uid] \in {None, forgejo[call.uid]}
         /\ call'.phase = "idle" =>
                call.uid \notin lldap' /\ forgejo'[call.uid] = None
         /\ peers[call.uid] = None
<1> DEFINE rest == SubSeq(call.undo, 1, Len(call.undo) - 1)
<1>0. /\ call.uid \in Uids /\ call.undo \in Seq(Stages)
      /\ Len(call.undo) \in Nat
  BY DEF IInv, TypeOK, Call
<1>1. Did(1) \/ Did(2)
  BY DEF Undo, IInv, CallOK, Idle, Progress
<1>2. CASE Did(1)
  <2>1. call.undo[Len(call.undo)] = "lldap"
    BY <1>2 DEF Did
  <2>2. lldap' = lldap \ {call.uid} /\ forgejo' = forgejo
    BY <2>1 DEF Undo
  <2> QED
    BY <1>2, <2>2 DEF Did
<1>3. CASE Did(2)
  <2>1. call.undo[Len(call.undo)] = "forgejo"
    BY <1>3 DEF Did
  <2>2. lldap' = lldap /\ forgejo' = [forgejo EXCEPT ![call.uid] = None]
    BY <2>1 DEF Undo
  <2>3. /\ forgejo'[call.uid] = None
        /\ \A u \in Uids : u # call.uid => forgejo'[u] = forgejo[u]
    BY <1>0, <2>2, PutEffect DEF IInv, TypeOK
  <2>4. rest # << >>
    BY <1>0, <1>3, PopEffect, EmptySeq DEF Did
  <2>5. call'.phase = "undo"
    BY <2>4 DEF Undo, GoTo
  <2> QED
    BY <1>3, <2>2, <2>3, <2>5 DEF Did
<1> QED
  BY <1>1, <1>2, <1>3

(* What becomes of the accounts when one is assembled.                     *)
LEMMA AssembleEffect ==
  ASSUME IInv, Assemble
  PROVE  /\ users'[call.uid] = [email |-> call.email, cred |-> forgejo[call.uid]]
         /\ forgejo[call.uid] \in Credentials
         /\ users'[call.uid] # None
         /\ \A u \in Uids : u # call.uid => users'[u] = users[u]
         /\ userByEmail'[call.email] = call.uid
         /\ \A e \in Emails : e # call.email => userByEmail'[e] = userByEmail[e]
<1>0. call.uid \in Uids /\ call.email \in Emails
  BY DEF IInv, TypeOK, Call
<1>1. forgejo[call.uid] \in Credentials
  BY <1>0 DEF Assemble, IInv, CallOK, Idle, Progress, Did, TypeOK
<1>2. /\ users' = [users EXCEPT ![call.uid] =
                     [email |-> call.email, cred |-> forgejo[call.uid]]]
      /\ userByEmail' = [userByEmail EXCEPT ![call.email] = call.uid]
  BY DEF Assemble
<1>3. /\ users'[call.uid] = [email |-> call.email, cred |-> forgejo[call.uid]]
      /\ \A u \in Uids : u # call.uid => users'[u] = users[u]
  BY <1>0, <1>2, PutEffect DEF IInv, TypeOK
<1>4. /\ userByEmail'[call.email] = call.uid
      /\ \A e \in Emails : e # call.email => userByEmail'[e] = userByEmail[e]
  BY <1>0, <1>2, PutEffect DEF IInv, TypeOK
<1>5. users'[call.uid] # None
  BY <1>0, <1>1, <1>3, NoneAssumption
<1> QED
  BY <1>1, <1>3, <1>4, <1>5

LEMMA RegistriesStep == IInv /\ [Next]_vars => RegistriesOK'
<1> SUFFICES ASSUME IInv, [Next]_vars PROVE RegistriesOK'
  OBVIOUS
<1> USE DEF IInv, RegistriesOK, Idle
<1>0. call.uid \in Uids
  BY DEF TypeOK, Call
<1>1. ASSUME NEW u \in Uids, NEW e \in Emails, Begin(u, e) PROVE RegistriesOK'
  BY <1>1 DEF Begin
<1>2. CASE StageLldap
  BY <1>2 DEF StageLldap, GoTo
<1>3. ASSUME NEW k \in Credentials, StageForgejo(k) PROVE RegistriesOK'
  BY <1>3, StoreEffect DEF StageForgejo, GoTo
<1>4. ASSUME NEW i \in Offsets, StageWireGuard(i) PROVE RegistriesOK'
  BY <1>4, StoreEffect DEF StageWireGuard, GoTo
<1>5. CASE Assemble
  <2>1. Did(3)
    BY <1>5 DEF Assemble, CallOK, Progress
  <2> QED
    BY <1>5, <2>1, AssembleEffect DEF Assemble, Did
<1>6. CASE StageFails
  <2>1. call'.uid = call.uid
    BY <1>6 DEF StageFails, GoTo
  <2>2. CASE call.undo = << >>
    <3>1. Len(call.undo) = 0
      BY <2>2
    <3>2. Did(0)
      BY <1>6, <3>1 DEF StageFails, CallOK, Progress, Did, Stages
    <3> QED
      BY <1>6, <2>1, <3>2 DEF StageFails, CallOK, Did, Stages
  <2>3. CASE call.undo # << >>
    <3>1. call'.phase = "undo"
      BY <1>6, <2>3 DEF StageFails, GoTo
    <3> QED
      BY <1>6, <2>1, <3>1 DEF StageFails, Stages
  <2> QED
    BY <2>2, <2>3
<1>7. CASE Undo
  <2>1. call'.uid = call.uid /\ users' = users /\ peers' = peers
    BY <1>7 DEF Undo, GoTo
  <2>2. call.phase = "undo" /\ users[call.uid] = None
    BY <1>7 DEF Undo, CallOK
  <2> QED
    BY <1>7, <2>1, <2>2, UndoEffect
<1>8. ASSUME NEW u \in Uids, Rollback(u) PROVE RegistriesOK'
  BY <1>8 DEF Rollback, TypeOK
<1>9. CASE Restart
  BY <1>9 DEF Restart
<1>10. CASE UNCHANGED vars
  BY <1>10 DEF vars
<1> QED
  BY <1>1, <1>2, <1>3, <1>4, <1>5, <1>6, <1>7, <1>8, <1>9, <1>10 DEF Next

LEMMA OffsetsStep == IInv /\ [Next]_vars => OffsetsOK'
<1> SUFFICES ASSUME IInv, [Next]_vars PROVE OffsetsOK'
  OBVIOUS
<1> USE DEF IInv, OffsetsOK
<1>0. call.uid \in Uids
  BY DEF TypeOK, Call
<1>1. First .. Last \subseteq Offsets /\ Overflow \notin First .. Last
      /\ None \notin Offsets
  BY PoolAssumption, NoneAssumption DEF Offsets, Overflow
<1>2. ASSUME NEW i \in Offsets, StageWireGuard(i) PROVE OffsetsOK'
  <2>1. peers[call.uid] = None
    BY <1>2 DEF StageWireGuard, CallOK, Idle, Progress, Did
  <2>2. i \in First .. Last => allocated[i] = None
    BY <1>1, <1>2 DEF StageWireGuard, IsFreeOffset
  <2>3. ASSUME NEW j \in Offsets, NEW u \in Uids, allocated'[j] = u
        PROVE  peers'[u] = j
    <3>1. CASE j = i
      BY <1>0, <1>2, <2>3, <3>1, StoreEffect
    <3>2. CASE j # i
      <4>1. allocated[j] = u /\ peers[u] = j
        BY <1>2, <2>3, <3>2, StoreEffect
      <4>2. u # call.uid
        BY <1>1, <2>1, <4>1
      <4> QED
        BY <1>2, <4>1, <4>2, StoreEffect
    <3> QED
      BY <3>1, <3>2
  <2>4. ASSUME NEW u \in Uids, NEW j \in First .. Last, peers'[u] = j
        PROVE  allocated'[j] = u
    <3>1. CASE u = call.uid
      BY <1>2, <2>4, <3>1, StoreEffect
    <3>2. CASE u # call.uid
      <4>1. peers[u] = j /\ allocated[j] = u
        BY <1>2, <2>4, <3>2, StoreEffect
      <4>2. j # i
        BY <2>2, <4>1, NoneAssumption
      <4> QED
        BY <1>1, <1>2, <4>1, <4>2, StoreEffect
    <3> QED
      BY <3>1, <3>2
  <2> QED
    BY <2>3, <2>4
<1>3. ASSUME NEW u \in Uids, Rollback(u) PROVE OffsetsOK'
  <2>1. peers' = [peers EXCEPT ![u] = None] /\ allocated' \in DropOne(allocated, u)
    BY <1>3 DEF Rollback
  <2>2. peers'[u] = None /\ \A v \in Uids : v # u => peers'[v] = peers[v]
    BY <2>1, PutEffect DEF TypeOK
  <2>3. \A i, j \in Offsets : allocated[i] = u /\ allocated[j] = u => i = j
    OBVIOUS
  <2>4. \A x \in Offsets : allocated'[x] = IF allocated[x] = u THEN None ELSE allocated[x]
    <3>1. allocated \in [Offsets -> Uids \union {None}]
      BY DEF TypeOK
    <3> HIDE DEF IInv, TypeOK, IndexSound, OffsetsOK
    <3> QED
      BY <2>1, <2>3, <3>1, OffsetDropped
  <2>5. \A i \in Offsets : allocated'[i] # u
    BY <2>4, NoneAssumption
  <2>6. \A i \in Offsets : allocated[i] # u => allocated'[i] = allocated[i]
    BY <2>4
  <2>7. \A i \in Offsets, v \in Uids : allocated'[i] = v => peers'[v] = i
    BY <2>2, <2>4, <2>5, NoneAssumption
  <2>8. \A v \in Uids, i \in First .. Last : peers'[v] = i => allocated'[i] = v
    BY <1>1, <2>2, <2>6
  <2> QED
    BY <2>7, <2>8
<1>4. CASE Restart
  BY <1>1, <1>4, NoneAssumption DEF Restart
<1>5. CASE UNCHANGED <<peers, allocated>>
  BY <1>5
<1> QED
  BY <1>2, <1>3, <1>4, <1>5
     DEF Next, Begin, StageLldap, StageForgejo, Assemble, StageFails, Undo, vars

LEMMA TokensStep == IInv /\ [Next]_vars => TokensOK'
<1> SUFFICES ASSUME IInv, [Next]_vars PROVE TokensOK'
  OBVIOUS
<1> USE DEF IInv, TokensOK
<1>0. call.uid \in Uids
  BY DEF TypeOK, Call
<1>1. ASSUME NEW k \in Credentials, StageForgejo(k) PROVE TokensOK'
  <2>1. /\ k \notin spent /\ spent' = spent \union {k} /\ users' = users
        /\ users[call.uid] = None
    BY <1>1 DEF StageForgejo, CallOK, Idle
  <2>2. /\ forgejo'[call.uid] = k
        /\ \A u \in Uids : u # call.uid => forgejo'[u] = forgejo[u]
    BY <1>1, StoreEffect
  <2>3. \A u \in Uids : forgejo[u] # k
    BY <2>1, NoneAssumption
  <2> QED
    BY <1>0, <2>1, <2>2, <2>3
<1>2. CASE Assemble
  <2>1. forgejo' = forgejo /\ spent' = spent
    BY <1>2 DEF Assemble
  <2>2. users'[call.uid].cred = forgejo[call.uid]
    BY <1>2, AssembleEffect
  <2> QED
    BY <1>2, <2>1, <2>2, AssembleEffect
<1>3. CASE Undo
  <2>1. /\ users' = users /\ spent' = spent /\ users[call.uid] = None
    BY <1>3 DEF Undo, CallOK, Idle
  <2>2. \A u \in Uids : forgejo'[u] = forgejo[u] \/ (forgejo'[u] = None /\ u = call.uid)
    BY <1>3, UndoEffect
  <2> QED
    BY <2>1, <2>2
<1>4. ASSUME NEW u \in Uids, Rollback(u) PROVE TokensOK'
  <2>1. /\ users' = [users EXCEPT ![u] = None]
        /\ forgejo' = [forgejo EXCEPT ![u] = None] /\ spent' = spent
    BY <1>4 DEF Rollback
  <2> QED
    BY <2>1 DEF TypeOK
<1>5. CASE Restart
  BY <1>5 DEF Restart
<1>6. CASE UNCHANGED <<users, forgejo, spent>>
  BY <1>6
<1> QED
  BY <1>1, <1>2, <1>3, <1>4, <1>5, <1>6
     DEF Next, Begin, StageLldap, StageWireGuard, StageFails, vars

LEMMA IndexStep == IInv /\ [Next]_vars => IndexSound'
<1> SUFFICES ASSUME IInv, [Next]_vars PROVE IndexSound'
  OBVIOUS
<1> USE DEF IInv, IndexSound
<1>0. call.uid \in Uids /\ call.email \in Emails
  BY DEF TypeOK, Call
<1>1. CASE Assemble
  <2>1. users[call.uid] = None /\ userByEmail[call.email] = None
    BY <1>1 DEF Assemble, CallOK, Idle
  <2>2. users'[call.uid].email = call.email
    BY <1>1, AssembleEffect
  <2>3. ASSUME NEW e \in Emails, NEW u \in Uids
        PROVE  userByEmail'[e] = u <=> users'[u] # None /\ users'[u].email = e
    <3>1. CASE u = call.uid
      BY <1>0, <1>1, <2>1, <2>2, <3>1, AssembleEffect
    <3>2. CASE u # call.uid
      BY <1>0, <1>1, <2>1, <3>2, AssembleEffect, NoneAssumption
    <3> QED
      BY <3>1, <3>2
  <2> QED
    BY <2>3
<1>2. ASSUME NEW u \in Uids, Rollback(u) PROVE IndexSound'
  <2>1. users' = [users EXCEPT ![u] = None] /\ userByEmail' \in DropOne(userByEmail, u)
    BY <1>2 DEF Rollback
  <2>2. users'[u] = None /\ \A v \in Uids : v # u => users'[v] = users[v]
    BY <2>1, PutEffect DEF TypeOK
  <2>3. \A d, e \in Emails : userByEmail[d] = u /\ userByEmail[e] = u => d = e
    OBVIOUS
  <2>4. \A x \in Emails : userByEmail'[x] = IF userByEmail[x] = u THEN None ELSE userByEmail[x]
    <3>1. userByEmail \in [Emails -> Uids \union {None}]
      BY DEF TypeOK
    <3> HIDE DEF IInv, TypeOK, IndexSound, OffsetsOK
    <3> QED
      BY <2>1, <2>3, <3>1, AddressDropped
  <2>5. \A e \in Emails : userByEmail'[e] # u
    BY <2>4, NoneAssumption
  <2>6. \A e \in Emails, v \in Uids : v # u =>
          (userByEmail'[e] = v <=> userByEmail[e] = v)
    BY <2>4, NoneAssumption
  <2> QED
    BY <2>2, <2>5, <2>6
<1>3. CASE Restart
  BY <1>3, NoneAssumption DEF Restart
<1>4. CASE UNCHANGED <<users, userByEmail>>
  BY <1>4
<1> QED
  BY <1>1, <1>2, <1>3, <1>4
     DEF Next, Begin, StageLldap, StageForgejo, StageWireGuard, StageFails,
         Undo, vars

-----------------------------------------------------------------------------
(* The inductive invariant holds in every state of every behaviour, for    *)
(* any number of people and any pool of addresses.                         *)
THEOREM Invariance == Spec => []IInv
<1>1. IInv /\ [Next]_vars => IInv'
  BY TypeOKStep, CallStep, RegistriesStep, OffsetsStep, TokensStep, IndexStep
     DEF IInv
<1> QED
  BY InitEstablishesIInv, <1>1, PTL DEF Spec

(* The registries, the stack of undos and the tokens keep their types.     *)
THEOREM TypeCorrect == Spec => []TypeOK
<1>1. IInv => TypeOK
  BY DEF IInv
<1> QED
  BY Invariance, <1>1, PTL

(* Whatever stage failed and whatever was undone, between two calls the    *)
(* directory, git and VPN registries know the people who have an account   *)
(* and nobody else.                                                        *)
THEOREM NoResidueHolds == Spec => []NoResidue
<1>1. IInv => NoResidue
  BY DEF IInv, RegistriesOK, NoResidue
<1> QED
  BY Invariance, <1>1, PTL

(* No address of the pool is held by two peers, through any number of      *)
(* rollbacks and reallocations.                                            *)
THEOREM AddressesDistinctHolds == Spec => []AddressesDistinct
<1>1. ASSUME IInv PROVE AddressesDistinct
  <2> SUFFICES ASSUME NEW u \in Uids, NEW v \in Uids, u # v,
                      peers[u] # None, peers[u] = peers[v], peers[u] # Overflow
               PROVE  FALSE
    BY DEF AddressesDistinct
  <2>1. peers[u] \in Offsets
    BY <1>1 DEF IInv, TypeOK
  <2>2. peers[u] \in First .. Last
    BY <2>1, PoolAssumption DEF Offsets, Overflow
  <2> QED
    BY <1>1, <2>2 DEF IInv, OffsetsOK
<1> QED
  BY Invariance, <1>1, PTL

(* The address index names an account exactly when that account has that   *)
(* address, so a person is never provisioned twice.                        *)
THEOREM IndexSoundHolds == Spec => []IndexSound
<1>1. IInv => IndexSound
  BY DEF IInv
<1> QED
  BY Invariance, <1>1, PTL

-----------------------------------------------------------------------------
LEMMA RefinesInit == Init => Directory!Init
BY DEF Init, Directory!Init

(* Only a call that completes, a rollback and a restart show: the stages   *)
(* and their undos are steps of a call the directory does not see.         *)
LEMMA RefinesNext == IInv /\ [Next]_vars => [Directory!Next]_users
<1> SUFFICES ASSUME IInv, [Next]_vars PROVE [Directory!Next]_users
  OBVIOUS
<1>1. CASE Assemble
  <2>1. /\ call.uid \in Uids /\ call.email \in Emails
        /\ users[call.uid] = None /\ userByEmail[call.email] = None
    BY <1>1 DEF Assemble, IInv, TypeOK, Call, CallOK, Idle
  <2>2. PICK u \in Uids, e \in Emails : u = call.uid /\ e = call.email
    BY <2>1
  <2>3. PICK k \in Credentials : k = forgejo[u]
    BY <1>1, <2>2, AssembleEffect
  <2>4. \A v \in Uids : users[v] # None => v # u /\ users[v].email # e
    BY <2>1, <2>2, NoneAssumption DEF IInv, IndexSound
  <2>5. \A v \in Uids : users[v] # None => users[v].cred # k
    BY <2>3, <2>4, NoneAssumption DEF IInv, TokensOK
  <2>6. users' = [users EXCEPT ![u] = [email |-> e, cred |-> k]]
    BY <1>1, <2>2, <2>3 DEF Assemble
  <2>7. Directory!Create(u, e, k)
    BY <2>4, <2>5, <2>6
       DEF Directory!Create, Directory!Matches, Directory!Exists
  <2> QED
    BY <2>7 DEF Directory!Next
<1>2. ASSUME NEW u \in Uids, Rollback(u) PROVE [Directory!Next]_users
  <2>1. users' = [users EXCEPT ![u] = None]
    BY <1>2 DEF Rollback
  <2>2. CASE users[u] # None
    <3>1. Directory!Remove(u)
      BY <2>1, <2>2 DEF Directory!Remove, Directory!Exists
    <3> QED
      BY <3>1 DEF Directory!Next
  <2>3. CASE users[u] = None
    BY <2>1, <2>3 DEF IInv, TypeOK
  <2> QED
    BY <2>2, <2>3
<1>3. CASE Restart
  BY <1>3 DEF Restart, Directory!Next, Directory!Lose
<1>4. CASE UNCHANGED users
  BY <1>4
<1> QED
  BY <1>1, <1>2, <1>3, <1>4
     DEF Next, Begin, StageLldap, StageForgejo, StageWireGuard, StageFails,
         Undo, vars

(* The staged provisioner with its undos and its in-memory indexes is a    *)
(* directory in which accounts appear whole, for every population.         *)
THEOREM Refinement == Spec => ImplementsDirectory
BY RefinesInit, RefinesNext, Invariance, PTL
   DEF Spec, ImplementsDirectory, Directory!Spec

=============================================================================
