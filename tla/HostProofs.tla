----------------------------- MODULE HostProofs -----------------------------
(***************************************************************************)
(* Proofs about the parts of MCHost, for every value of their constants:   *)
(* the blocks of two projects are disjoint and a suggested port was free;  *)
(* the wizard runs one command and keeps the credential; what the HTTP     *)
(* clients, the migrations, the configuration file, uninstall, the CI      *)
(* runners and secrets, the local release tier and the dev stack report is *)
(* so; and a notice, a removal and a switched runner have their reasons.   *)
(***************************************************************************)
EXTENDS MCHost, TLAPS
-----------------------------------------------------------------------------
(* PortBlocks.                                                             *)

(* What the scan found in use was so at some time of the command.          *)
ScanOK ==
  /\ bound \subseteq busy
  /\ \A port \in find.inUse : PassedOver(port)
  /\ find.at = "scan" => find.next >= BasePort(find.project)

(* The probe starts at the first dynamic port and passes over those out of *)
(* reach only.                                                             *)
ProbeOK ==
  find.at \in {"probe", "ok", "failed"} =>
    /\ find.next >= BasePort(find.project) + DynamicSlotStart
    /\ \A port \in Dynamic(find.project) :
         port < find.next => PassedOver(port)

EndOK ==
  /\ find.at = "ok" => find.next <= RangeEnd(find.project)
                       /\ find.next \in 1..MaxPort
  /\ find.at = "failed" => find.next > RangeEnd(find.project)

IInv == TypeOK /\ ScanOK /\ ProbeOK /\ EndOK

-----------------------------------------------------------------------------
LEMMA Sizes ==
  /\ DynamicSlotStart \in Nat
  /\ MaxPort \in Nat
  BY PortAssumption

LEMMA BaseType ==
  ASSUME NEW p \in Projects
  PROVE  /\ BasePort(p) \in Nat \ {0}
         /\ RangeEnd(p) \in Int
<1>1. p \in Nat /\ BasePortOffset \in Nat \ {0} /\ BlockSize \in Nat
  BY PortAssumption
<1>2. p * BlockSize \in Nat
  BY <1>1
<1>3. BasePort(p) \in Nat \ {0}
  BY <1>1, <1>2 DEF BasePort
<1> QED
  BY <1>1, <1>3 DEF RangeEnd

(* No port belongs to two projects: a suggestion for one of them is never  *)
(* in the block of another (GetProjectRange, BasePort).                    *)
THEOREM BlocksDisjoint ==
  ASSUME NEW p \in Projects, NEW q \in Projects, p # q
  PROVE  Block(p) \cap Block(q) = {}
<1>1. p \in Nat /\ q \in Nat /\ BasePortOffset \in Nat /\ BlockSize \in Nat
  BY PortAssumption
<1>2. ASSUME NEW a \in Nat, NEW b \in Nat, a < b
      PROVE  a * BlockSize + BlockSize <= b * BlockSize
  <2>1. b - a - 1 \in Nat
    BY <1>2
  <2>2. (b - a - 1) * BlockSize \in Nat
    BY <2>1, <1>1
  <2>3. (b - a - 1) * BlockSize = b * BlockSize - a * BlockSize - BlockSize
    BY <1>1, <1>2
  <2>4. a * BlockSize \in Nat /\ b * BlockSize \in Nat
    BY <1>1, <1>2
  <2> QED
    BY <1>1, <2>2, <2>3, <2>4
<1>3. p * BlockSize \in Nat /\ q * BlockSize \in Nat
  BY <1>1
<1>4. p < q \/ q < p
  BY <1>1
<1>5. ASSUME NEW port \in Block(p), port \in Block(q)
      PROVE  FALSE
  <2>1. /\ port >= BasePortOffset + p * BlockSize
        /\ port <= BasePortOffset + p * BlockSize + BlockSize - 1
        /\ port >= BasePortOffset + q * BlockSize
        /\ port <= BasePortOffset + q * BlockSize + BlockSize - 1
        /\ port \in Int
    BY <1>1, <1>3, <1>5 DEF Block, RangeEnd, BasePort
  <2>2. CASE p < q
    <3>1. p * BlockSize + BlockSize <= q * BlockSize
      BY <1>1, <1>2, <2>2
    <3> QED
      BY <1>1, <1>3, <2>1, <3>1
  <2>3. CASE q < p
    <3>1. q * BlockSize + BlockSize <= p * BlockSize
      BY <1>1, <1>2, <2>3
    <3> QED
      BY <1>1, <1>3, <2>1, <3>1
  <2> QED
    BY <1>4, <2>2, <2>3
<1> QED
  BY <1>5

-----------------------------------------------------------------------------
LEMMA InitEstablishesIInv == Init => IInv
  BY DEF Init, IInv, TypeOK, ScanOK, ProbeOK, EndOK

(* A port that cannot be bound is out of reach.                            *)
LEMMA UnavailableIsPassedOver ==
  ASSUME NEW port \in Nat \ {0}, bound \subseteq busy, ~Available(port)
  PROVE  PassedOver(port)
  BY PortAssumption DEF Available, PassedOver

LEMMA BeginKeepsIInv ==
  ASSUME IInv, NEW p \in Projects, Begin(p)
  PROVE  IInv'
<1> DEFINE first == IF RangeEnd(p) > MaxPort
                    THEN BasePort(p) + DynamicSlotStart ELSE BasePort(p)
<1>1. BasePort(p) \in Nat \ {0} /\ RangeEnd(p) \in Int
  BY BaseType
<1>2. first \in Nat /\ DynamicSlotStart \in Nat /\ MaxPort \in Nat
  BY <1>1, Sizes
<1>3. /\ find'.project = p /\ find'.inUse = {} /\ find'.next = first
      /\ find'.at = IF RangeEnd(p) > MaxPort THEN "probe" ELSE "scan"
      /\ bound' = bound /\ busy' = bound
  BY DEF Begin
<1>4. find' \in [ at : {"idle", "scan", "probe", "ok", "failed"},
                  project : Projects, next : Nat, inUse : SUBSET Nat ]
  BY <1>2 DEF Begin
<1>5. TypeOK'
  BY <1>3, <1>4 DEF IInv, TypeOK
<1>6. ScanOK'
  BY <1>1, <1>2, <1>3 DEF ScanOK
<1>7. ProbeOK'
  <2>1. ASSUME find'.at \in {"probe", "ok", "failed"}
        PROVE  find'.next = BasePort(p) + DynamicSlotStart
    BY <1>3, <2>1
  <2>2. \A port \in Dynamic(p) : port >= BasePort(p) + DynamicSlotStart
    BY <1>1, <1>2 DEF Dynamic
  <2>3. \A port \in Dynamic(p) : port \in Int
    BY DEF Dynamic
  <2> QED
    BY <1>1, <1>2, <1>3, <2>1, <2>2, <2>3 DEF ProbeOK
<1>8. EndOK'
  BY <1>3 DEF EndOK
<1> QED
  BY <1>5, <1>6, <1>7, <1>8 DEF IInv

LEMMA ScanPortKeepsIInv ==
  ASSUME IInv, ScanPort
  PROVE  IInv'
<1>1. find.project \in Projects /\ find.next \in Nat /\ find.inUse \subseteq Nat
  BY DEF IInv, TypeOK
<1>2. BasePort(find.project) \in Nat \ {0} /\ RangeEnd(find.project) \in Int
  BY <1>1, BaseType
<1>3. find.next \in Nat \ {0} /\ find.next >= BasePort(find.project)
  BY <1>1, <1>2 DEF IInv, ScanOK, ScanPort
<1>4. /\ find'.at = "scan" /\ find'.project = find.project
      /\ find'.next = find.next + 1
      /\ find'.inUse = IF Available(find.next) THEN find.inUse
                       ELSE find.inUse \union {find.next}
      /\ bound' = bound /\ busy' = busy
  BY DEF ScanPort, IInv, TypeOK
<1>5. TypeOK'
  <2> DEFINE seen == IF Available(find.next) THEN find.inUse
                     ELSE find.inUse \union {find.next}
  <2>1. seen \subseteq Nat /\ find.next + 1 \in Nat
    BY <1>1
  <2>2. find' = [find EXCEPT !.next = find.next + 1, !.inUse = seen]
    BY DEF ScanPort
  <2> HIDE DEF seen
  <2>3. find' \in [ at : {"idle", "scan", "probe", "ok", "failed"},
                    project : Projects, next : Nat, inUse : SUBSET Nat ]
    BY <2>1, <2>2 DEF IInv, TypeOK
  <2> QED
    BY <1>4, <2>3 DEF IInv, TypeOK
<1>6. \A port \in find'.inUse : PassedOver(port)
  <2>1. ~Available(find.next) => PassedOver(find.next)
    BY <1>3, UnavailableIsPassedOver DEF IInv, ScanOK
  <2> QED
    BY <1>4, <2>1 DEF IInv, ScanOK
<1>7. ScanOK'
  BY <1>2, <1>3, <1>4, <1>6 DEF IInv, ScanOK, PassedOver
<1> QED
  BY <1>4, <1>5, <1>7 DEF IInv, ProbeOK, EndOK

LEMMA ScannedKeepsIInv ==
  ASSUME IInv, Scanned
  PROVE  IInv'
<1>1. find.project \in Projects
  BY DEF IInv, TypeOK
<1>2. BasePort(find.project) \in Nat \ {0} /\ DynamicSlotStart \in Nat
  BY <1>1, BaseType, Sizes
<1>3. /\ find'.at = "probe" /\ find'.project = find.project
      /\ find'.next = BasePort(find.project) + DynamicSlotStart
      /\ find'.inUse = find.inUse
      /\ bound' = bound /\ busy' = busy
  BY DEF Scanned, IInv, TypeOK
<1>4. TypeOK'
  <2> DEFINE first == BasePort(find.project) + DynamicSlotStart
  <2>1. first \in Nat
    BY <1>2
  <2>2. find' = [find EXCEPT !.at = "probe", !.next = first]
    BY DEF Scanned
  <2> HIDE DEF first
  <2>3. find' \in [ at : {"idle", "scan", "probe", "ok", "failed"},
                    project : Projects, next : Nat, inUse : SUBSET Nat ]
    BY <2>1, <2>2 DEF IInv, TypeOK
  <2> QED
    BY <1>3, <2>3 DEF IInv, TypeOK
<1>5. ScanOK'
  BY <1>3 DEF IInv, ScanOK, PassedOver
<1>6. \A port \in Dynamic(find.project) : ~(port < find'.next)
  BY <1>2, <1>3 DEF Dynamic
<1>7. ProbeOK'
  BY <1>2, <1>3, <1>6 DEF ProbeOK
<1> QED
  BY <1>3, <1>4, <1>5, <1>7 DEF IInv, EndOK

LEMMA ProbePortKeepsIInv ==
  ASSUME IInv, ProbePort
  PROVE  IInv'
<1>1. /\ find.project \in Projects /\ find.next \in Nat
      /\ find.inUse \subseteq Nat /\ find.at = "probe"
      /\ find.next <= RangeEnd(find.project)
      /\ bound' = bound /\ busy' = busy
  BY DEF IInv, TypeOK, ProbePort
<1>2. /\ BasePort(find.project) \in Nat \ {0} /\ RangeEnd(find.project) \in Int
      /\ DynamicSlotStart \in Nat
  BY <1>1, BaseType, Sizes
<1>3. /\ find.next >= BasePort(find.project) + DynamicSlotStart
      /\ find.next \in Nat \ {0}
  BY <1>1, <1>2 DEF IInv, ProbeOK
<1>4. CASE find.next \notin find.inUse /\ Available(find.next)
  <2>1. find' = [find EXCEPT !.at = "ok"]
    BY <1>4 DEF ProbePort
  <2>2. /\ find'.at = "ok" /\ find'.project = find.project
        /\ find'.next = find.next /\ find'.inUse = find.inUse
    BY <2>1 DEF IInv, TypeOK
  <2>3. TypeOK'
    BY <1>1, <2>1 DEF IInv, TypeOK
  <2>4. ScanOK' /\ ProbeOK'
    BY <1>1, <2>2 DEF IInv, ScanOK, ProbeOK, PassedOver
  <2>5. EndOK'
    BY <1>1, <1>4, <2>2 DEF EndOK, Available
  <2> QED
    BY <2>3, <2>4, <2>5 DEF IInv
<1>5. CASE ~(find.next \notin find.inUse /\ Available(find.next))
  <2>1. find' = [find EXCEPT !.next = @ + 1]
    BY <1>5 DEF ProbePort
  <2>2. /\ find'.at = "probe" /\ find'.project = find.project
        /\ find'.next = find.next + 1 /\ find'.inUse = find.inUse
    BY <1>1, <2>1 DEF IInv, TypeOK
  <2>3. TypeOK'
    BY <1>1, <2>1 DEF IInv, TypeOK
  <2>4. ScanOK' /\ EndOK'
    BY <1>1, <2>2 DEF IInv, ScanOK, EndOK, PassedOver
  <2>5. PassedOver(find.next)
    BY <1>3, <1>5, UnavailableIsPassedOver DEF IInv, ScanOK
  <2>6. \A port \in Dynamic(find.project) :
          port < find.next + 1 => PassedOver(port)
    BY <1>1, <2>5 DEF IInv, ProbeOK, Dynamic
  <2>7. ProbeOK'
    BY <1>1, <1>2, <1>3, <2>2, <2>6 DEF ProbeOK, PassedOver
  <2> QED
    BY <2>3, <2>4, <2>7 DEF IInv
<1> QED
  BY <1>4, <1>5

LEMMA ExhaustedKeepsIInv ==
  ASSUME IInv, Exhausted
  PROVE  IInv'
<1>1. /\ find'.at = "failed" /\ find'.project = find.project
      /\ find'.next = find.next /\ find'.inUse = find.inUse
      /\ find.at = "probe" /\ find.next > RangeEnd(find.project)
      /\ bound' = bound /\ busy' = busy
  BY DEF Exhausted, IInv, TypeOK
<1>2. TypeOK'
  BY DEF IInv, TypeOK, Exhausted
<1> QED
  BY <1>1, <1>2 DEF IInv, ScanOK, ProbeOK, EndOK, PassedOver

LEMMA OthersKeepIInv ==
  ASSUME IInv, NEW port \in 1..MaxPort, Bind(port) \/ Free(port)
  PROVE  IInv'
<1>1. find' = find /\ busy \subseteq busy' /\ bound' \subseteq busy'
  BY DEF Bind, Free, IInv, ScanOK
<1>2. bound' \subseteq 1..MaxPort /\ busy' \subseteq 1..MaxPort
  BY DEF Bind, Free, IInv, TypeOK
<1>3. \A other : PassedOver(other) => PassedOver(other)'
  BY <1>1 DEF PassedOver
<1>4. TypeOK'
  BY <1>1, <1>2 DEF IInv, TypeOK
<1>5. ScanOK'
  BY <1>1, <1>3 DEF IInv, ScanOK
<1>6. ProbeOK'
  BY <1>1, <1>3 DEF IInv, ProbeOK
<1> QED
  BY <1>1, <1>4, <1>5, <1>6 DEF IInv, EndOK

LEMMA NextKeepsIInv == IInv /\ [Next]_vars => IInv'
<1> SUFFICES ASSUME IInv, [Next]_vars PROVE IInv'
  OBVIOUS
<1>1. CASE \E p \in Projects : Begin(p)
  BY <1>1, BeginKeepsIInv
<1>2. CASE ScanPort
  BY <1>2, ScanPortKeepsIInv
<1>3. CASE Scanned
  BY <1>3, ScannedKeepsIInv
<1>4. CASE ProbePort
  BY <1>4, ProbePortKeepsIInv
<1>5. CASE Exhausted
  BY <1>5, ExhaustedKeepsIInv
<1>6. CASE \E port \in 1..MaxPort : Bind(port) \/ Free(port)
  BY <1>6, OthersKeepIInv
<1>7. CASE UNCHANGED vars
  BY <1>7 DEF vars, IInv, TypeOK, ScanOK, ProbeOK, EndOK, PassedOver
<1> QED
  BY <1>1, <1>2, <1>3, <1>4, <1>5, <1>6, <1>7 DEF Next

LEMMA IInvGivesLowest == IInv => SuggestionIsLowest
<1> SUFFICES ASSUME IInv PROVE SuggestionIsLowest
  OBVIOUS
<1>1. find.project \in Projects /\ find.next \in Nat
  BY DEF IInv, TypeOK
<1>2. /\ BasePort(find.project) \in Nat /\ RangeEnd(find.project) \in Int
      /\ DynamicSlotStart \in Nat
  BY <1>1, BaseType, Sizes
<1>3. CASE find.at = "ok"
  BY <1>1, <1>2, <1>3 DEF IInv, ProbeOK, EndOK, SuggestionIsLowest, Dynamic
<1>4. CASE find.at = "failed"
  <2>1. \A port \in Dynamic(find.project) : port < find.next
    BY <1>1, <1>2, <1>4 DEF IInv, EndOK, Dynamic
  <2> QED
    BY <1>4, <2>1 DEF IInv, ProbeOK, SuggestionIsLowest
<1> QED
  BY <1>3, <1>4 DEF SuggestionIsLowest

(* The inductive invariant: what was passed over was out of reach.         *)
THEOREM Invariance == Spec => []IInv
<1> QED
  BY InitEstablishesIInv, NextKeepsIInv, PTL DEF Spec

(* port allocate suggests the lowest port of the project's block that was  *)
(* free, or says that none was, whatever other processes do meanwhile.     *)
THEOREM SuggestionIsLowestHolds == Spec => []SuggestionIsLowest
<1> QED
  BY Invariance, IInvGivesLowest, PTL


-----------------------------------------------------------------------------
(* Wizard.                                                                 *)

(* After an error nothing runs that a key could start again.               *)
BannersOK ==
  ui # None =>
    /\ ui.banner => jobs["claim"] = 0
    /\ ui.cloneError => jobs["clone"] = 0

(* A session behind the claim carries a credential: the one in the file,   *)
(* the one that is offered and the one that is shown.                      *)
Carries(s) == s.stage \in Wiz!PastClaim => s.cred > 0

CarriesOK ==
  /\ file # None => Carries(file)
  /\ ui # None => /\ Carries(ui.sess)
                  /\ ui.screen \in Wiz!PastClaim => ui.sess.cred > 0
                  /\ ui.offered # None => Carries(ui.offered)

(* What the wizard may write over an unfinished checkpoint has its         *)
(* credential or a later one.                                              *)
CredsOK ==
  /\ file # None => file.cred <= issued
  /\ ui # None => /\ ui.sess.cred <= issued
                  /\ Wiz!Pending(file) => ui.sess.cred >= file.cred
                  /\ ui.offered # None =>
                       /\ ui.screen = "welcome"
                       /\ ui.offered.stage # "init"
                       /\ ui.offered.cred <= issued
                       /\ Wiz!Pending(file) => ui.offered.cred >= file.cred

WizInv ==
  Wiz!TypeOK /\ Wiz!OneCommandAtATime /\ BannersOK /\ CarriesOK /\ CredsOK

LEMMA WizInit == Wiz!Init => WizInv
BY HostAssumption, NoneAssumption
   DEF Wiz!Init, WizInv, Wiz!TypeOK, Wiz!OneCommandAtATime, BannersOK, CarriesOK,
       CredsOK, Wiz!NoJobs, Wiz!Kinds

LEMMA SessionFields ==
  ASSUME NEW s \in Wiz!Session
  PROVE  /\ s # None
         /\ s.stage \in Wiz!Screens \union Wiz!Between \union {"init"}
         /\ s.cred \in 0..MaxIssued /\ s.cred \in Nat
         /\ \A g \in Wiz!Screens \union Wiz!Between \union {"init"} :
              /\ [s EXCEPT !.stage = g] \in Wiz!Session
              /\ [s EXCEPT !.stage = g].stage = g
              /\ [s EXCEPT !.stage = g].cred = s.cred
         /\ \A c \in 0..MaxIssued :
              /\ [s EXCEPT !.cred = c] \in Wiz!Session
              /\ [s EXCEPT !.cred = c].cred = c
         /\ \A R \in SUBSET Repos :
              /\ [s EXCEPT !.repos = R] \in Wiz!Session
              /\ [s EXCEPT !.repos = R].cred = s.cred
<1>1. s # None
  BY NoneAssumption
<1>2. MaxIssued \in Nat
  BY HostAssumption
<1>3. /\ s.stage \in Wiz!Screens \union Wiz!Between \union {"init"}
      /\ s.cred \in 0..MaxIssued
  BY DEF Wiz!Session
<1>4. s.cred \in Nat
  BY <1>2, <1>3
<1>5. /\ \A g \in Wiz!Screens \union Wiz!Between \union {"init"} :
           /\ [s EXCEPT !.stage = g] \in Wiz!Session
           /\ [s EXCEPT !.stage = g].stage = g
           /\ [s EXCEPT !.stage = g].cred = s.cred
      /\ \A c \in 0..MaxIssued :
           /\ [s EXCEPT !.cred = c] \in Wiz!Session
           /\ [s EXCEPT !.cred = c].cred = c
      /\ \A R \in SUBSET Repos :
           /\ [s EXCEPT !.repos = R] \in Wiz!Session
           /\ [s EXCEPT !.repos = R].cred = s.cred
  BY DEF Wiz!Session
<1>6. QED
  BY <1>1, <1>3, <1>4, <1>5

LEMMA DisplayFields ==
  ASSUME NEW w \in Wiz!Display
  PROVE  /\ w # None
         /\ w.screen \in Wiz!Screens \union Wiz!Between
         /\ w.sess \in Wiz!Session
         /\ w.offered \in Wiz!Session \union {None}
         /\ w.selected \subseteq Repos
BY NoneAssumption DEF Wiz!Display

LEMMA FreshFields ==
  Wiz!Fresh \in Wiz!Session /\ Wiz!Fresh.stage = "init" /\ Wiz!Fresh.cred = 0
BY HostAssumption DEF Wiz!Fresh, Wiz!Session

(* A display shows a stage and its session is on file.                     *)
Shown(w, sess, stage) ==
  /\ ui' \in Wiz!Display /\ ui' # None
  /\ file' = ui'.sess /\ file' \in Wiz!Session /\ file' # None
  /\ ui'.screen = stage
  /\ file'.stage = stage /\ file'.cred = sess.cred
  /\ ui'.offered = w.offered
  /\ ui'.banner = FALSE /\ ui'.cloneError = w.cloneError
  /\ ui'.running = w.running /\ ui'.healing = w.healing
  /\ ui'.submitting = w.submitting /\ ui'.cloning = w.cloning

(* A kill between the two checkpoints of a screen.                         *)
CutOff(sess, checkpoint) ==
  /\ ui' = None
  /\ file' \in Wiz!Session /\ file' # None
  /\ file'.stage = checkpoint /\ file'.cred = sess.cred

LEMMA StageIsShown ==
  ASSUME NEW w \in Wiz!Display, NEW sess \in Wiz!Session,
         NEW stage \in Wiz!Screens \union Wiz!Between, Wiz!SetStage(w, sess, stage)
  PROVE  Shown(w, sess, stage)
<1>1. [sess EXCEPT !.stage = stage] \in Wiz!Session
  BY SessionFields
<1>2. ui' \in Wiz!Display
  BY <1>1 DEF Wiz!SetStage, Wiz!Display
<1>3. /\ ui'.screen = stage /\ ui'.sess = [sess EXCEPT !.stage = stage]
      /\ ui'.banner = FALSE /\ ui'.cloneError = w.cloneError
      /\ ui'.running = w.running /\ ui'.healing = w.healing
      /\ ui'.submitting = w.submitting /\ ui'.cloning = w.cloning
      /\ ui'.offered = w.offered
  BY DEF Wiz!SetStage, Wiz!Display
<1>4. file' = [sess EXCEPT !.stage = stage]
  BY DEF Wiz!SetStage
<1>5. QED
  BY <1>1, <1>2, <1>3, <1>4, SessionFields, DisplayFields DEF Shown

LEMMA LeavesOrIsCut ==
  ASSUME NEW w \in Wiz!Display, NEW sess \in Wiz!Session,
         NEW checkpoint \in Wiz!Screens \union Wiz!Between \union {"init"},
         NEW stage \in Wiz!Screens \union Wiz!Between,
         Wiz!Leave(w, sess, checkpoint, stage)
  PROVE  Shown(w, sess, stage) \/ CutOff(sess, checkpoint)
<1>1. CASE Wiz!SetStage(w, sess, stage)
  BY <1>1, StageIsShown
<1>2. CASE file' = [sess EXCEPT !.stage = checkpoint] /\ ui' = None
  BY <1>2, SessionFields DEF CutOff
<1>3. QED
  BY <1>1, <1>2 DEF Wiz!Leave


(* The screen goes on, with the same session.                              *)
Stays ==
  /\ ui # None /\ ui \in Wiz!Display /\ ui' \in Wiz!Display /\ ui' # None
  /\ ui'.screen = ui.screen /\ ui'.sess = ui.sess /\ ui'.offered = ui.offered
  /\ file' = file

LEMMA StaysKeeps ==
  ASSUME CarriesOK, CredsOK, Wiz!TypeOK, Stays, issued' \in Nat, issued' >= issued
  PROVE  CarriesOK' /\ CredsOK'
<1>1. CarriesOK'
  BY DEF CarriesOK, Stays, Carries
<1>2. /\ file # None => file \in Wiz!Session
      /\ ui.sess \in Wiz!Session
      /\ ui.offered # None => ui.offered \in Wiz!Session
      /\ issued \in Nat
  BY DisplayFields, HostAssumption DEF Wiz!TypeOK, Stays
<1>3. /\ file # None => file.cred \in Nat
      /\ ui.sess.cred \in Nat
      /\ ui.offered # None => ui.offered.cred \in Nat
  BY <1>2, SessionFields
<1>4. CredsOK'
  BY <1>2, <1>3 DEF CredsOK, Stays, Wiz!Pending
<1>5. QED
  BY <1>1, <1>4

LEMMA ShownKeeps ==
  ASSUME NEW w \in Wiz!Display, NEW sess \in Wiz!Session, NEW stage,
         Shown(w, sess, stage), w.offered = None,
         stage \in Wiz!PastClaim => sess.cred > 0,
         issued' \in Nat, sess.cred <= issued'
  PROVE  CarriesOK' /\ CredsOK'
<1>1. sess.cred \in Nat
  BY SessionFields
<1>2. QED
  BY <1>1 DEF Shown, CarriesOK, CredsOK, Carries

LEMMA CutOffKeeps ==
  ASSUME NEW sess \in Wiz!Session, NEW checkpoint, CutOff(sess, checkpoint),
         checkpoint \in Wiz!PastClaim => sess.cred > 0,
         sess.cred <= issued'
  PROVE  CarriesOK' /\ CredsOK' /\ BannersOK'
BY DEF CutOff, CarriesOK, CredsOK, Carries, BannersOK

LEMMA JobFields ==
  ASSUME Wiz!TypeOK
  PROVE  /\ \A k \in Wiz!Kinds : jobs[k] \in Nat
         /\ \A k \in Wiz!Kinds : Wiz!Run(k) =>
              /\ jobs' \in [Wiz!Kinds -> Nat]
              /\ jobs'[k] = jobs[k] + 1
              /\ \A l \in Wiz!Kinds \ {k} : jobs'[l] = jobs[l]
BY DEF Wiz!TypeOK, Wiz!Run

(* A command is started: none runs.                                        *)
LEMMA FirstCommand ==
  ASSUME Wiz!TypeOK, Wiz!OneCommandAtATime, NEW kind \in Wiz!Kinds,
         ui # None, ui.screen = Wiz!ScreenOf[kind],
         \A k \in Wiz!Kinds : Wiz!ScreenOf[k] = ui.screen => jobs[k] = 0
  PROVE  \A k \in Wiz!Kinds : jobs[k] = 0
<1>1. \A k \in Wiz!Kinds : jobs[k] \in Nat
  BY JobFields
<1>2. \A k \in Wiz!Kinds : jobs[k] > 0 => ui.screen = Wiz!ScreenOf[k]
  BY DEF Wiz!OneCommandAtATime
<1>3. QED
  BY <1>1, <1>2


(* No command, or one whose screen waits for it.                           *)
Quiet == \A k \in Wiz!Kinds : jobs[k] = 0

Waits(kind) ==
  CASE kind = "diagnose" -> ui.running [] kind = "heal" -> ui.healing
    [] kind = "claim" -> ui.submitting [] kind = "clone" -> ui.cloning

Busy(kind) ==
  /\ jobs[kind] = 1 /\ \A l \in Wiz!Kinds \ {kind} : jobs[l] = 0
  /\ ui # None /\ ui.screen = Wiz!ScreenOf[kind]

LEMMA WhoRuns ==
  ASSUME Wiz!TypeOK, Wiz!OneCommandAtATime
  PROVE  /\ Quiet \/ \E kind \in Wiz!Kinds : Busy(kind) /\ Waits(kind)
         /\ ui = None => Quiet
         /\ ui # None => Quiet \/ \E kind \in Wiz!Kinds :
              Busy(kind) /\ Waits(kind) /\ Wiz!ScreenOf[kind] = ui.screen
<1>1. \A k \in Wiz!Kinds : jobs[k] \in Nat
  BY JobFields
<1>2. \A k, l \in Wiz!Kinds : jobs[k] > 0 /\ jobs[l] > 0 => k = l
  BY DEF Wiz!OneCommandAtATime
<1>3. \A k \in Wiz!Kinds : jobs[k] > 0 =>
        jobs[k] = 1 /\ ui # None /\ ui.screen = Wiz!ScreenOf[k]
  BY DEF Wiz!OneCommandAtATime
<1>4. \A k \in Wiz!Kinds : jobs[k] > 0 => Waits(k)
  BY DEF Wiz!OneCommandAtATime, Waits
<1>5. ASSUME NEW k \in Wiz!Kinds, jobs[k] > 0 PROVE Busy(k)
  BY <1>1, <1>2, <1>3, <1>5 DEF Busy
<1>6. (\A k \in Wiz!Kinds : ~(jobs[k] > 0)) => Quiet
  BY <1>1 DEF Quiet
<1>7. QED
  BY <1>3, <1>4, <1>5, <1>6 DEF Busy, Quiet

LEMMA QuietKeeps == Quiet' => Wiz!OneCommandAtATime' /\ BannersOK'
BY DEF Quiet, Wiz!OneCommandAtATime, BannersOK, Wiz!Kinds

LEMMA BusyKeeps ==
  ASSUME NEW kind \in Wiz!Kinds, Busy(kind)', Waits(kind)'
  PROVE  /\ Wiz!OneCommandAtATime'
         /\ (ui'.banner => kind # "claim") /\ (ui'.cloneError => kind # "clone")
              => BannersOK'
<1>1. \A k \in Wiz!Kinds : jobs'[k] > 0 => k = kind
  BY DEF Busy
<1>2. \A k \in Wiz!Kinds : jobs'[k] > 0 =>
        jobs'[k] = 1 /\ ui' # None /\ ui'.screen = Wiz!ScreenOf[k]
  BY <1>1 DEF Busy
<1>3. \A k \in Wiz!Kinds : jobs'[k] > 0 =>
        CASE k = "diagnose" -> ui'.running [] k = "heal" -> ui'.healing
          [] k = "claim" -> ui'.submitting [] k = "clone" -> ui'.cloning
  BY <1>1 DEF Waits
<1>4. Wiz!OneCommandAtATime'
  BY <1>1, <1>2, <1>3 DEF Wiz!OneCommandAtATime, Wiz!ScreenOf
<1>5. kind # "claim" => jobs'["claim"] = 0
  BY DEF Busy, Wiz!Kinds
<1>6. kind # "clone" => jobs'["clone"] = 0
  BY DEF Busy, Wiz!Kinds
<1>7. QED
  BY <1>4, <1>5, <1>6 DEF BannersOK


(* Neither jobs nor flags change.                                          *)
Alike ==
  /\ jobs' = jobs
  /\ ui'.banner = ui.banner /\ ui'.cloneError = ui.cloneError
  /\ ui'.running = ui.running /\ ui'.healing = ui.healing
  /\ ui'.submitting = ui.submitting /\ ui'.cloning = ui.cloning

LEMMA AlikeKeeps ==
  ASSUME Wiz!TypeOK, Wiz!OneCommandAtATime, BannersOK, CarriesOK, CredsOK,
         Stays, Alike, issued' \in 0..MaxIssued, issued' >= issued,
         onDisk' \subseteq Repos
  PROVE  WizInv'
<1>1. Wiz!OneCommandAtATime'
  <2>1. CASE Quiet
    BY <2>1, QuietKeeps DEF Quiet, Alike
  <2>2. ASSUME NEW kind \in Wiz!Kinds, Busy(kind), Waits(kind)
        PROVE  Wiz!OneCommandAtATime'
    <3>1. Busy(kind)'
      BY <2>2 DEF Busy, Alike, Stays
    <3>2. Waits(kind)'
      BY <2>2 DEF Waits, Alike
    <3>3. QED
      BY <3>1, <3>2, BusyKeeps
  <2>3. QED
    BY <2>1, <2>2, WhoRuns
<1>2. BannersOK'
  BY DEF BannersOK, Alike, Stays
<1>3. issued' \in Nat
  BY HostAssumption
<1>4. CarriesOK' /\ CredsOK'
  BY <1>3, StaysKeeps
<1>5. Wiz!TypeOK'
  BY DEF Wiz!TypeOK, Stays, Alike
<1>6. QED
  BY <1>1, <1>2, <1>4, <1>5 DEF WizInv


LEMMA WizStep == WizInv /\ [Wiz!Next]_(Wiz!vars) => WizInv'
<1> SUFFICES ASSUME WizInv, [Wiz!Next]_(Wiz!vars) PROVE WizInv'
  OBVIOUS
<1>0. Wiz!TypeOK /\ Wiz!OneCommandAtATime /\ BannersOK /\ CarriesOK /\ CredsOK
  BY DEF WizInv
<1>a. /\ jobs \in [Wiz!Kinds -> Nat]
      /\ issued \in 0..MaxIssued /\ issued \in Nat
      /\ onDisk \subseteq Repos
      /\ file # None => file \in Wiz!Session
      /\ ui # None => /\ ui \in Wiz!Display
                      /\ ui.screen \in Wiz!Screens \union Wiz!Between
                      /\ ui.sess \in Wiz!Session
                      /\ ui.offered \in Wiz!Session \union {None}
  BY <1>0, HostAssumption, DisplayFields DEF Wiz!TypeOK
<1>b. /\ ui = None => Quiet
      /\ ui # None => Quiet \/ \E kind \in Wiz!Kinds :
           Busy(kind) /\ Waits(kind) /\ Wiz!ScreenOf[kind] = ui.screen
  BY <1>0, WhoRuns
<1>c. /\ file # None => file.cred \in Nat /\ file.cred <= issued /\ Carries(file)
      /\ ui # None => ui.sess.cred \in Nat /\ ui.sess.cred <= issued /\ Carries(ui.sess)
  BY <1>0, <1>a, SessionFields DEF CredsOK, CarriesOK
<1>d. /\ \A k \in Wiz!Kinds : jobs[k] = 0 \/ ~Quiet
      /\ jobs' = jobs => (Quiet => Quiet')
      /\ jobs' = Wiz!NoJobs => Quiet' /\ jobs' \in [Wiz!Kinds -> Nat]
  BY DEF Quiet, Wiz!NoJobs
<1>e. /\ "welcome" \in Wiz!Screens /\ "welcome" \notin Wiz!PastClaim
      /\ "doctor" \in Wiz!Screens /\ "doctor" \notin Wiz!PastClaim
      /\ "identity" \in Wiz!Screens /\ "identity" \notin Wiz!PastClaim
      /\ "workspace" \in Wiz!Screens /\ "workspace" \in Wiz!PastClaim
      /\ "environment" \in Wiz!Screens /\ "environment" \in Wiz!PastClaim
      /\ "doctor_passed" \in Wiz!Between /\ "doctor_passed" \notin Wiz!PastClaim
      /\ "claim_submitted" \in Wiz!Between /\ "repos_cloned" \in Wiz!Between
      /\ "token_claimed" \in Wiz!Between /\ "token_claimed" \in Wiz!PastClaim
      /\ "repos_cloned" \in Wiz!PastClaim
      /\ "completed" \in Wiz!Screens
      /\ "init" \notin Wiz!PastClaim
  BY DEF Wiz!Screens, Wiz!Between, Wiz!PastClaim
<1>1. ASSUME NEW resume \in BOOLEAN, NEW reset \in BOOLEAN, Wiz!Start(resume, reset)
      PROVE  WizInv'
  <2> DEFINE kept == IF reset THEN None ELSE file
             found == kept # None /\ (resume \/ Wiz!Pending(kept))
             loaded == IF found THEN kept ELSE Wiz!Fresh
             screen == IF ~resume \/ loaded.stage = "init"
                       THEN "welcome" ELSE loaded.stage
             offered == IF /\ Wiz!Pending(kept)
                           /\ ~resume
                           /\ kept.stage \notin {"init", "welcome"}
                        THEN kept ELSE None
  <2>1. /\ ui = None /\ file' = kept /\ UNCHANGED <<jobs, issued, onDisk>>
        /\ ui' = [ screen |-> screen, sess |-> [loaded EXCEPT !.stage = screen],
                   offered |-> offered, report |-> "none",
                   running |-> FALSE, healing |-> FALSE,
                   submitting |-> FALSE, banner |-> FALSE,
                   cloning |-> FALSE, cloneError |-> FALSE,
                   selected |-> {}, status |-> [r \in Repos |-> "pending"] ]
    BY <1>1 DEF Wiz!Start
  <2>2. /\ kept # None => kept = file
        /\ loaded \in Wiz!Session /\ (loaded = kept \/ loaded = Wiz!Fresh)
        /\ found => loaded = kept
        /\ loaded.cred <= issued /\ Carries(loaded)
    BY <1>a, <1>c, <1>e, FreshFields DEF Carries
  <2>3. screen \in Wiz!Screens \union Wiz!Between
    BY <2>2, <1>e, SessionFields
  <2>4. [loaded EXCEPT !.stage = screen] \in Wiz!Session
    BY <2>2, <2>3, SessionFields
  <2>5. offered \in Wiz!Session \union {None}
    BY <1>a
  <2>6. ui' \in Wiz!Display
    <3> HIDE DEF kept, found, loaded, screen, offered
    <3>1. QED
      BY <2>1, <2>3, <2>4, <2>5 DEF Wiz!Display
  <2>7. /\ ui'.screen = screen /\ ui'.offered = offered
        /\ ui'.sess = [loaded EXCEPT !.stage = screen]
    <3> HIDE DEF kept, found, loaded, screen, offered
    <3>1. QED
      BY <2>1
  <2>8. Wiz!TypeOK'
    BY <1>a, <2>1, <2>6 DEF Wiz!TypeOK
  <2>9. Wiz!OneCommandAtATime' /\ BannersOK'
    BY <1>b, <1>d, <2>1, QuietKeeps
  <2>10. /\ ui'.sess.stage = screen /\ ui'.sess.cred = loaded.cred
         /\ loaded.cred \in Nat
    <3> HIDE DEF kept, found, loaded, screen, offered
    <3>1. QED
      BY <2>2, <2>3, <2>7, SessionFields
  <2>11. screen \in Wiz!PastClaim => loaded.cred > 0
    BY <1>e, <2>2 DEF Carries
  <2>12. CarriesOK'
    BY <1>c, <2>1, <2>2, <2>7, <2>10, <2>11 DEF CarriesOK, Carries
  <2>13. Wiz!Pending(kept) => found
    BY DEF Wiz!Pending
  <2>14. offered # None => /\ offered = kept /\ screen = "welcome"
                           /\ offered.stage # "init" /\ kept = file
    OBVIOUS
  <2>15. kept # None => kept.cred <= issued /\ kept.cred \in Nat
    BY <1>c
  <2>16. CredsOK'
    <3>1. file' # None => file'.cred <= issued'
      BY <2>1, <2>15
    <3>2. ui'.sess.cred <= issued'
      BY <2>1, <2>2, <2>10
    <3>3. Wiz!Pending(file)' => ui'.sess.cred >= file'.cred
      BY <2>1, <2>2, <2>10, <2>13, <2>15 DEF Wiz!Pending
    <3>4. ui'.offered # None =>
            /\ ui'.screen = "welcome" /\ ui'.offered.stage # "init"
            /\ ui'.offered.cred <= issued'
            /\ Wiz!Pending(file)' => ui'.offered.cred >= file'.cred
      <4> HIDE DEF found, loaded, screen, offered
      <4>1. QED
        BY <2>1, <2>7, <2>14, <2>15
    <3>5. QED
      BY <3>1, <3>2, <3>3, <3>4 DEF CredsOK
  <2>17. QED
    BY <2>8, <2>9, <2>12, <2>16 DEF WizInv
<1>2. CASE Wiz!ResumeOffered
  <2> DEFINE w == [ui EXCEPT !.offered = None]
  <2>1. /\ ui # None /\ ui.screen = "welcome" /\ ui.offered # None
        /\ Wiz!SetStage(w, ui.offered, ui.offered.stage)
        /\ UNCHANGED <<jobs, issued, onDisk>>
    BY <1>2 DEF Wiz!ResumeOffered, Wiz!On
  <2>2. /\ w \in Wiz!Display /\ w.offered = None
        /\ ui.offered \in Wiz!Session
    BY <1>a, <2>1 DEF Wiz!Display
  <2>3. /\ ui.offered.stage \in Wiz!Screens \union Wiz!Between
        /\ ui.offered.cred <= issued /\ Carries(ui.offered)
    BY <1>0, <2>1, <2>2, SessionFields DEF CredsOK, CarriesOK
  <2>4. Shown(w, ui.offered, ui.offered.stage)
    <3> HIDE DEF w
    <3>1. QED
      BY <2>1, <2>2, <2>3, StageIsShown
  <2>5. Quiet
    BY <1>b, <2>1 DEF Wiz!Kinds, Wiz!ScreenOf
  <2>6. CarriesOK' /\ CredsOK'
    <3> HIDE DEF w
    <3>1. QED
      BY <1>a, <2>1, <2>2, <2>3, <2>4, ShownKeeps DEF Carries
  <2>7. Wiz!TypeOK'
    BY <1>a, <2>1, <2>4 DEF Wiz!TypeOK, Shown
  <2>8. QED
    BY <1>d, <2>1, <2>5, <2>6, <2>7, QuietKeeps DEF WizInv
<1>3. CASE Wiz!DiscardOffered
  <2>1. /\ ui # None /\ ui.screen = "welcome"
        /\ file' = None /\ ui' = [ui EXCEPT !.offered = None, !.sess = Wiz!Fresh]
        /\ UNCHANGED <<jobs, issued, onDisk>>
    BY <1>3 DEF Wiz!DiscardOffered, Wiz!On
  <2>2. /\ ui' \in Wiz!Display /\ ui'.sess = Wiz!Fresh /\ ui'.offered = None
        /\ ui'.screen = "welcome"
    BY <1>a, <2>1, FreshFields DEF Wiz!Display
  <2>3. Quiet
    BY <1>b, <2>1 DEF Wiz!Kinds, Wiz!ScreenOf
  <2>4. CarriesOK' /\ CredsOK'
    BY <1>a, <1>e, <2>1, <2>2, FreshFields DEF CarriesOK, Carries, CredsOK, Wiz!Pending
  <2>5. Wiz!TypeOK'
    BY <1>a, <2>1, <2>2 DEF Wiz!TypeOK
  <2>6. QED
    BY <1>d, <2>1, <2>3, <2>4, <2>5, QuietKeeps DEF WizInv
<1>4. CASE Wiz!EnterToken
  <2>1. /\ ui # None /\ ui.screen = "welcome" /\ ui.offered = None
        /\ Wiz!Leave(ui, ui.sess, ui.sess.stage, "doctor")
        /\ UNCHANGED <<jobs, issued, onDisk>>
    BY <1>4 DEF Wiz!EnterToken, Wiz!On
  <2>2. Shown(ui, ui.sess, "doctor") \/ CutOff(ui.sess, ui.sess.stage)
    BY <1>a, <1>e, <2>1, LeavesOrIsCut, SessionFields
  <2>3. CarriesOK' /\ CredsOK'
    BY <1>a, <1>c, <1>e, <2>1, <2>2, ShownKeeps, CutOffKeeps DEF Carries
  <2>4. Quiet
    BY <1>b, <2>1 DEF Wiz!Kinds, Wiz!ScreenOf
  <2>5. Wiz!TypeOK'
    BY <1>a, <2>1, <2>2 DEF Wiz!TypeOK, Shown, CutOff
  <2>6. QED
    BY <1>d, <2>1, <2>3, <2>4, <2>5, QuietKeeps DEF WizInv
<1>5. CASE Wiz!Diagnose
  <2>1. /\ ui # None /\ ui.screen = "doctor" /\ ~ui.running /\ ~ui.healing
        /\ ui' = [ui EXCEPT !.running = TRUE]
        /\ Wiz!Run("diagnose")
        /\ UNCHANGED <<file, issued, onDisk>>
    BY <1>5 DEF Wiz!Diagnose, Wiz!On, Wiz!Idle
  <2>2. /\ Stays /\ ui'.running = TRUE
        /\ ui'.banner = ui.banner /\ ui'.cloneError = ui.cloneError
    <3>1. ui' \in Wiz!Display
      BY <1>a, <2>1 DEF Wiz!Display
    <3>2. QED
      BY <1>a, <2>1, <3>1, DisplayFields DEF Stays, Wiz!Display
  <2>3. Quiet
    BY <1>b, <2>1 DEF Wiz!Kinds, Wiz!ScreenOf, Waits
  <2>4. jobs' \in [Wiz!Kinds -> Nat] /\ Busy("diagnose")'
    BY <1>0, <2>1, <2>2, <2>3, JobFields DEF Busy, Quiet, Wiz!Kinds, Wiz!ScreenOf, Stays
  <2>5. Waits("diagnose")'
    BY <2>2 DEF Waits
  <2>6. Wiz!OneCommandAtATime' /\ BannersOK'
    BY <2>4, <2>5, BusyKeeps DEF Wiz!Kinds
  <2>7. CarriesOK' /\ CredsOK'
    BY <1>0, <1>a, <2>1, <2>2, StaysKeeps
  <2>8. Wiz!TypeOK'
    BY <1>a, <2>1, <2>2, <2>4 DEF Wiz!TypeOK, Stays
  <2>9. QED
    BY <2>6, <2>7, <2>8 DEF WizInv
<1>6. CASE Wiz!Heal
  <2>1. /\ ui # None /\ ui.screen = "doctor" /\ ~ui.running /\ ~ui.healing
        /\ ui' = [ui EXCEPT !.healing = TRUE]
        /\ Wiz!Run("heal")
        /\ UNCHANGED <<file, issued, onDisk>>
    BY <1>6 DEF Wiz!Heal, Wiz!On, Wiz!Idle
  <2>2. /\ Stays /\ ui'.healing = TRUE
        /\ ui'.banner = ui.banner /\ ui'.cloneError = ui.cloneError
    <3>1. ui' \in Wiz!Display
      BY <1>a, <2>1 DEF Wiz!Display
    <3>2. QED
      BY <1>a, <2>1, <3>1, DisplayFields DEF Stays, Wiz!Display
  <2>3. Quiet
    BY <1>b, <2>1 DEF Wiz!Kinds, Wiz!ScreenOf, Waits
  <2>4. jobs' \in [Wiz!Kinds -> Nat] /\ Busy("heal")'
    BY <1>0, <2>1, <2>2, <2>3, JobFields DEF Busy, Quiet, Wiz!Kinds, Wiz!ScreenOf, Stays
  <2>5. Waits("heal")'
    BY <2>2 DEF Waits
  <2>6. Wiz!OneCommandAtATime' /\ BannersOK'
    BY <2>4, <2>5, BusyKeeps DEF Wiz!Kinds
  <2>7. CarriesOK' /\ CredsOK'
    BY <1>0, <1>a, <2>1, <2>2, StaysKeeps
  <2>8. Wiz!TypeOK'
    BY <1>a, <2>1, <2>2, <2>4 DEF Wiz!TypeOK, Stays
  <2>9. QED
    BY <2>6, <2>7, <2>8 DEF WizInv
<1>7. CASE Wiz!PassDoctor
  <2>1. /\ ui # None /\ ui.screen = "doctor" /\ ~ui.running /\ ~ui.healing
        /\ Wiz!Leave(ui, ui.sess, "doctor_passed", "identity")
        /\ UNCHANGED <<jobs, issued, onDisk>>
    BY <1>7 DEF Wiz!PassDoctor, Wiz!On, Wiz!Idle
  <2>2. Shown(ui, ui.sess, "identity") \/ CutOff(ui.sess, "doctor_passed")
    BY <1>a, <1>e, <2>1, LeavesOrIsCut
  <2>3. ui.offered = None
    BY <1>0, <2>1 DEF CredsOK
  <2>4. CarriesOK' /\ CredsOK'
    BY <1>a, <1>c, <1>e, <2>1, <2>2, <2>3, ShownKeeps, CutOffKeeps
  <2>5. Quiet
    BY <1>b, <2>1 DEF Wiz!Kinds, Wiz!ScreenOf, Waits
  <2>6. Wiz!TypeOK'
    BY <1>a, <2>1, <2>2 DEF Wiz!TypeOK, Shown, CutOff
  <2>7. QED
    BY <1>d, <2>1, <2>4, <2>5, <2>6, QuietKeeps DEF WizInv
<1>8. CASE Wiz!RunClaim
  <2>1. /\ ui # None /\ ui.screen = "identity"
        /\ ~ui.submitting \/ ui.banner
        /\ UNCHANGED <<file, issued, onDisk>>
        /\ \/ /\ ui' = [ui EXCEPT !.submitting = TRUE, !.banner = FALSE]
              /\ Wiz!Run("claim")
           \/ /\ ui' = [ui EXCEPT !.submitting = FALSE, !.banner = TRUE]
              /\ jobs' = jobs
    BY <1>8 DEF Wiz!RunClaim, Wiz!On
  <2>2. Quiet
    <3>1. ASSUME Busy("claim"), Waits("claim") PROVE FALSE
      BY <1>0, <2>1, <3>1 DEF Waits, Busy, BannersOK
    <3>2. QED
      BY <1>b, <2>1, <3>1 DEF Wiz!Kinds, Wiz!ScreenOf
  <2>3. Stays
    <3>1. ui' \in Wiz!Display
      BY <1>a, <2>1 DEF Wiz!Display
    <3>2. QED
      BY <1>a, <2>1, <3>1, DisplayFields DEF Stays, Wiz!Display
  <2>4. CarriesOK' /\ CredsOK'
    BY <1>0, <1>a, <2>1, <2>3, StaysKeeps
  <2>5. CASE /\ ui' = [ui EXCEPT !.submitting = TRUE, !.banner = FALSE]
             /\ Wiz!Run("claim")
    <3>1. ui'.submitting = TRUE /\ ui'.banner = FALSE
      BY <1>a, <2>1, <2>5 DEF Wiz!Display
    <3>2. jobs' \in [Wiz!Kinds -> Nat] /\ Busy("claim")'
      BY <1>0, <2>1, <2>2, <2>3, <2>5, JobFields
         DEF Busy, Quiet, Wiz!Kinds, Wiz!ScreenOf, Stays
    <3>3. Waits("claim")'
      BY <3>1 DEF Waits
    <3>4. Wiz!OneCommandAtATime' /\ BannersOK'
      BY <3>1, <3>2, <3>3, BusyKeeps DEF Wiz!Kinds
    <3>5. Wiz!TypeOK'
      BY <1>a, <2>1, <2>3, <3>2 DEF Wiz!TypeOK, Stays
    <3>6. QED
      BY <2>4, <3>4, <3>5 DEF WizInv
  <2>6. CASE jobs' = jobs
    <3>1. Wiz!TypeOK'
      BY <1>a, <2>1, <2>3, <2>6 DEF Wiz!TypeOK, Stays
    <3>2. QED
      BY <1>d, <2>2, <2>4, <2>6, <3>1, QuietKeeps DEF WizInv
  <2>7. QED
    BY <2>1, <2>5, <2>6
<1>9. CASE Wiz!RunCloner
  <2>1. /\ ui # None /\ ui.screen = "workspace"
        /\ ~ui.cloning \/ ui.cloneError
        /\ UNCHANGED <<issued, onDisk>>
    BY <1>9 DEF Wiz!RunCloner, Wiz!On
  <2>2. Quiet
    <3>1. ASSUME Busy("clone"), Waits("clone") PROVE FALSE
      BY <1>0, <2>1, <3>1 DEF Waits, Busy, BannersOK
    <3>2. QED
      BY <1>b, <2>1, <3>1 DEF Wiz!Kinds, Wiz!ScreenOf
  <2>3. ui.offered = None /\ ui.sess.cred > 0
    BY <1>0, <1>e, <2>1 DEF CredsOK, CarriesOK
  <2>4. CASE ui.selected = {}
    <3> DEFINE w == [ui EXCEPT !.cloneError = FALSE]
    <3>1. Wiz!SetStage(w, ui.sess, "environment") /\ jobs' = jobs
      BY <1>9, <2>4 DEF Wiz!RunCloner
    <3>2. w \in Wiz!Display /\ w.offered = None
      BY <1>a, <2>1, <2>3 DEF Wiz!Display
    <3> HIDE DEF w
    <3>3. Shown(w, ui.sess, "environment")
      BY <1>a, <1>e, <2>1, <3>1, <3>2, StageIsShown
    <3>4. CarriesOK' /\ CredsOK'
      BY <1>a, <1>c, <2>1, <2>3, <3>2, <3>3, ShownKeeps
    <3>5. Wiz!TypeOK'
      BY <1>a, <2>1, <3>1, <3>3 DEF Wiz!TypeOK, Shown
    <3>6. QED
      BY <1>d, <2>2, <3>1, <3>4, <3>5, QuietKeeps DEF WizInv
  <2>5. CASE ui.selected # {}
    <3>1. /\ ui' = [ui EXCEPT !.cloning = TRUE, !.cloneError = FALSE,
                       !.status = [r \in Repos |->
                         IF r \in ui.selected THEN "cloning" ELSE @[r]]]
          /\ Wiz!Run("clone") /\ file' = file
      BY <1>9, <2>5 DEF Wiz!RunCloner
    <3>2. Stays /\ ui'.cloning = TRUE /\ ui'.cloneError = FALSE
      <4>1. ui' \in Wiz!Display
        BY <1>a, <2>1, <3>1 DEF Wiz!Display
      <4>2. QED
        BY <1>a, <2>1, <3>1, <4>1, DisplayFields DEF Stays, Wiz!Display
    <3>3. jobs' \in [Wiz!Kinds -> Nat] /\ Busy("clone")'
      BY <1>0, <2>1, <2>2, <3>1, <3>2, JobFields
         DEF Busy, Quiet, Wiz!Kinds, Wiz!ScreenOf, Stays
    <3>4. Waits("clone")'
      BY <3>2 DEF Waits
    <3>5. Wiz!OneCommandAtATime' /\ BannersOK'
      BY <3>2, <3>3, <3>4, BusyKeeps DEF Wiz!Kinds
    <3>6. CarriesOK' /\ CredsOK'
      BY <1>0, <1>a, <2>1, <3>2, StaysKeeps
    <3>7. Wiz!TypeOK'
      BY <1>a, <2>1, <3>2, <3>3 DEF Wiz!TypeOK, Stays
    <3>8. QED
      BY <3>5, <3>6, <3>7 DEF WizInv
  <2>6. QED
    BY <2>4, <2>5
<1>10. ASSUME NEW r \in Repos, Wiz!Toggle(r) PROVE WizInv'
  <2>1. /\ ui # None /\ UNCHANGED <<file, jobs, issued, onDisk>>
        /\ ui' = [ui EXCEPT !.selected = IF r \in @ THEN @ \ {r} ELSE @ \union {r}]
    BY <1>10 DEF Wiz!Toggle, Wiz!On
  <2>2. Stays /\ Alike
    <3>1. ui' \in Wiz!Display
      BY <1>a, <2>1 DEF Wiz!Display
    <3>2. QED
      BY <1>a, <2>1, <3>1, DisplayFields DEF Stays, Alike, Wiz!Display
  <2>3. QED
    BY <1>0, <1>a, <2>1, <2>2, AlikeKeeps
<1>11. ASSUME NEW r \in Repos, Wiz!Clone(r) PROVE WizInv'
  <2>1. /\ ui # None /\ UNCHANGED <<file, jobs, issued>>
        /\ \E s \in {"exists", "cloned", "failed"} : ui' = [ui EXCEPT !.status[r] = s]
        /\ onDisk' \subseteq Repos
    <3>1. /\ ui # None /\ UNCHANGED <<file, jobs, issued>>
          /\ \/ /\ ui' = [ui EXCEPT !.status[r] =
                            IF r \in onDisk THEN "exists" ELSE "cloned"]
                /\ onDisk' = onDisk \union {r}
             \/ ui' = [ui EXCEPT !.status[r] = "failed"] /\ UNCHANGED onDisk
      BY <1>11 DEF Wiz!Clone, Wiz!On
    <3>2. onDisk' \subseteq Repos
      BY <1>a, <3>1
    <3>3. \E s \in {"exists", "cloned", "failed"} : ui' = [ui EXCEPT !.status[r] = s]
      BY <3>1
    <3>4. QED
      BY <3>1, <3>2, <3>3
  <2>2. Stays /\ Alike
    <3>1. PICK s \in {"exists", "cloned", "failed"} : ui' = [ui EXCEPT !.status[r] = s]
      BY <2>1
    <3>2. ui' \in Wiz!Display
      BY <1>a, <2>1, <3>1 DEF Wiz!Display
    <3>3. QED
      BY <1>a, <2>1, <3>1, <3>2, DisplayFields DEF Stays, Alike, Wiz!Display
  <2>3. QED
    BY <1>0, <1>a, <2>1, <2>2, AlikeKeeps
<1>12. CASE Wiz!EdgeClaims
  <2>1. /\ jobs["claim"] > 0 /\ issued' = issued + 1 /\ issued < MaxIssued
        /\ UNCHANGED <<file, ui, jobs, onDisk>>
    BY <1>12 DEF Wiz!EdgeClaims
  <2>2. issued' \in 0..MaxIssued /\ issued' \in Nat /\ issued' >= issued
    BY <1>a, <2>1, HostAssumption
  <2>3. ~Quiet
    BY <2>1 DEF Quiet, Wiz!Kinds
  <2>4. ui # None
    BY <1>b, <2>3
  <2>5. Stays /\ Alike
    BY <1>a, <2>1, <2>4 DEF Stays, Alike
  <2>6. QED
    BY <1>0, <1>a, <2>1, <2>2, <2>5, AlikeKeeps
<1>13. ASSUME NEW kind \in Wiz!Kinds, Wiz!Result(kind) PROVE WizInv'
  <2> DEFINE left == [jobs EXCEPT ![kind] = @ - 1]
  <2>1. /\ ui # None /\ jobs[kind] > 0 /\ UNCHANGED <<issued, onDisk>>
        /\ jobs' = CASE ui' = None -> Wiz!NoJobs
                     [] kind = "heal" /\ ui.screen = "doctor" ->
                          [left EXCEPT !["diagnose"] = @ + 1]
                     [] OTHER -> left
    BY <1>13 DEF Wiz!Result
  <2>2. Busy(kind) /\ Waits(kind) /\ ui.screen = Wiz!ScreenOf[kind]
    <3>1. ~Quiet
      BY <2>1 DEF Quiet
    <3>2. PICK k \in Wiz!Kinds :
            Busy(k) /\ Waits(k) /\ Wiz!ScreenOf[k] = ui.screen
      BY <1>b, <2>1, <3>1
    <3>3. k = kind
      BY <2>1, <3>2 DEF Busy
    <3>4. QED
      BY <3>2, <3>3
  <2>3. /\ kind = "diagnose" => Wiz!HandleDiagnostics
        /\ kind = "heal" => Wiz!HandleHeal
        /\ kind = "claim" => Wiz!HandleClaim
        /\ kind = "clone" => Wiz!HandleCloned
    BY <1>13, <2>2 DEF Wiz!Result
  <2>4. left \in [Wiz!Kinds -> Nat] /\ \A k \in Wiz!Kinds : left[k] = 0
    BY <1>a, <2>2 DEF Busy
  <2>5. kind # "heal" => jobs' \in [Wiz!Kinds -> Nat] /\ Quiet'
    <3> HIDE DEF left
    <3>1. QED
      BY <1>d, <2>1, <2>4 DEF Quiet
  <2>6. kind # "heal" => Wiz!OneCommandAtATime' /\ BannersOK'
    BY <2>5, QuietKeeps
  <2>7. ui.offered = None
    BY <1>0, <2>1, <2>2 DEF CredsOK, Wiz!ScreenOf, Wiz!Kinds
  <2>8. CASE kind = "diagnose"
    <3>1. PICK report \in {"clean", "healable", "errors"} :
            ui' = [ui EXCEPT !.running = FALSE, !.report = report]
      BY <2>3, <2>8 DEF Wiz!HandleDiagnostics
    <3>2. file' = file
      BY <2>3, <2>8 DEF Wiz!HandleDiagnostics
    <3>3. Stays
      <4>1. ui' \in Wiz!Display
        BY <1>a, <2>1, <3>1 DEF Wiz!Display
      <4>2. QED
        BY <1>a, <2>1, <3>1, <3>2, <4>1, DisplayFields DEF Stays, Wiz!Display
    <3>4. CarriesOK' /\ CredsOK'
      BY <1>0, <1>a, <2>1, <3>3, StaysKeeps
    <3>5. Wiz!TypeOK'
      BY <1>a, <2>1, <2>5, <2>8, <3>3 DEF Wiz!TypeOK, Stays
    <3>6. QED
      BY <2>6, <2>8, <3>4, <3>5 DEF WizInv
  <2>9. CASE kind = "heal"
    <3>1. ui' = [ui EXCEPT !.healing = FALSE, !.running = TRUE] /\ file' = file
      BY <2>3, <2>9 DEF Wiz!HandleHeal
    <3>2. /\ Stays /\ ui'.running = TRUE
          /\ ui'.banner = ui.banner /\ ui'.cloneError = ui.cloneError
      <4>1. ui' \in Wiz!Display
        BY <1>a, <2>1, <3>1 DEF Wiz!Display
      <4>2. QED
        BY <1>a, <2>1, <3>1, <4>1, DisplayFields DEF Stays, Wiz!Display
    <3>3. jobs' \in [Wiz!Kinds -> Nat] /\ Busy("diagnose")'
      <4>1. jobs' = [left EXCEPT !["diagnose"] = @ + 1] /\ ui'.screen = "doctor"
        BY <2>1, <2>2, <2>9, <3>2 DEF Stays, Wiz!ScreenOf, Wiz!Kinds
      <4> HIDE DEF left
      <4>2. QED
        BY <2>4, <3>2, <4>1 DEF Busy, Stays, Wiz!ScreenOf, Wiz!Kinds
    <3>4. Waits("diagnose")'
      BY <3>2 DEF Waits
    <3>5. Wiz!OneCommandAtATime' /\ BannersOK'
      BY <3>3, <3>4, BusyKeeps DEF Wiz!Kinds
    <3>6. CarriesOK' /\ CredsOK'
      BY <1>0, <1>a, <2>1, <3>2, StaysKeeps
    <3>7. Wiz!TypeOK'
      BY <1>a, <2>1, <3>2, <3>3 DEF Wiz!TypeOK, Stays
    <3>8. QED
      BY <3>5, <3>6, <3>7 DEF WizInv
  <2>10. CASE kind = "claim"
    <3>1. CASE /\ issued > 0
               /\ Wiz!Leave([ui EXCEPT !.submitting = FALSE],
                            [ui.sess EXCEPT !.cred = issued],
                            "claim_submitted", "workspace")
      <4> DEFINE w == [ui EXCEPT !.submitting = FALSE]
                 sess == [ui.sess EXCEPT !.cred = issued]
      <4>1. Wiz!Leave(w, sess, "claim_submitted", "workspace") /\ issued > 0
        BY <3>1
      <4>2. w \in Wiz!Display /\ w.offered = None
        BY <1>a, <2>1, <2>7 DEF Wiz!Display
      <4>3. sess \in Wiz!Session /\ sess.cred = issued
        BY <1>a, <2>1, SessionFields
      <4> HIDE DEF w, sess
      <4>4. Shown(w, sess, "workspace") \/ CutOff(sess, "claim_submitted")
        BY <1>e, <4>1, <4>2, <4>3, LeavesOrIsCut
      <4>5. CarriesOK' /\ CredsOK'
        BY <1>a, <2>1, <4>1, <4>2, <4>3, <4>4, ShownKeeps, CutOffKeeps
      <4>6. Wiz!TypeOK'
        BY <1>a, <2>1, <2>5, <2>10, <4>4 DEF Wiz!TypeOK, Shown, CutOff
      <4>7. QED
        BY <2>6, <2>10, <4>5, <4>6 DEF WizInv
    <3>2. CASE /\ ui' = [ui EXCEPT !.submitting = FALSE, !.banner = TRUE]
               /\ UNCHANGED file
      <4>1. Stays
        <5>1. ui' \in Wiz!Display
          BY <1>a, <2>1, <3>2 DEF Wiz!Display
        <5>2. QED
          BY <1>a, <2>1, <3>2, <5>1, DisplayFields DEF Stays, Wiz!Display
      <4>2. CarriesOK' /\ CredsOK'
        BY <1>0, <1>a, <2>1, <4>1, StaysKeeps
      <4>3. Wiz!TypeOK'
        BY <1>a, <2>1, <2>5, <2>10, <4>1 DEF Wiz!TypeOK, Stays
      <4>4. QED
        BY <2>6, <2>10, <4>2, <4>3 DEF WizInv
    <3>3. QED
      BY <2>3, <2>10, <3>1, <3>2 DEF Wiz!HandleClaim
  <2>11. CASE kind = "clone"
    <3> DEFINE done == [ui EXCEPT !.cloning = FALSE]
               cloned == {r \in ui.selected : ui.status[r] \in {"cloned", "exists"}}
               sess == [ui.sess EXCEPT !.repos = cloned]
               w == [done EXCEPT !.cloneError = FALSE]
    <3>1. \/ ui' = [done EXCEPT !.cloneError = TRUE] /\ file' = file
          \/ Wiz!Leave(w, sess, "repos_cloned", "environment")
      BY <2>3, <2>11 DEF Wiz!HandleCloned
    <3>2. CASE ui' = [done EXCEPT !.cloneError = TRUE] /\ file' = file
      <4>1. Stays
        <5>1. ui' \in Wiz!Display
          BY <1>a, <2>1, <3>2 DEF Wiz!Display
        <5>2. QED
          BY <1>a, <2>1, <3>2, <5>1, DisplayFields DEF Stays, Wiz!Display
      <4>2. CarriesOK' /\ CredsOK'
        BY <1>0, <1>a, <2>1, <4>1, StaysKeeps
      <4>3. Wiz!TypeOK'
        BY <1>a, <2>1, <2>5, <2>11, <4>1 DEF Wiz!TypeOK, Stays
      <4>4. QED
        BY <2>6, <2>11, <4>2, <4>3 DEF WizInv
    <3>3. CASE Wiz!Leave(w, sess, "repos_cloned", "environment")
      <4>1. w \in Wiz!Display /\ w.offered = None
        BY <1>a, <2>1, <2>7 DEF Wiz!Display
      <4>2. cloned \in SUBSET Repos
        BY <1>a, <2>1, DisplayFields
      <4>3. sess \in Wiz!Session /\ sess.cred = ui.sess.cred
        <5> HIDE DEF cloned
        <5>1. QED
          BY <1>a, <2>1, <4>2, SessionFields
      <4>4. ui.sess.cred > 0
        BY <1>0, <1>e, <2>1, <2>2, <2>11 DEF CarriesOK, Wiz!ScreenOf, Wiz!Kinds
      <4> HIDE DEF w, sess
      <4>5. Shown(w, sess, "environment") \/ CutOff(sess, "repos_cloned")
        BY <1>e, <3>3, <4>1, <4>3, LeavesOrIsCut
      <4>6. CarriesOK' /\ CredsOK'
        BY <1>a, <1>c, <2>1, <4>1, <4>3, <4>4, <4>5, ShownKeeps, CutOffKeeps
      <4>7. Wiz!TypeOK'
        BY <1>a, <2>1, <2>5, <2>11, <4>5 DEF Wiz!TypeOK, Shown, CutOff
      <4>8. QED
        BY <2>6, <2>11, <4>6, <4>7 DEF WizInv
    <3>4. QED
      BY <3>1, <3>2, <3>3
  <2>12. QED
    BY <2>8, <2>9, <2>10, <2>11 DEF Wiz!Kinds
<1>14. CASE Wiz!Quit
  <2>1. /\ ui # None /\ file' = ui.sess /\ ui' = None /\ jobs' = Wiz!NoJobs
        /\ UNCHANGED <<issued, onDisk>>
    BY <1>14 DEF Wiz!Quit
  <2>2. CarriesOK' /\ CredsOK'
    BY <1>c, <2>1 DEF CarriesOK, CredsOK
  <2>3. Wiz!TypeOK'
    BY <1>a, <1>d, <2>1 DEF Wiz!TypeOK
  <2>4. QED
    BY <1>d, <2>1, <2>2, <2>3, QuietKeeps DEF WizInv
<1>15. CASE Wiz!Kill
  <2>1. /\ ui' = None /\ jobs' = Wiz!NoJobs
        /\ UNCHANGED <<file, issued, onDisk>>
    BY <1>15 DEF Wiz!Kill
  <2>2. CarriesOK' /\ CredsOK'
    BY <1>c, <2>1 DEF CarriesOK, CredsOK
  <2>3. Wiz!TypeOK'
    BY <1>a, <1>d, <2>1 DEF Wiz!TypeOK
  <2>4. QED
    BY <1>d, <2>1, <2>2, <2>3, QuietKeeps DEF WizInv
<1>16. CASE Wiz!Headless
  <2> DEFINE old == IF Wiz!Pending(file) THEN file ELSE Wiz!Fresh
             claimed == old.stage \in {"token_claimed", "repos_cloned"}
  <2>1. /\ ui = None /\ UNCHANGED <<ui, jobs, onDisk>>
        /\ \/ file' = [old EXCEPT !.stage = "doctor_passed"] /\ issued' = issued
           \/ \E stage \in {"token_claimed", "completed"} :
                /\ issued' \in (IF claimed THEN {issued}
                                ELSE (issued..(issued + 1)) \ {0})
                /\ issued' <= MaxIssued
                /\ file' = [old EXCEPT !.stage = stage,
                              !.cred = IF claimed THEN @ ELSE issued']
    BY <1>16 DEF Wiz!Headless
  <2>2. /\ old \in Wiz!Session /\ old.cred \in Nat /\ old.cred <= issued
        /\ Carries(old)
    BY <1>a, <1>c, <1>e, FreshFields DEF Carries, Wiz!Pending
  <2>3. claimed => old.cred > 0
    BY <1>e, <2>2 DEF Carries
  <2> HIDE DEF old, claimed
  <2>4. /\ file' \in Wiz!Session /\ file'.cred <= issued' /\ Carries(file')
        /\ issued' \in 0..MaxIssued
    <3>1. CASE file' = [old EXCEPT !.stage = "doctor_passed"] /\ issued' = issued
      BY <1>a, <1>e, <2>2, <3>1, SessionFields DEF Carries
    <3>2. ASSUME NEW stage \in {"token_claimed", "completed"},
                 issued' \in (IF claimed THEN {issued}
                              ELSE (issued..(issued + 1)) \ {0}),
                 issued' <= MaxIssued,
                 file' = [old EXCEPT !.stage = stage,
                            !.cred = IF claimed THEN @ ELSE issued']
          PROVE  /\ file' \in Wiz!Session /\ file'.cred <= issued'
                 /\ Carries(file') /\ issued' \in 0..MaxIssued
      <4> DEFINE cred == IF claimed THEN old.cred ELSE issued'
      <4>1. issued' \in 0..MaxIssued /\ issued' >= issued
        BY <1>a, <3>2, HostAssumption
      <4>2. cred > 0 /\ cred <= issued' /\ cred \in 0..MaxIssued
        <5>1. old.cred \in 0..MaxIssued
          BY <2>2, SessionFields
        <5>2. CASE claimed
          BY <1>a, <2>2, <2>3, <4>1, <5>1, <5>2
        <5>3. CASE ~claimed
          BY <1>a, <3>2, <4>1, <5>3, HostAssumption
        <5>4. QED
          BY <5>2, <5>3
      <4>3. file' = [old EXCEPT !.stage = stage, !.cred = cred]
        BY <3>2
      <4> HIDE DEF cred
      <4>4. file' \in Wiz!Session /\ file'.cred = cred
        BY <1>e, <2>2, <3>2, <4>2, <4>3 DEF Wiz!Session
      <4>5. QED
        BY <4>1, <4>2, <4>4 DEF Carries
    <3>3. QED
      BY <2>1, <3>1, <3>2
  <2>5. CarriesOK' /\ CredsOK'
    BY <2>1, <2>4 DEF CarriesOK, CredsOK
  <2>6. Wiz!TypeOK'
    BY <1>a, <2>1, <2>4 DEF Wiz!TypeOK
  <2>7. QED
    BY <1>b, <1>d, <2>1, <2>5, <2>6, QuietKeeps DEF WizInv
<1>17. CASE UNCHANGED Wiz!vars
  <2>1. UNCHANGED <<file, ui, jobs, issued, onDisk>>
    BY <1>17 DEF Wiz!vars
  <2>2. Wiz!TypeOK' /\ BannersOK' /\ CarriesOK' /\ CredsOK'
    BY <1>0, <2>1 DEF Wiz!TypeOK, BannersOK, CarriesOK, CredsOK, Wiz!Pending
  <2>3. Wiz!OneCommandAtATime'
    BY <1>0, <2>1 DEF Wiz!OneCommandAtATime
  <2>4. QED
    BY <2>2, <2>3 DEF WizInv
<1>18. QED
  BY <1>1, <1>2, <1>3, <1>4, <1>5, <1>6, <1>7, <1>8, <1>9, <1>10, <1>11, <1>12, <1>13,
     <1>14, <1>15, <1>16, <1>17 DEF Wiz!Next


(* A step does not lose the credential of an unfinished checkpoint: what   *)
(* it writes has that credential or a later one.                           *)
LEMMA KeepsCredential ==
  WizInv /\ [Wiz!Next]_(Wiz!vars) =>
    [Wiz!Pending(file) /\ file.cred > 0
       => \/ file' # None /\ file'.cred >= file.cred
          \/ Wiz!DiscardOffered
          \/ \E resume \in BOOLEAN : Wiz!Start(resume, TRUE)]_(Wiz!vars)
<1> SUFFICES ASSUME WizInv, Wiz!Next, Wiz!Pending(file), file.cred > 0
             PROVE  \/ file' # None /\ file'.cred >= file.cred
                    \/ Wiz!DiscardOffered
                    \/ \E resume \in BOOLEAN : Wiz!Start(resume, TRUE)
  OBVIOUS
<1>0. Wiz!TypeOK /\ CredsOK
  BY DEF WizInv
<1>a. /\ file # None /\ file \in Wiz!Session /\ file.cred \in Nat
      /\ file.cred <= issued /\ issued \in Nat
      /\ ui # None => /\ ui \in Wiz!Display /\ ui.sess \in Wiz!Session
                      /\ ui.sess.cred \in Nat /\ ui.sess.cred >= file.cred
                      /\ ui.offered # None =>
                           /\ ui.offered \in Wiz!Session
                           /\ ui.offered.cred >= file.cred
                           /\ ui.offered.stage \in
                                Wiz!Screens \union Wiz!Between \union {"init"}
  BY <1>0, SessionFields, DisplayFields, HostAssumption
     DEF Wiz!TypeOK, CredsOK, Wiz!Pending
<1>b. file' = file => file' # None /\ file'.cred >= file.cred
  <2>1. file # None /\ file.cred \in Nat
    BY <1>a
  <2>2. file.cred >= file.cred
    BY <2>1
  <2>3. QED
    BY <2>1, <2>2
<1>1. ASSUME NEW resume \in BOOLEAN, NEW reset \in BOOLEAN, Wiz!Start(resume, reset)
      PROVE  \/ file' # None /\ file'.cred >= file.cred
             \/ \E again \in BOOLEAN : Wiz!Start(again, TRUE)
  <2>1. CASE reset
    BY <1>1, <2>1
  <2>2. CASE ~reset
    <3>1. file' = file
      BY <1>1, <2>2 DEF Wiz!Start
    <3>2. QED
      BY <1>b, <3>1
  <2>3. QED
    BY <2>1, <2>2
<1>2. CASE Wiz!ResumeOffered
  <2>1. /\ ui # None /\ ui.offered # None
        /\ file' = [ui.offered EXCEPT !.stage = ui.offered.stage]
    BY <1>2 DEF Wiz!ResumeOffered, Wiz!On, Wiz!SetStage
  <2>2. file' # None /\ file'.cred = ui.offered.cred
    <3>1. file' \in Wiz!Session
      BY <1>a, <2>1 DEF Wiz!Session
    <3>2. QED
      BY <1>a, <2>1, <3>1, SessionFields DEF Wiz!Session
  <2>3. QED
    BY <1>a, <2>1, <2>2
<1>3. ASSUME NEW w, NEW checkpoint \in Wiz!Screens \union Wiz!Between \union {"init"},
             NEW stage \in Wiz!Screens \union Wiz!Between,
             NEW sess \in Wiz!Session, sess.cred >= file.cred,
             Wiz!Leave(w, sess, checkpoint, stage) \/ Wiz!SetStage(w, sess, stage)
      PROVE  file' # None /\ file'.cred >= file.cred
  <2>1. \E g \in {checkpoint, stage} : file' = [sess EXCEPT !.stage = g]
    BY <1>3 DEF Wiz!Leave, Wiz!SetStage
  <2>2. PICK g \in Wiz!Screens \union Wiz!Between \union {"init"} :
          file' = [sess EXCEPT !.stage = g]
    BY <2>1
  <2>3. [sess EXCEPT !.stage = g] \in Wiz!Session /\ [sess EXCEPT !.stage = g].cred = sess.cred
    BY SessionFields
  <2>4. QED
    BY <1>3, <2>2, <2>3, SessionFields
<1>e. {"doctor", "identity", "workspace", "environment", "doctor_passed",
       "claim_submitted", "repos_cloned"} \subseteq Wiz!Screens \union Wiz!Between
  BY DEF Wiz!Screens, Wiz!Between
<1>f. {"doctor", "identity", "workspace", "environment"} \subseteq
        Wiz!Screens \union Wiz!Between
  BY DEF Wiz!Screens
<1>4. CASE Wiz!EnterToken
  <2>1. ui # None /\ Wiz!Leave(ui, ui.sess, ui.sess.stage, "doctor")
    BY <1>4 DEF Wiz!EnterToken, Wiz!On
  <2>2. ui.sess.stage \in Wiz!Screens \union Wiz!Between \union {"init"}
    BY <1>a, <2>1, SessionFields
  <2>3. QED
    BY <1>3, <1>a, <1>f, <2>1, <2>2
<1>5. CASE Wiz!PassDoctor
  <2>1. ui # None /\ Wiz!Leave(ui, ui.sess, "doctor_passed", "identity")
    BY <1>5 DEF Wiz!PassDoctor, Wiz!On
  <2>2. QED
    BY <1>3, <1>a, <1>e, <1>f, <2>1
<1>6. CASE Wiz!RunCloner
  <2>1. ui # None
    BY <1>6 DEF Wiz!RunCloner, Wiz!On
  <2>2. \/ file' = file
        \/ Wiz!SetStage([ui EXCEPT !.cloneError = FALSE], ui.sess, "environment")
    BY <1>6 DEF Wiz!RunCloner
  <2>3. CASE Wiz!SetStage([ui EXCEPT !.cloneError = FALSE], ui.sess, "environment")
    <3> DEFINE w == [ui EXCEPT !.cloneError = FALSE]
    <3>1. Wiz!SetStage(w, ui.sess, "environment")
      BY <2>3
    <3> HIDE DEF w
    <3>2. QED
      BY <1>3, <1>a, <1>e, <1>f, <2>1, <3>1
  <2>4. QED
    BY <1>b, <2>2, <2>3
<1>7. ASSUME NEW kind \in Wiz!Kinds, Wiz!Result(kind)
      PROVE  file' # None /\ file'.cred >= file.cred
  <2>1. /\ ui # None
        /\ \/ file' = file
           \/ Wiz!HandleClaim
           \/ Wiz!HandleCloned
    BY <1>7 DEF Wiz!Result, Wiz!Kinds, Wiz!HandleDiagnostics, Wiz!HandleHeal
  <2>2. CASE Wiz!HandleClaim
    <3> DEFINE sess == [ui.sess EXCEPT !.cred = issued]
    <3>1. \/ file' = file
          \/ Wiz!Leave([ui EXCEPT !.submitting = FALSE], sess,
                       "claim_submitted", "workspace")
      BY <2>2 DEF Wiz!HandleClaim
    <3>2. sess \in Wiz!Session /\ sess.cred = issued
      BY <1>0, <1>a, <2>1, SessionFields DEF Wiz!TypeOK
    <3> HIDE DEF sess
    <3>3. QED
      BY <1>3, <1>a, <1>e, <1>f, <3>1, <3>2
  <2>3. CASE Wiz!HandleCloned
    <3> DEFINE done == [ui EXCEPT !.cloning = FALSE]
               cloned == {r \in ui.selected : ui.status[r] \in {"cloned", "exists"}}
               sess == [ui.sess EXCEPT !.repos = cloned]
    <3>1. \/ file' = file
          \/ Wiz!Leave([done EXCEPT !.cloneError = FALSE], sess,
                       "repos_cloned", "environment")
      BY <2>3 DEF Wiz!HandleCloned
    <3>2. cloned \in SUBSET Repos
      BY <1>a, <2>1, DisplayFields
    <3> HIDE DEF cloned
    <3>3. sess \in Wiz!Session /\ sess.cred = ui.sess.cred
      BY <1>a, <2>1, <3>2, SessionFields
    <3> HIDE DEF sess
    <3>4. QED
      BY <1>3, <1>a, <1>e, <1>f, <2>1, <3>1, <3>3
  <2>4. QED
    BY <1>b, <2>1, <2>2, <2>3
<1>8. CASE Wiz!Quit
  <2>1. ui # None /\ file' = ui.sess
    BY <1>8 DEF Wiz!Quit
  <2>2. QED
    BY <1>a, <2>1, SessionFields
<1>9. CASE Wiz!Headless
  <2> DEFINE claimed == file.stage \in {"token_claimed", "repos_cloned"}
  <2>1. \/ file' = [file EXCEPT !.stage = "doctor_passed"]
        \/ \E stage \in {"token_claimed", "completed"} :
             /\ issued' \in (IF claimed THEN {issued}
                             ELSE (issued..(issued + 1)) \ {0})
             /\ file' = [file EXCEPT !.stage = stage,
                           !.cred = IF claimed THEN @ ELSE issued']
    BY <1>9 DEF Wiz!Headless
  <2>2. CASE file' = [file EXCEPT !.stage = "doctor_passed"]
    <3>1. [file EXCEPT !.stage = "doctor_passed"] \in Wiz!Session
      BY <1>a, <1>e, SessionFields
    <3>2. [file EXCEPT !.stage = "doctor_passed"].cred = file.cred
      BY <1>a DEF Wiz!Session
    <3>3. file.cred >= file.cred
      BY <1>a
    <3>4. QED
      BY <2>2, <3>1, <3>2, <3>3, SessionFields
  <2>3. ASSUME NEW stage \in {"token_claimed", "completed"},
               issued' \in (IF claimed THEN {issued}
                            ELSE (issued..(issued + 1)) \ {0}),
               file' = [file EXCEPT !.stage = stage,
                          !.cred = IF claimed THEN @ ELSE issued']
        PROVE  file' # None /\ file'.cred >= file.cred
    <3>1. issued' >= issued /\ issued' \in Nat
      BY <1>a, <2>3
    <3>2. file'.cred = IF claimed THEN file.cred ELSE issued'
      BY <1>a, <2>3 DEF Wiz!Session
    <3>3. file' # None
      <4>1. issued' \in 0..MaxIssued
        BY WizStep DEF WizInv, Wiz!TypeOK
      <4>2. stage \in Wiz!Screens \union Wiz!Between
        BY DEF Wiz!Screens, Wiz!Between
      <4>3. (IF claimed THEN file.cred ELSE issued') \in 0..MaxIssued
        BY <1>a, <4>1, SessionFields
      <4>4. file' = [file EXCEPT !.stage = stage,
                       !.cred = IF claimed THEN file.cred ELSE issued']
        BY <2>3
      <4> HIDE DEF claimed
      <4>5. file' \in Wiz!Session
        BY <1>a, <4>2, <4>3, <4>4 DEF Wiz!Session
      <4>6. QED
        BY <4>5, SessionFields
    <3> HIDE DEF claimed
    <3>4. file.cred \in Nat /\ issued \in Nat /\ file.cred <= issued
      BY <1>a
    <3>5. QED
      BY <3>1, <3>2, <3>3, <3>4
  <2>4. QED
    BY <2>1, <2>2, <2>3
<1>10. QED
  <2>1. CASE UNCHANGED file
    BY <1>b, <2>1
  <2>2. QED
    BY <1>1, <1>2, <1>4, <1>5, <1>6, <1>7, <1>8, <1>9, <2>1
       DEF Wiz!Next, Wiz!Diagnose, Wiz!Heal, Wiz!RunClaim, Wiz!Toggle, Wiz!Clone,
           Wiz!EdgeClaims, Wiz!Kill


LEMMA WizCarries == WizInv => Wiz!ClaimedHasCredential
BY DEF WizInv, CarriesOK, Carries, Wiz!ClaimedHasCredential

(* Whatever the wizard and the headless flow do to the checkpoint they     *)
(* share, behind the claim there is a credential, and it is not lost.      *)
THEOREM WizKeepsCredential == Wiz!Spec => Wiz!CredentialKept
BY WizInit, WizStep, WizCarries, KeepsCredential, PTL
   DEF Wiz!Spec, Wiz!CredentialKept, Wiz!CredentialSurvives


-----------------------------------------------------------------------------
(* EdgeCalls.                                                              *)

Calls ==
  [ kind : Edge!Kinds, attempt : 0..(1 + MaxRetries), key : 0..MaxCalls,
    at : {"off", "send", "wait", "invite", "ok", "failed"}, spent : BOOLEAN ]

(* A command that is at work counts, for the invitations it may issue.     *)
CountOK ==
  /\ wire # "idle" => call.at = "wait"
  /\ call.at # "off" => call.key \in 1..MaxCalls /\ call.attempt >= 1
  /\ call.attempt <= Edge!Attempts(call.kind)
  /\ invited <= calls
  /\ call.at \in {"send", "wait", "invite"} => invited < calls

(* One account and one member; who has an answer, on the way or read, has  *)
(* the effect it speaks of.                                                *)
AnswerOK ==
  /\ served["claim"] <= 1 /\ served["staff"] <= 1
  /\ served["staff"] > 0 <=> member # None
  /\ call.at = "wait" /\ wire = "ok" =>
       served[call.kind] > 0 /\ (call.kind = "verify" => call.spent)
  /\ call.at \in {"ok", "invite"} =>
       served[call.kind] > 0 /\ (call.kind = "verify" => call.spent)
  /\ call.at = "invite" => call.kind = "staff"
  /\ invited > 0 => member # None

CallsInv == Edge!TypeOK /\ CountOK /\ AnswerOK

LEMMA CallsInit == Edge!Init => CallsInv
<1> SUFFICES ASSUME Edge!Init PROVE CallsInv
  OBVIOUS
<1>1. /\ call = Edge!Off /\ wire = "idle" /\ late = None
      /\ served = [k \in Edge!Kinds |-> 0] /\ member = None /\ invited = 0 /\ calls = 0
  BY DEF Edge!Init
<1>2. /\ call \in Calls /\ call.kind = "claim" /\ call.attempt = 0 /\ call.at = "off"
  <2> DEFINE A == 0..(1 + MaxRetries)
             K == 0..MaxCalls
  <2>1. 0 \in A /\ 0 \in K
    BY HostAssumption
  <2> HIDE DEF A, K
  <2>2. call \in [ kind : Edge!Kinds, attempt : A, key : K,
                   at : {"off", "send", "wait", "invite", "ok", "failed"}, spent : BOOLEAN ]
    BY <1>1, <2>1 DEF Edge!Off, Edge!Kinds
  <2>3. call.kind = "claim" /\ call.attempt = 0 /\ call.at = "off"
    BY <1>1 DEF Edge!Off
  <2>4. QED
    BY <2>2, <2>3 DEF A, K, Calls
<1>3. Edge!TypeOK
  BY <1>1, <1>2, HostAssumption DEF Edge!TypeOK, Calls
<1>4. CountOK
  BY <1>1, <1>2, HostAssumption DEF CountOK, Edge!Attempts
<1>5. AnswerOK
  BY <1>1, <1>2 DEF AnswerOK, Edge!Kinds
<1>6. QED
  BY <1>3, <1>4, <1>5 DEF CallsInv

(* What a server does keeps the account and the member single.             *)
LEMMA HandleKeeps ==
  ASSUME Edge!TypeOK, AnswerOK, NEW kind \in Edge!Kinds, NEW key \in 1..MaxCalls,
         Edge!Handle(kind, key)
  PROVE  /\ served' \in [Edge!Kinds -> Nat]
         /\ member' \in (1..MaxCalls) \union {None}
         /\ \A k \in Edge!Kinds : served'[k] >= served[k]
         /\ served'[kind] > 0 \/ ~Edge!Accepted(kind, key)
         /\ served'["claim"] <= 1 /\ served'["staff"] <= 1
         /\ served'["staff"] > 0 <=> member' # None
         /\ member # None => member' # None
<1>1. /\ served \in [Edge!Kinds -> Nat] /\ member \in (1..MaxCalls) \union {None}
      /\ None \notin 1..MaxCalls /\ key # None
      /\ served["claim"] <= 1 /\ served["staff"] <= 1
      /\ served["staff"] > 0 <=> member # None
      /\ {"claim", "verify", "challenge", "staff"} = Edge!Kinds
  BY NoneAssumption DEF Edge!TypeOK, AnswerOK, Edge!Kinds
<1>2. /\ served' = [served EXCEPT ![kind] = IF Edge!Effect(kind) THEN @ + 1 ELSE @]
      /\ member' = IF kind = "staff" /\ member = None THEN key ELSE member
  BY DEF Edge!Handle
<1>3. /\ kind = "claim" => (Edge!Effect(kind) <=> served["claim"] = 0)
      /\ kind = "verify" => (Edge!Effect(kind) <=> served["verify"] = 0)
      /\ kind = "challenge" => Edge!Effect(kind)
      /\ kind = "staff" => (Edge!Effect(kind) <=> member = None)
  BY DEF Edge!Effect
<1>4. Edge!Accepted(kind, key) =>
        Edge!Effect(kind) \/ kind = "claim" \/ (kind = "staff" /\ member = key)
  BY DEF Edge!Accepted
<1>5. served' \in [Edge!Kinds -> Nat] /\ member' \in (1..MaxCalls) \union {None}
  BY <1>1, <1>2
<1>6. /\ \A k \in Edge!Kinds : k # kind => served'[k] = served[k]
      /\ Edge!Effect(kind) => served'[kind] = served[kind] + 1
      /\ ~Edge!Effect(kind) => served'[kind] = served[kind]
      /\ served[kind] \in Nat
  BY <1>1, <1>2
<1>7. \A k \in Edge!Kinds : served'[k] >= served[k]
  BY <1>1, <1>6
<1>8. served'["claim"] <= 1
  BY <1>1, <1>3, <1>6
<1>9. served'["staff"] <= 1 /\ (served'["staff"] > 0 <=> member' # None)
  BY <1>1, <1>2, <1>3, <1>6
<1>10. served'[kind] > 0 \/ ~Edge!Accepted(kind, key)
  BY <1>1, <1>3, <1>4, <1>6
<1>11. member # None => member' # None
  BY <1>1, <1>2
<1>12. QED
  BY <1>5, <1>7, <1>8, <1>9, <1>10, <1>11

(* What the command is after a step of it.                                 *)
LEMMA CallMoves ==
  ASSUME call \in Calls, NEW a \in {"wait", "invite", "ok", "failed"},
         call' = [call EXCEPT !.at = a]
  PROVE  /\ call' \in Calls /\ call'.at = a /\ call'.kind = call.kind
         /\ call'.key = call.key /\ call'.spent = call.spent
         /\ call'.attempt = call.attempt
BY DEF Calls

LEMMA CallSpends ==
  ASSUME call \in Calls, NEW e \in BOOLEAN, call' = [call EXCEPT !.spent = @ \/ e]
  PROVE  /\ call' \in Calls /\ call'.at = call.at /\ call'.kind = call.kind
         /\ call'.key = call.key /\ call'.attempt = call.attempt
         /\ call.spent => call'.spent
         /\ e => call'.spent
<1> DEFINE sp == call.spent \/ e
<1>1. sp \in BOOLEAN /\ (call.spent => sp) /\ (e => sp)
  OBVIOUS
<1>2. call' = [call EXCEPT !.spent = sp]
  OBVIOUS
<1> HIDE DEF sp
<1>3. /\ call' \in Calls /\ call'.at = call.at /\ call'.kind = call.kind
      /\ call'.key = call.key /\ call'.attempt = call.attempt /\ call'.spent = sp
  BY <1>1, <1>2 DEF Calls
<1>4. QED
  BY <1>1, <1>3

LEMMA CallType ==
  ASSUME Edge!TypeOK
  PROVE  /\ call \in Calls /\ call.kind \in Edge!Kinds
         /\ call.at \in {"off", "send", "wait", "invite", "ok", "failed"}
         /\ call.attempt \in Nat /\ call.attempt \in 0..(1 + MaxRetries)
         /\ wire \in {"idle", "request", "ok", "busy", "refused", "lost"}
         /\ late \in [kind : Edge!Kinds, key : 1..MaxCalls] \union {None}
         /\ served \in [Edge!Kinds -> Nat]
         /\ member \in (1..MaxCalls) \union {None}
         /\ invited \in 0..MaxCalls /\ calls \in 0..MaxCalls
         /\ invited \in Nat /\ calls \in Nat /\ MaxCalls \in Nat /\ MaxRetries \in Nat
         /\ \A k \in Edge!Kinds : /\ Edge!Attempts(k) \in Nat /\ Edge!Attempts(k) >= 1
                                  /\ Edge!Attempts(k) <= 1 + MaxRetries
                                  /\ served[k] \in Nat
         /\ {"claim", "staff"} \subseteq Edge!Kinds
<1>1. /\ call \in Calls
      /\ wire \in {"idle", "request", "ok", "busy", "refused", "lost"}
      /\ late \in [kind : Edge!Kinds, key : 1..MaxCalls] \union {None}
      /\ served \in [Edge!Kinds -> Nat]
      /\ member \in (1..MaxCalls) \union {None}
      /\ invited \in 0..MaxCalls /\ calls \in 0..MaxCalls
  BY DEF Edge!TypeOK, Calls
<1>2. /\ call.kind \in Edge!Kinds /\ call.attempt \in 0..(1 + MaxRetries)
      /\ call.at \in {"off", "send", "wait", "invite", "ok", "failed"}
  BY <1>1 DEF Calls
<1>3. MaxCalls \in Nat /\ MaxRetries \in Nat
  BY HostAssumption
<1>4. \A k \in Edge!Kinds : /\ Edge!Attempts(k) \in Nat /\ Edge!Attempts(k) >= 1
                            /\ Edge!Attempts(k) <= 1 + MaxRetries
  BY <1>3 DEF Edge!Attempts
<1>5. {"claim", "staff"} \subseteq Edge!Kinds
  BY DEF Edge!Kinds
<1>6. QED
  BY <1>1, <1>2, <1>3, <1>4, <1>5

(* A request or an answer is lost, and a server may still have it.         *)
LEMMA LateType ==
  ASSUME Edge!TypeOK, CountOK, late' \in Edge!Abandoned
  PROVE  late' \in [kind : Edge!Kinds, key : 1..MaxCalls] \union {None}
<1>1. late \in [kind : Edge!Kinds, key : 1..MaxCalls] \union {None}
  BY CallType
<1>2. CASE wire = "request"
  <2>1. call.kind \in Edge!Kinds /\ call.key \in 1..MaxCalls
    BY <1>2, CallType DEF CountOK
  <2>2. QED
    BY <1>1, <2>1 DEF Edge!Abandoned
<1>3. QED
  BY <1>1, <1>2 DEF Edge!Abandoned

LEMMA CallsStep == CallsInv /\ [Edge!Next]_(Edge!vars) => CallsInv'
<1> SUFFICES ASSUME CallsInv, [Edge!Next]_(Edge!vars) PROVE CallsInv'
  OBVIOUS
<1> USE CallType
<1>0. Edge!TypeOK /\ CountOK /\ AnswerOK
  BY DEF CallsInv
(* The command moves on the answer it has.                                 *)
<1>1. ASSUME NEW a \in {"wait", "invite", "ok", "failed"}, call' = [call EXCEPT !.at = a],
             UNCHANGED <<served, member, calls>>,
             call.at # "off",
             late' \in [kind : Edge!Kinds, key : 1..MaxCalls] \union {None},
             wire' \in {"idle", "request"}, wire' = "request" => a = "wait",
             invited' \in {invited, invited + 1},
             a \in {"wait", "invite"} => invited < calls /\ invited' = invited,
             invited' # invited => invited < calls /\ member # None,
             a \in {"ok", "invite"} =>
               served[call.kind] > 0 /\ (call.kind = "verify" => call.spent),
             a = "invite" => call.kind = "staff"
      PROVE  CallsInv'
  <2>1. /\ call' \in Calls /\ call'.at = a /\ call'.kind = call.kind
        /\ call'.key = call.key /\ call'.spent = call.spent
        /\ call'.attempt = call.attempt
    BY <1>0, <1>1, CallMoves
  <2>2. invited' \in 0..MaxCalls /\ invited' <= calls
    BY <1>0, <1>1 DEF CountOK
  <2>3. Edge!TypeOK'
    BY <1>0, <1>1, <2>1, <2>2 DEF Edge!TypeOK, Calls
  <2>4. CountOK'
    BY <1>0, <1>1, <2>1, <2>2 DEF CountOK
  <2>5. AnswerOK'
    BY <1>0, <1>1, <2>1 DEF AnswerOK
  <2>6. QED
    BY <2>3, <2>4, <2>5 DEF CallsInv
<1>2. ASSUME NEW kind \in Edge!Kinds, Edge!Begin(kind) PROVE CallsInv'
  <2>1. /\ call.at \in {"off", "ok", "failed"} /\ calls < MaxCalls /\ calls' = calls + 1
        /\ wire' = "idle" /\ UNCHANGED <<late, served, member, invited>>
        /\ \E key \in 1..calls' :
             call' = [kind |-> kind, attempt |-> 1, key |-> key, at |-> "send",
                      spent |-> FALSE]
    BY <1>2 DEF Edge!Begin
  <2>2. PICK key \in 1..calls' :
             call' = [kind |-> kind, attempt |-> 1, key |-> key, at |-> "send",
                      spent |-> FALSE]
    BY <2>1
  <2>3. /\ calls' \in 0..MaxCalls /\ key \in 1..MaxCalls /\ key \in 0..MaxCalls
        /\ 1 \in 0..(1 + MaxRetries)
    BY <1>0, <2>1, <2>2
  <2>4. /\ call' \in Calls /\ call'.at = "send" /\ call'.key = key
        /\ call'.attempt = 1 /\ call'.kind = kind
    <3> DEFINE A == 0..(1 + MaxRetries)
               K == 0..MaxCalls
               one == 1
    <3>1. one \in A /\ key \in K
      BY <2>3
    <3>2. call' = [kind |-> kind, attempt |-> one, key |-> key, at |-> "send",
                   spent |-> FALSE]
      BY <2>2
    <3> HIDE DEF A, K, one
    <3>3. call' \in [ kind : Edge!Kinds, attempt : A, key : K,
                      at : {"off", "send", "wait", "invite", "ok", "failed"},
                      spent : BOOLEAN ]
      BY <3>1, <3>2
    <3>4. call'.at = "send" /\ call'.key = key /\ call'.attempt = one /\ call'.kind = kind
      BY <3>2
    <3>5. QED
      BY <3>3, <3>4 DEF A, K, one, Calls
  <2>5. Edge!TypeOK'
    BY <1>0, <2>1, <2>3, <2>4 DEF Edge!TypeOK, Calls
  <2>6. CountOK'
    BY <1>0, <2>1, <2>3, <2>4 DEF CountOK
  <2>7. AnswerOK'
    BY <1>0, <2>1, <2>4 DEF AnswerOK
  <2>8. QED
    BY <2>5, <2>6, <2>7 DEF CallsInv
<1>3. CASE Edge!Send
  <2>1. /\ call.at = "send" /\ call' = [call EXCEPT !.at = "wait"] /\ wire' = "request"
        /\ UNCHANGED <<late, served, member, invited, calls>>
    BY <1>3 DEF Edge!Send
  <2>2. invited < calls
    BY <1>0, <2>1 DEF CountOK
  <2>3. QED
    BY <1>0, <1>1, <2>1, <2>2
<1>4. CASE Edge!Succeed
  <2>1. /\ call.at = "wait" /\ wire = "ok" /\ wire' = "idle"
        /\ call' = [call EXCEPT !.at = IF call.kind = "staff" THEN "invite" ELSE "ok"]
        /\ UNCHANGED <<late, served, member, invited, calls>>
    BY <1>4 DEF Edge!Succeed
  <2>2. invited < calls
    BY <1>0, <2>1 DEF CountOK
  <2>3. served[call.kind] > 0 /\ (call.kind = "verify" => call.spent)
    BY <1>0, <2>1 DEF AnswerOK
  <2>4. QED
    BY <1>0, <1>1, <2>1, <2>2, <2>3
<1>5. CASE Edge!Again
  <2>1. /\ call.at = "wait" /\ call.attempt < Edge!Attempts(call.kind) /\ wire' = "idle"
        /\ call' = [call EXCEPT !.attempt = @ + 1, !.at = "send"]
        /\ UNCHANGED <<late, served, member, invited, calls>>
    BY <1>5 DEF Edge!Again
  <2>2. call.attempt + 1 \in 0..(1 + MaxRetries)
    BY <1>0, <2>1
  <2>3. /\ call' \in Calls /\ call'.at = "send" /\ call'.kind = call.kind
        /\ call'.key = call.key /\ call'.attempt = call.attempt + 1
    BY <1>0, <2>1, <2>2 DEF Calls
  <2>4. Edge!TypeOK'
    BY <1>0, <2>1, <2>3 DEF Edge!TypeOK, Calls
  <2>5. CountOK'
    BY <1>0, <2>1, <2>3 DEF CountOK
  <2>6. AnswerOK'
    BY <1>0, <2>1, <2>3 DEF AnswerOK
  <2>7. QED
    BY <2>4, <2>5, <2>6 DEF CallsInv
<1>6. CASE Edge!GiveUp
  <2>1. /\ call.at = "wait" /\ call' = [call EXCEPT !.at = "failed"] /\ wire' = "idle"
        /\ UNCHANGED <<late, served, member, invited, calls>>
    BY <1>6 DEF Edge!GiveUp
  <2>2. QED
    BY <1>0, <1>1, <2>1
<1>7. CASE Edge!Cancel
  <2>1. /\ call.at \in {"send", "wait"} /\ call' = [call EXCEPT !.at = "failed"]
        /\ wire' = "idle" /\ late' \in Edge!Abandoned
        /\ UNCHANGED <<served, member, invited, calls>>
    BY <1>7 DEF Edge!Cancel
  <2>2. late' \in [kind : Edge!Kinds, key : 1..MaxCalls] \union {None}
    BY <1>0, <2>1, LateType
  <2>3. QED
    BY <1>0, <1>1, <2>1, <2>2
<1>8. CASE Edge!IssueInvite
  <2>1. /\ call.at = "invite" /\ call' = [call EXCEPT !.at = "ok"]
        /\ invited' \in {invited, invited + 1}
        /\ UNCHANGED <<wire, late, served, member, calls>>
    BY <1>8 DEF Edge!IssueInvite
  <2>2. wire = "idle" /\ invited < calls
    BY <1>0, <2>1 DEF CountOK
  <2>3. served[call.kind] > 0 /\ (call.kind = "verify" => call.spent) /\ member # None
    BY <1>0, <2>1 DEF AnswerOK
  <2>4. QED
    BY <1>0, <1>1, <2>1, <2>2, <2>3
<1>9. CASE Edge!Serve
  <2>1. /\ wire = "request"
        /\ wire' \in IF Edge!Accepted(call.kind, call.key) THEN {"ok", "busy"}
                     ELSE {"refused"}
        /\ Edge!Handle(call.kind, call.key)
        /\ call' = [call EXCEPT !.spent = @ \/ Edge!Effect(call.kind)]
        /\ UNCHANGED <<late, invited, calls>>
    BY <1>9 DEF Edge!Serve
  <2>2. call.at = "wait" /\ call.key \in 1..MaxCalls /\ call.kind \in Edge!Kinds
        /\ Edge!Effect(call.kind) \in BOOLEAN
    BY <1>0, <2>1 DEF CountOK, Edge!Effect, Edge!Kinds
  <2>3. /\ call' \in Calls /\ call'.at = call.at /\ call'.kind = call.kind
        /\ call'.key = call.key /\ call'.attempt = call.attempt
        /\ call.spent => call'.spent
        /\ Edge!Effect(call.kind) => call'.spent
    BY <1>0, <2>1, <2>2, CallSpends
  <2>4. /\ served' \in [Edge!Kinds -> Nat]
        /\ member' \in (1..MaxCalls) \union {None}
        /\ \A k \in Edge!Kinds : served'[k] >= served[k]
        /\ served'[call.kind] > 0 \/ ~Edge!Accepted(call.kind, call.key)
        /\ served'["claim"] <= 1 /\ served'["staff"] <= 1
        /\ served'["staff"] > 0 <=> member' # None
        /\ member # None => member' # None
    BY <1>0, <2>1, <2>2, HandleKeeps
  <2>5. /\ wire' \in {"ok", "busy", "refused"}
        /\ wire' = "ok" => Edge!Accepted(call.kind, call.key)
    BY <2>1
  <2>6. wire' = "ok" => served'[call.kind] > 0 /\ (call.kind = "verify" => call'.spent)
    BY <2>3, <2>4, <2>5 DEF Edge!Accepted
  <2>7. Edge!TypeOK'
    BY <1>0, <2>1, <2>3, <2>4, <2>5 DEF Edge!TypeOK, Calls
  <2>8. CountOK'
    BY <1>0, <2>1, <2>2, <2>3 DEF CountOK
  <2>9. AnswerOK'
    BY <1>0, <2>1, <2>2, <2>3, <2>4, <2>6 DEF AnswerOK
  <2>10. QED
    BY <2>7, <2>8, <2>9 DEF CallsInv
<1>10. CASE Edge!ServeLate
  <2>1. /\ late # None /\ Edge!Handle(late.kind, late.key) /\ late' = None
        /\ \E own \in BOOLEAN :
             call' = [call EXCEPT !.spent = @ \/ (own /\ Edge!Effect(late.kind))]
        /\ UNCHANGED <<wire, invited, calls>>
    BY <1>10 DEF Edge!ServeLate
  <2>2. late.kind \in Edge!Kinds /\ late.key \in 1..MaxCalls
    BY <1>0, <2>1
  <2>3. /\ call' \in Calls /\ call'.at = call.at /\ call'.kind = call.kind
        /\ call'.key = call.key /\ call'.attempt = call.attempt
        /\ call.spent => call'.spent
    <3>1. PICK own \in BOOLEAN :
             call' = [call EXCEPT !.spent = @ \/ (own /\ Edge!Effect(late.kind))]
      BY <2>1
    <3> DEFINE e == own /\ Edge!Effect(late.kind)
    <3>2. e \in BOOLEAN /\ call' = [call EXCEPT !.spent = @ \/ e]
      BY <3>1
    <3> HIDE DEF e
    <3>3. QED
      BY <1>0, <3>2, CallSpends
  <2>4. /\ served' \in [Edge!Kinds -> Nat]
        /\ member' \in (1..MaxCalls) \union {None}
        /\ \A k \in Edge!Kinds : served'[k] >= served[k]
        /\ served'["claim"] <= 1 /\ served'["staff"] <= 1
        /\ served'["staff"] > 0 <=> member' # None
        /\ member # None => member' # None
    BY <1>0, <2>1, <2>2, HandleKeeps
  <2>5. Edge!TypeOK'
    BY <1>0, <2>1, <2>3, <2>4 DEF Edge!TypeOK, Calls
  <2>6. CountOK'
    BY <1>0, <2>1, <2>3 DEF CountOK
  <2>7. \A k \in Edge!Kinds : served[k] > 0 => served'[k] > 0
    BY <1>0, <2>4
  <2>8. AnswerOK'
    BY <1>0, <2>1, <2>3, <2>4, <2>7 DEF AnswerOK
  <2>9. QED
    BY <2>5, <2>6, <2>8 DEF CallsInv
<1>11. CASE Edge!TurnAway \/ Edge!Lose
  <2>1. /\ wire # "idle" /\ wire' \in {"busy", "lost"}
        /\ late' = late \/ late' \in Edge!Abandoned
        /\ UNCHANGED <<call, served, member, invited, calls>>
    BY <1>11 DEF Edge!TurnAway, Edge!Lose
  <2>2. late' \in [kind : Edge!Kinds, key : 1..MaxCalls] \union {None}
    BY <1>0, <2>1, LateType
  <2>3. Edge!TypeOK'
    BY <1>0, <2>1, <2>2 DEF Edge!TypeOK
  <2>4. CountOK' /\ AnswerOK'
    BY <1>0, <2>1 DEF CountOK, AnswerOK
  <2>5. QED
    BY <2>3, <2>4 DEF CallsInv
<1>12. CASE UNCHANGED Edge!vars
  BY <1>0, <1>12 DEF Edge!vars, CallsInv, Edge!TypeOK, CountOK, AnswerOK
<1>13. QED
  BY <1>2, <1>3, <1>4, <1>5, <1>6, <1>7, <1>8, <1>9, <1>10, <1>11, <1>12
     DEF Edge!Next, Edge!Step

LEMMA CallsSafe == CallsInv => Edge!SuccessIsServed
BY DEF CallsInv, AnswerOK, Edge!SuccessIsServed

(* Every success of the HTTP clients stands for an effect that exists, for *)
(* all numbers of retries and commands.                                    *)
THEOREM CallsAreServed == Edge!Spec => []Edge!SuccessIsServed
BY CallsInit, CallsStep, CallsSafe, PTL DEF Edge!Spec

-----------------------------------------------------------------------------
(* Migrations.                                                             *)

(* A record that is a prefix of the list, all of which has run.            *)
Prefix(s, r) ==
  /\ s \in Seq(Migrate!List)
  /\ \A i \in DOMAIN s : s[i] = i /\ r[i] > 0

(* The record a command works on, where it stands in the list, and what it *)
(* has run but not yet recorded.                                           *)
JobOK(j, r) ==
  /\ Prefix(j.own, r)
  /\ j.at \in {"loop", "save", "ok"} => \A m \in Migrate!List : m < j.next => r[m] > 0
  /\ j.at = "loop" => j.next <= Len(j.own) + 1
  /\ j.at = "save" => /\ j.next = Len(j.own) + 1 /\ j.next \in Migrate!List
                      /\ r[j.next] > 0
  /\ j.at = "ok" => j.next > Count

MigrateInv ==
  /\ Migrate!TypeOK
  /\ state # Migrate!Cut => Prefix(state, ran)
  /\ \A t \in Terminals : JobOK(job[t], ran)

LEMMA MigrateInit == Migrate!Init => MigrateInv
<1> SUFFICES ASSUME Migrate!Init PROVE MigrateInv
  OBVIOUS
<1>1. /\ state = <<>> /\ ran = [m \in Migrate!List |-> 0]
      /\ job = [t \in Terminals |-> [at |-> "idle", next |-> 1, own |-> <<>>]]
  BY DEF Migrate!Init, Migrate!Idle
<1>2. Prefix(<<>>, ran)
  BY DEF Prefix
<1>3. Migrate!TypeOK
  BY <1>1, HostAssumption DEF Migrate!TypeOK, Migrate!List
<1>4. QED
  BY <1>1, <1>2, <1>3 DEF MigrateInv, JobOK

(* A longer record of what has run is one.                                 *)
LEMMA PrefixGrows ==
  ASSUME NEW s, Prefix(s, ran), Len(s) + 1 \in Migrate!List, ran[Len(s) + 1] > 0
  PROVE  Prefix(Append(s, Len(s) + 1), ran) /\ Len(Append(s, Len(s) + 1)) = Len(s) + 1
<1> DEFINE r == Append(s, Len(s) + 1)
<1>1. s \in Seq(Migrate!List) /\ \A i \in DOMAIN s : s[i] = i /\ ran[i] > 0
  BY DEF Prefix
<1>2. r \in Seq(Migrate!List) /\ Len(r) = Len(s) + 1
  BY <1>1
<1>3. ASSUME NEW i \in DOMAIN r PROVE r[i] = i /\ ran[i] > 0
  <2>1. i \in 1..(Len(s) + 1)
    BY <1>2
  <2>2. CASE i = Len(s) + 1
    BY <1>1, <2>2
  <2>3. CASE i # Len(s) + 1
    <3>1. i \in DOMAIN s /\ r[i] = s[i]
      BY <1>1, <2>1, <2>3
    <3>2. QED
      BY <1>1, <3>1
  <2>4. QED
    BY <2>2, <2>3
<1>4. QED
  BY <1>2, <1>3 DEF Prefix

(* What has run stays so.                                                  *)
LEMMA RanStays ==
  ASSUME Migrate!TypeOK, ran' \in [Migrate!List -> 0..MaxRuns],
         \A m \in Migrate!List : ran[m] > 0 => ran'[m] > 0
  PROVE  /\ \A s : Prefix(s, ran) => Prefix(s, ran')
         /\ \A t \in Terminals : JobOK(job[t], ran) /\ job'[t] = job[t] => JobOK(job'[t], ran')
<1>1. ASSUME NEW s, Prefix(s, ran) PROVE Prefix(s, ran')
  <2>1. \A i \in DOMAIN s : s[i] = i /\ i \in Migrate!List
    BY <1>1 DEF Prefix
  <2>2. QED
    BY <1>1, <2>1 DEF Prefix
<1>2. ASSUME NEW t \in Terminals, JobOK(job[t], ran), job'[t] = job[t] PROVE JobOK(job'[t], ran')
  <2>1. Prefix(job[t].own, ran')
    BY <1>1, <1>2 DEF JobOK
  <2>2. QED
    BY <1>2, <2>1 DEF JobOK
<1>3. QED
  BY <1>1, <1>2

LEMMA MigrateStep == MigrateInv /\ [Migrate!Next]_(Migrate!vars) => MigrateInv'
<1> SUFFICES ASSUME MigrateInv, [Migrate!Next]_(Migrate!vars) PROVE MigrateInv'
  OBVIOUS
<1> DEFINE Job == [at : {"idle", "loop", "save", "ok", "failed"},
                   next : 1..(Count + 1), own : Seq(Migrate!List)]
<1>0. /\ Migrate!TypeOK
      /\ state = Migrate!Cut \/ Prefix(state, ran)
      /\ state = Migrate!Cut \/ state \in Seq(Migrate!List)
      /\ ran \in [Migrate!List -> 0..MaxRuns]
      /\ job \in [Terminals -> Job]
      /\ \A t \in Terminals : JobOK(job[t], ran) /\ job[t] \in Job
      /\ Count \in Nat /\ MaxRuns \in Nat
  BY HostAssumption DEF MigrateInv, Migrate!TypeOK
<1>1. Migrate!Idle \in Job
  BY <1>0 DEF Migrate!Idle
(* One terminal moves.                                                     *)
<1>2. ASSUME NEW t \in Terminals, NEW j \in Job, job' = [job EXCEPT ![t] = j],
             JobOK(job'[t], ran'), ran' \in [Migrate!List -> 0..MaxRuns],
             \A m \in Migrate!List : ran[m] > 0 => ran'[m] > 0,
             state' \in {state, Migrate!Cut} \/ Prefix(state', ran')
      PROVE  MigrateInv'
  <2>1. /\ \A s : Prefix(s, ran) => Prefix(s, ran')
        /\ \A u \in Terminals : JobOK(job[u], ran) /\ job'[u] = job[u] => JobOK(job'[u], ran')
    BY <1>0, <1>2, RanStays
  <2>2. \A u \in Terminals : JobOK(job'[u], ran')
    BY <1>0, <1>2, <2>1
  <2>3. state' = Migrate!Cut \/ Prefix(state', ran')
    BY <1>0, <1>2, <2>1
  <2>4. Migrate!TypeOK'
    BY <1>0, <1>2, <2>3 DEF Migrate!TypeOK, Prefix, Migrate!Cut, Migrate!List
  <2>5. QED
    BY <2>2, <2>3, <2>4 DEF MigrateInv, Migrate!Cut
<1>3. ASSUME NEW t \in Terminals, NEW at \in {"idle", "failed"},
             NEW j \in Job, j.at = at, Prefix(j.own, ran),
             job' = [job EXCEPT ![t] = j], UNCHANGED ran, state' \in {state, Migrate!Cut}
      PROVE  MigrateInv'
  <2>1. Prefix(j.own, ran') /\ job'[t] = j
    BY <1>0, <1>3, RanStays
  <2>2. JobOK(job'[t], ran')
    BY <1>3, <2>1 DEF JobOK
  <2>3. QED
    BY <1>0, <1>2, <1>3, <2>2
<1>4. Prefix(<<>>, ran)
  BY DEF Prefix
<1>5. ASSUME NEW t \in Terminals, Migrate!Load(t) PROVE MigrateInv'
  <2>1. UNCHANGED <<state, ran>>
    BY <1>5 DEF Migrate!Load
  <2>2. CASE job' = [job EXCEPT ![t] = [Migrate!Idle EXCEPT !.at = "failed"]]
    <3> DEFINE j == [Migrate!Idle EXCEPT !.at = "failed"]
    <3>1. j \in Job /\ j.at = "failed" /\ j.own = <<>>
      BY <1>1 DEF Migrate!Idle
    <3>2. job' = [job EXCEPT ![t] = j] /\ state' \in {state, Migrate!Cut}
      BY <2>1, <2>2
    <3> HIDE DEF j
    <3>3. QED
      BY <1>3, <1>4, <2>1, <3>1, <3>2
  <2>3. CASE /\ state # Migrate!Cut
             /\ job' = [job EXCEPT ![t] = [at |-> "loop", next |-> 1, own |-> state]]
    <3> DEFINE j == [at |-> "loop", next |-> 1, own |-> state]
    <3>1. j \in Job /\ Prefix(state, ran) /\ Len(state) \in Nat
      BY <1>0, <2>3
    <3>2. job'[t] = j /\ Prefix(state, ran')
      BY <1>0, <2>1, <2>3, <3>1, RanStays
    <3>3. JobOK(job'[t], ran')
      BY <2>1, <3>1, <3>2 DEF JobOK, Migrate!List
    <3>4. QED
      BY <1>0, <1>2, <2>1, <2>3, <3>1, <3>3
  <2>4. QED
    BY <1>5, <2>2, <2>3 DEF Migrate!Load
<1>6. ASSUME NEW t \in Terminals, Migrate!Skip(t) PROVE MigrateInv'
  <2> DEFINE j == [job[t] EXCEPT !.next = @ + 1]
  <2>1. /\ job[t].at = "loop" /\ job[t].next \in Migrate!List
        /\ Migrate!IsApplied(job[t].own, job[t].next)
        /\ job' = [job EXCEPT ![t] = j] /\ UNCHANGED <<state, ran>>
    BY <1>6 DEF Migrate!Skip
  <2>2. /\ job[t] \in Job /\ Prefix(job[t].own, ran)
        /\ \A m \in Migrate!List : m < job[t].next => ran[m] > 0
    BY <1>0, <2>1 DEF JobOK
  <2>3. /\ j \in Job /\ j.at = "loop" /\ j.own = job[t].own /\ j.next = job[t].next + 1
        /\ job'[t] = j
    <3>1. job[t].next + 1 \in 1..(Count + 1)
      BY <1>0, <2>1 DEF Migrate!List
    <3>2. QED
      BY <1>0, <2>1, <2>2, <3>1
  <2>4. ran[job[t].next] > 0 /\ job[t].next <= Len(job[t].own)
    <3>1. PICK i \in DOMAIN job[t].own : job[t].own[i] = job[t].next
      BY <2>1 DEF Migrate!IsApplied
    <3>2. i = job[t].next /\ ran[i] > 0
      BY <2>2, <3>1 DEF Prefix
    <3>3. job[t].own \in Seq(Migrate!List)
      BY <2>2
    <3>4. QED
      BY <3>1, <3>2, <3>3
  <2>5. \A m \in Migrate!List : m < j.next => ran[m] > 0
    BY <1>0, <2>2, <2>3, <2>4 DEF Migrate!List
  <2>6. j.next <= Len(j.own) + 1
    BY <2>2, <2>3, <2>4
  <2>7. Prefix(j.own, ran')
    BY <1>0, <2>1, <2>2, <2>3, RanStays
  <2> HIDE DEF j
  <2>8. JobOK(job'[t], ran')
    BY <2>1, <2>3, <2>5, <2>6, <2>7 DEF JobOK
  <2>9. QED
    BY <1>0, <1>2, <2>1, <2>3, <2>8
<1>7. ASSUME NEW t \in Terminals, Migrate!RunFails(t) PROVE MigrateInv'
  <2> DEFINE j == [job[t] EXCEPT !.at = "failed"]
  <2>1. job' = [job EXCEPT ![t] = j] /\ UNCHANGED <<state, ran>>
    BY <1>7 DEF Migrate!RunFails
  <2>2. j \in Job /\ j.at = "failed" /\ j.own = job[t].own /\ Prefix(job[t].own, ran)
    BY <1>0 DEF JobOK
  <2> HIDE DEF j
  <2>3. QED
    BY <1>3, <2>1, <2>2
<1>8. ASSUME NEW t \in Terminals, Migrate!Run(t) PROVE MigrateInv'
  <2> DEFINE j == [job[t] EXCEPT !.at = "save"]
             n == job[t].next
  <2>1. /\ job[t].at = "loop" /\ n \in Migrate!List
        /\ ~Migrate!IsApplied(job[t].own, n) /\ ran[n] < MaxRuns
        /\ ran' = [ran EXCEPT ![n] = @ + 1]
        /\ job' = [job EXCEPT ![t] = j] /\ UNCHANGED state
    BY <1>8 DEF Migrate!Run
  <2>2. /\ job[t] \in Job /\ Prefix(job[t].own, ran) /\ n <= Len(job[t].own) + 1
        /\ \A m \in Migrate!List : m < n => ran[m] > 0
    BY <1>0, <2>1 DEF JobOK
  <2>3. n = Len(job[t].own) + 1
    <3>1. job[t].own \in Seq(Migrate!List)
      BY <2>2
    <3>2. CASE n <= Len(job[t].own)
      <4>1. n \in DOMAIN job[t].own
        BY <2>1, <3>1, <3>2 DEF Migrate!List
      <4>2. job[t].own[n] = n
        BY <2>2, <4>1 DEF Prefix
      <4>3. QED
        BY <2>1, <4>1, <4>2 DEF Migrate!IsApplied
    <3>3. QED
      BY <2>1, <2>2, <3>1, <3>2 DEF Migrate!List
  <2>4. /\ ran' \in [Migrate!List -> 0..MaxRuns]
        /\ \A m \in Migrate!List : ran[m] > 0 => ran'[m] > 0
        /\ ran'[n] > 0
    BY <1>0, <2>1
  <2>5. j \in Job /\ j.at = "save" /\ j.own = job[t].own /\ j.next = n /\ job'[t] = j
    BY <1>0, <2>1, <2>2
  <2>6. Prefix(j.own, ran')
    BY <1>0, <2>2, <2>4, <2>5, RanStays
  <2> HIDE DEF j, n
  <2>7. JobOK(job'[t], ran')
    BY <2>1, <2>2, <2>3, <2>4, <2>5, <2>6 DEF JobOK
  <2>8. QED
    BY <1>0, <1>2, <2>1, <2>4, <2>5, <2>7
<1>9. ASSUME NEW t \in Terminals, Migrate!Save(t) PROVE MigrateInv'
  <2> DEFINE own == Append(job[t].own, job[t].next)
             j == [at |-> "loop", next |-> job[t].next + 1, own |-> own]
             f == [job[t] EXCEPT !.at = "failed"]
  <2>1. /\ job[t].at = "save" /\ UNCHANGED ran
        /\ \/ state' \in {own, Migrate!Cut} /\ job' = [job EXCEPT ![t] = j]
           \/ state' \in {state, Migrate!Cut} /\ job' = [job EXCEPT ![t] = f]
    BY <1>9 DEF Migrate!Save, Migrate!Writing
  <2>2. /\ job[t] \in Job /\ Prefix(job[t].own, ran)
        /\ job[t].next = Len(job[t].own) + 1 /\ job[t].next \in Migrate!List
        /\ \A m \in Migrate!List : m < job[t].next => ran[m] > 0
        /\ ran[job[t].next] > 0
    BY <1>0, <2>1 DEF JobOK
  <2>3. f \in Job /\ f.at = "failed" /\ f.own = job[t].own
    BY <2>2
  <2>4. Prefix(own, ran) /\ Len(own) = Len(job[t].own) + 1
    BY <2>2, PrefixGrows
  <2>5. j \in Job
    <3>1. own \in Seq(Migrate!List)
      BY <2>4 DEF Prefix
    <3>2. job[t].next + 1 \in 1..(Count + 1)
      BY <1>0, <2>2 DEF Migrate!List
    <3> HIDE DEF own
    <3>3. QED
      BY <3>1, <3>2
  <2>6. Prefix(own, ran')
    BY <1>0, <2>1, <2>4, RanStays
  <2>7. CASE state' \in {own, Migrate!Cut} /\ job' = [job EXCEPT ![t] = j]
    <3>1. job'[t] = j /\ j.at = "loop" /\ j.next = job[t].next + 1 /\ j.own = own
      BY <1>0, <2>7
    <3>2. j.next <= Len(own) + 1
      BY <2>2, <2>4, <3>1
    <3>3. \A m \in Migrate!List : m < j.next => ran[m] > 0
      BY <2>2, <3>1 DEF Migrate!List
    <3>4. Prefix(state', ran') \/ state' = Migrate!Cut
      BY <2>6, <2>7
    <3> HIDE DEF own, j
    <3>5. JobOK(job'[t], ran')
      BY <2>1, <2>6, <3>1, <3>2, <3>3 DEF JobOK
    <3>6. QED
      BY <1>0, <1>2, <2>1, <2>5, <2>7, <3>4, <3>5
  <2>8. CASE state' \in {state, Migrate!Cut} /\ job' = [job EXCEPT ![t] = f]
    <3> HIDE DEF f
    <3>1. QED
      BY <1>3, <2>1, <2>2, <2>3, <2>8
  <2>9. QED
    BY <2>1, <2>7, <2>8
<1>10. ASSUME NEW t \in Terminals, Migrate!Finish(t) PROVE MigrateInv'
  <2> DEFINE j == [job[t] EXCEPT !.at = "ok"]
  <2>1. /\ job[t].at = "loop" /\ job[t].next > Count
        /\ job' = [job EXCEPT ![t] = j] /\ UNCHANGED <<state, ran>>
    BY <1>10 DEF Migrate!Finish
  <2>2. /\ Prefix(job[t].own, ran) /\ job[t] \in Job
        /\ \A m \in Migrate!List : m < job[t].next => ran[m] > 0
    BY <1>0, <2>1 DEF JobOK
  <2>3. /\ j \in Job /\ j.at = "ok" /\ j.own = job[t].own /\ j.next = job[t].next
        /\ job'[t] = j
    BY <1>0, <2>1, <2>2
  <2>4. Prefix(j.own, ran')
    BY <1>0, <2>1, <2>2, <2>3, RanStays
  <2> HIDE DEF j
  <2>5. JobOK(job'[t], ran')
    BY <2>1, <2>2, <2>3, <2>4 DEF JobOK
  <2>6. QED
    BY <1>0, <1>2, <2>1, <2>3, <2>5
<1>11. ASSUME NEW t \in Terminals, Migrate!Kill(t) PROVE MigrateInv'
  <2>1. /\ job' = [job EXCEPT ![t] = Migrate!Idle] /\ UNCHANGED ran
        /\ state' \in {state, Migrate!Cut}
    BY <1>11 DEF Migrate!Kill
  <2>2. Migrate!Idle.at = "idle" /\ Migrate!Idle.own = <<>>
    BY DEF Migrate!Idle
  <2>3. QED
    BY <1>1, <1>3, <1>4, <2>1, <2>2
<1>12. CASE UNCHANGED Migrate!vars
  <2>1. UNCHANGED <<state, ran, job>>
    BY <1>12 DEF Migrate!vars
  <2>2. QED
    BY <1>0, <2>1 DEF MigrateInv, Migrate!TypeOK, JobOK, Prefix
<1>13. QED
  BY <1>5, <1>6, <1>7, <1>8, <1>9, <1>10, <1>11, <1>12 DEF Migrate!Next

LEMMA MigrateSafe == MigrateInv => Migrate!RecordedHasRun /\ Migrate!DoneHasRun
<1> SUFFICES ASSUME MigrateInv PROVE Migrate!RecordedHasRun /\ Migrate!DoneHasRun
  OBVIOUS
<1>1. Migrate!RecordedHasRun
  BY DEF MigrateInv, Prefix, Migrate!RecordedHasRun
<1>2. ASSUME NEW t \in Terminals, job[t].at = "ok", NEW m \in Migrate!List
      PROVE  ran[m] > 0
  <2>1. m < job[t].next
    BY <1>2, HostAssumption DEF MigrateInv, Migrate!TypeOK, Migrate!List, JobOK
  <2>2. QED
    BY <1>2, <2>1 DEF MigrateInv, JobOK
<1>3. QED
  BY <1>1, <1>2 DEF Migrate!DoneHasRun

(* The record is a prefix of the list and has run; who is done has run     *)
(* the whole list, for all numbers of terminals, migrations and runs.      *)
THEOREM MigrationsRecorded ==
  Migrate!Spec => [](Migrate!RecordedHasRun /\ Migrate!DoneHasRun)
BY MigrateInit, MigrateStep, MigrateSafe, PTL DEF Migrate!Spec

-----------------------------------------------------------------------------
(* ConfigFile.                                                             *)

(* What a file says of a key, whether or not it decodes.                   *)
Says(f, key) ==
  IF f = None \/ f[key] = None THEN Config!Default[key] ELSE f[key]

(* What was reported is what the file says.                                *)
Agree(f, reports) ==
  \A key \in Config!Keys :
    reports[key] # Config!Unknown => Says(f, key) = reports[key]

(* A command that is about to write has a copy of the file and the reports *)
(* of the moment it read it.                                               *)
CopyOK(c) ==
  c.at = "rename" =>
    /\ c.read \in Config!Config
    /\ c.op \in {"set", "unset"} =>
         c.seen \in [Config!Keys -> Config!Values \union {Config!Unknown}]
         /\ Agree(c.read, c.seen)

Command ==
  [ at : {"idle", "read", "rename"}, op : {"set", "unset", "init"},
    key : Config!Keys, value : Config!Values,
    read : Config!Config \union {None},
    seen : [Config!Keys -> Config!Values \union {Config!Unknown, None}] ]

ConfigInv ==
  /\ yaml \in Config!Config \union {None}
  /\ told \in [Config!Keys -> Config!Values \union {Config!Unknown}]
  /\ edit \in [Terminals -> Command]
  /\ Agree(yaml, told)
  /\ \A t \in Terminals : CopyOK(edit[t])

LEMMA ConfigFacts ==
  /\ None \notin Config!Config
  /\ None \notin Config!Values /\ None # Config!Unknown
  /\ Config!Unknown \notin Config!Values
  /\ Config!Default \in [Config!Keys -> Config!Values]
  /\ Config!Default \in Config!Config
  /\ \A key \in Config!Keys :
       /\ Says(None, key) = Config!Default[key]
       /\ Says(Config!Default, key) = Config!Default[key]
  /\ Config!Idle \in Command /\ CopyOK(Config!Idle)
<1>1. None \notin Config!Config /\ None \notin Config!Values /\ None # Config!Unknown
  BY NoneAssumption
<1>2. Config!Default \in [Config!Keys -> Config!Values] /\ Config!Default \in Config!Config
  <2>1. Config!Default = [key \in Config!Keys |->
                            IF key = "color" THEN "true" ELSE "https://a"]
    BY DEF Config!Default, Config!Keys
  <2>2. {"true", "https://a"} \subseteq Config!Values
    BY DEF Config!Values
  <2>3. QED
    BY <2>1, <2>2 DEF Config!Config
<1>3. \A key \in Config!Keys :
       /\ Says(None, key) = Config!Default[key]
       /\ Says(Config!Default, key) = Config!Default[key]
  BY <1>1, <1>2 DEF Says
<1>4. Config!Idle \in Command /\ CopyOK(Config!Idle)
  BY DEF Config!Idle, Config!NoLayer, Command, CopyOK, Config!Keys, Config!Values
<1>5. Config!Unknown \notin Config!Values
  BY DEF Config!Unknown, Config!Values
<1>6. QED
  BY <1>1, <1>2, <1>3, <1>4, <1>5

LEMMA ConfigInit == Config!Init => ConfigInv
<1> SUFFICES ASSUME Config!Init PROVE ConfigInv
  OBVIOUS
<1>1. yaml \in Config!Config \union {None}
  BY ConfigFacts DEF Config!Init, Config!Config, Config!Keys, Config!Values
<1>2. told = [key \in Config!Keys |-> Config!Unknown] /\ edit = [t \in Terminals |-> Config!Idle]
  BY DEF Config!Init
<1>3. QED
  BY <1>1, <1>2, ConfigFacts DEF ConfigInv, Agree

LEMMA ConfigStep == ConfigInv /\ [Config!Next]_(Config!vars) => ConfigInv'
<1> SUFFICES ASSUME ConfigInv, [Config!Next]_(Config!vars) PROVE ConfigInv'
  OBVIOUS
<1> DEFINE Reports == [Config!Keys -> Config!Values \union {Config!Unknown}]
<1>0. /\ yaml \in Config!Config \union {None} /\ told \in Reports
      /\ edit \in [Terminals -> Command] /\ Agree(yaml, told)
      /\ \A t \in Terminals : CopyOK(edit[t]) /\ edit[t] \in Command
  BY DEF ConfigInv
(* One terminal moves.                                                     *)
<1>1. ASSUME NEW t \in Terminals, NEW c \in Command, edit' = [edit EXCEPT ![t] = c],
             CopyOK(c), yaml' \in Config!Config \union {None}, told' \in Reports,
             Agree(yaml', told')
      PROVE  ConfigInv'
  BY <1>0, <1>1 DEF ConfigInv
<1>2. ASSUME NEW t \in Terminals, NEW op \in {"set", "unset"}, NEW key \in Config!Keys,
             NEW value \in Config!Values, Config!Begin(t, op, key, value)
      PROVE  ConfigInv'
  <2> DEFINE c == [Config!Idle EXCEPT !.at = "read", !.op = op, !.key = key,
                                      !.value = value]
  <2>1. /\ UNCHANGED <<yaml, told>>
        /\ edit' = [edit EXCEPT ![t] = Config!Idle] \/ edit' = [edit EXCEPT ![t] = c]
    BY <1>2 DEF Config!Begin
  <2>2. c \in Command /\ c.at = "read"
    BY ConfigFacts DEF Command
  <2> HIDE DEF c
  <2>3. CopyOK(c)
    BY <2>2 DEF CopyOK
  <2>4. QED
    BY <1>0, <1>1, <2>1, <2>2, <2>3, ConfigFacts
<1>3. ASSUME NEW t \in Terminals, NEW force \in BOOLEAN, Config!BeginInit(t, force)
      PROVE  ConfigInv'
  <2> DEFINE c == [Config!Idle EXCEPT !.at = "rename", !.op = "init",
                                      !.read = Config!Default]
  <2>1. /\ UNCHANGED <<yaml, told>>
        /\ edit' = [edit EXCEPT ![t] = Config!Idle] \/ edit' = [edit EXCEPT ![t] = c]
    BY <1>3 DEF Config!BeginInit
  <2>2. c \in Command /\ c.op = "init" /\ c.read = Config!Default
    BY ConfigFacts DEF Command
  <2> HIDE DEF c
  <2>3. CopyOK(c)
    BY <2>2, ConfigFacts DEF CopyOK
  <2>4. QED
    BY <1>0, <1>1, <2>1, <2>2, <2>3, ConfigFacts
<1>4. ASSUME NEW t \in Terminals, Config!Read(t) PROVE ConfigInv'
  <2> DEFINE f == IF yaml = None THEN Config!Default ELSE yaml
             c == [edit[t] EXCEPT !.at = "rename", !.seen = told, !.read = f]
  <2>1. CASE yaml = None /\ edit[t].op = "unset"
    <3>1. /\ yaml' = yaml /\ edit' = [edit EXCEPT ![t] = Config!Idle]
          /\ told' = [told EXCEPT ![edit[t].key] = Config!Default[edit[t].key]]
      BY <1>4, <2>1 DEF Config!Read
    <3>2. edit[t].key \in Config!Keys
      BY <1>0 DEF Command
    <3>3. told' \in Reports
      BY <1>0, <3>1, <3>2, ConfigFacts
    <3>4. Agree(yaml', told')
      BY <1>0, <2>1, <3>1, <3>2, ConfigFacts DEF Agree
    <3>5. QED
      BY <1>0, <1>1, <3>1, <3>3, <3>4, ConfigFacts
  <2>2. CASE ~(yaml = None /\ edit[t].op = "unset")
    <3>1. UNCHANGED <<yaml, told>> /\ edit' = [edit EXCEPT ![t] = c]
      BY <1>4, <2>2 DEF Config!Read
    <3>2. f \in Config!Config /\ Agree(f, told)
      BY <1>0, ConfigFacts DEF Agree
    <3>3. told \in [Config!Keys -> Config!Values \union {Config!Unknown, None}]
      BY <1>0
    <3> HIDE DEF f
    <3>4. c \in Command /\ c.read = f /\ c.seen = told
      BY <1>0, <3>2, <3>3 DEF Command
    <3> HIDE DEF c
    <3>5. CopyOK(c)
      BY <1>0, <3>2, <3>4 DEF CopyOK
    <3>6. QED
      BY <1>0, <1>1, <3>1, <3>4, <3>5
  <2>3. QED
    BY <2>1, <2>2
<1>5. ASSUME NEW t \in Terminals, Config!Rename(t) PROVE ConfigInv'
  <2> DEFINE c == edit[t]
  <2>1. /\ c.at = "rename" /\ edit' = [edit EXCEPT ![t] = Config!Idle]
        /\ \/ /\ yaml' = Config!Edited(c.op, c.read, c.key, c.value)
              /\ told' = Config!Told(c)
           \/ UNCHANGED <<yaml, told>>
    BY <1>5 DEF Config!Rename
  <2>2. CASE UNCHANGED <<yaml, told>>
    BY <1>0, <1>1, <2>1, <2>2, ConfigFacts
  <2>3. CASE /\ yaml' = Config!Edited(c.op, c.read, c.key, c.value)
             /\ told' = Config!Told(c)
    <3>1. /\ c \in Command /\ c.op \in {"set", "unset", "init"}
          /\ c.key \in Config!Keys /\ c.value \in Config!Values
          /\ c.read \in Config!Config
          /\ c.op \in {"set", "unset"} => c.seen \in Reports /\ Agree(c.read, c.seen)
      BY <1>0, <2>1 DEF CopyOK, Command
    <3> HIDE DEF c
    <3>2. CASE c.op = "init"
      <4>1. yaml' = Config!Default /\ told' = [key \in Config!Keys |-> Config!Default[key]]
        BY <2>3, <3>2 DEF Config!Edited, Config!Told
      <4>2. told' \in Reports /\ Agree(yaml', told') /\ yaml' \in Config!Config
        BY <4>1, ConfigFacts DEF Agree
      <4>3. QED
        BY <1>1, <2>1, <4>2, ConfigFacts
    <3>3. CASE c.op \in {"set", "unset"}
      <4> DEFINE v == IF c.op = "set" THEN c.value ELSE None
                 w == IF c.op = "set" THEN c.value ELSE Config!Default[c.key]
      <4>1. /\ yaml' = [c.read EXCEPT ![c.key] = v]
            /\ told' = [key \in Config!Keys |->
                          IF key = c.key THEN w
                          ELSE IF told[key] = c.seen[key] THEN told[key] ELSE Config!Unknown]
        BY <2>3, <3>3 DEF Config!Edited, Config!Told
      <4>2. /\ v \in Config!Values \union {None} /\ w \in Config!Values
            /\ v = None => w = Config!Default[c.key]
            /\ v # None => v = w
        BY <3>1, <3>3, ConfigFacts
      <4> HIDE DEF v, w
      <4>3. yaml' \in Config!Config /\ told' \in Reports
        BY <1>0, <3>1, <4>1, <4>2 DEF Config!Config
      <4>4. ASSUME NEW key \in Config!Keys, told'[key] # Config!Unknown
            PROVE  Says(yaml', key) = told'[key]
        <5>1. yaml' # None /\ c.read # None
          BY <3>1, <4>3, ConfigFacts
        <5>2. CASE key = c.key
          <6>1. yaml'[key] = v /\ told'[key] = w
            BY <3>1, <4>1, <5>2 DEF Config!Config
          <6>2. QED
            BY <4>2, <5>1, <5>2, <6>1 DEF Says
        <5>3. CASE key # c.key
          <6>1. /\ yaml'[key] = c.read[key]
                /\ told'[key] = c.seen[key] /\ c.seen[key] # Config!Unknown
            BY <3>1, <4>1, <4>4, <5>3 DEF Config!Config
          <6>2. Says(c.read, key) = c.seen[key]
            BY <3>1, <3>3, <6>1 DEF Agree
          <6>3. QED
            BY <5>1, <6>1, <6>2 DEF Says
        <5>4. QED
          BY <5>2, <5>3
      <4>5. Agree(yaml', told')
        BY <4>4 DEF Agree
      <4>6. QED
        BY <1>1, <2>1, <4>3, <4>5, ConfigFacts
    <3>4. QED
      BY <3>1, <3>2, <3>3
  <2>4. QED
    BY <2>1, <2>2, <2>3
<1>6. ASSUME NEW t \in Terminals, Config!Kill(t) PROVE ConfigInv'
  BY <1>0, <1>1, <1>6, ConfigFacts DEF Config!Kill
<1>7. CASE UNCHANGED Config!vars
  BY <1>0, <1>7 DEF Config!vars, ConfigInv
<1>8. \A key \in Config!Keys : Config!Typed(key) \subseteq Config!Values /\ "true" \in Config!Values
  BY DEF Config!Typed, Config!Keys, Config!Values
<1>9. QED
  BY <1>2, <1>3, <1>4, <1>5, <1>6, <1>7, <1>8 DEF Config!Next

LEMMA ConfigSafe == ConfigInv => Config!ReportedResolves /\ Config!TypeOK
<1> SUFFICES ASSUME ConfigInv PROVE Config!ReportedResolves /\ Config!TypeOK
  OBVIOUS
<1>1. Config!TypeOK
  BY DEF ConfigInv, Config!TypeOK, Command
<1>2. ASSUME yaml = None \/ Config!Decodes(yaml), NEW key \in Config!Keys
      PROVE  Config!Layered(Config!NoLayer, Config!NoLayer, key) = Says(yaml, key)
  <2>1. Config!NoLayer[key] = None
    BY DEF Config!NoLayer
  <2>2. Config!FromFile(key) = Says(yaml, key)
    BY <1>2 DEF Config!FromFile, Says
  <2>3. QED
    BY <2>1, <2>2 DEF Config!Layered
<1>3. QED
  BY <1>1, <1>2 DEF ConfigInv, Agree, Config!ReportedResolves

(* What orbit config reported is what a later command resolves, however    *)
(* many terminals change the file.                                         *)
THEOREM ConfigReportsResolve == Config!Spec => []Config!ReportedResolves
BY ConfigInit, ConfigStep, ConfigSafe, PTL DEF Config!Spec

-----------------------------------------------------------------------------
(* Updater.                                                                *)

(* What is cached has been published, and what self-update offers was the  *)
(* newest release when it asked.                                           *)
UpdateInv ==
  /\ Update!TypeOK
  /\ cache # None => cache.latest <= latest.version

LEMMA UpdateInit == Update!Init => UpdateInv
<1> SUFFICES ASSUME Update!Init PROVE UpdateInv
  OBVIOUS
<1>1. 0 \in 0..MaxRelease /\ 0..1 \subseteq 0..MaxRelease
  BY HostAssumption
<1>2. latest \in [version : 0..MaxRelease, asset : BOOLEAN, sums : BOOLEAN]
  BY <1>1 DEF Update!Init
<1>3. binary \in [version : 0..MaxRelease, whole : BOOLEAN]
  BY <1>1 DEF Update!Init
<1>4. task \in [ at : {"idle", "confirm", "install", "uptodate", "updated", "failed"},
                from : 0..MaxRelease, found : 0..MaxRelease, checked : BOOLEAN ]
  BY <1>1 DEF Update!Init, Update!Idle
<1>5. QED
  BY <1>2, <1>3, <1>4 DEF Update!Init, UpdateInv, Update!TypeOK

LEMMA UpdateStep == UpdateInv /\ [Update!Next]_(Update!vars) => UpdateInv'
<1> SUFFICES ASSUME UpdateInv, [Update!Next]_(Update!vars) PROVE UpdateInv'
  OBVIOUS
<1> USE HostAssumption
<1>0. /\ latest \in [version : 0..MaxRelease, asset : BOOLEAN, sums : BOOLEAN]
      /\ binary \in [version : 0..MaxRelease, whole : BOOLEAN]
      /\ cache # None => /\ cache \in [latest : 1..MaxRelease, fresh : BOOLEAN]
                         /\ cache.latest <= latest.version
      /\ task \in [ at : {"idle", "confirm", "install", "uptodate", "updated",
                          "failed"},
                    from : 0..MaxRelease, found : 0..MaxRelease,
                    checked : BOOLEAN ]
      /\ notice \in (1..MaxRelease) \union {None}
  BY DEF UpdateInv, Update!TypeOK
<1>1. CASE Update!Publish
  <2>1. /\ latest.version < MaxRelease /\ UNCHANGED <<binary, cache, task, notice>>
        /\ \E asset, sums \in BOOLEAN :
             latest' = [version |-> latest.version + 1, asset |-> asset, sums |-> sums]
    BY <1>1 DEF Update!Publish
  <2>2. /\ latest' \in [version : 0..MaxRelease, asset : BOOLEAN, sums : BOOLEAN]
        /\ latest'.version = latest.version + 1
    BY <1>0, <2>1
  <2>3. QED
    BY <1>0, <2>1, <2>2 DEF UpdateInv, Update!TypeOK
<1>2. CASE Update!Expire
  <2>1. /\ cache # None /\ cache' = [cache EXCEPT !.fresh = FALSE]
        /\ UNCHANGED <<latest, binary, task, notice>>
    BY <1>2 DEF Update!Expire
  <2>2. /\ cache' \in [latest : 1..MaxRelease, fresh : BOOLEAN]
        /\ cache'.latest = cache.latest
    BY <1>0, <2>1
  <2>3. QED
    BY <1>0, <2>1, <2>2 DEF UpdateInv, Update!TypeOK
<1>3. CASE Update!Notify
  <2>1. UNCHANGED <<latest, binary, task>>
    BY <1>3 DEF Update!Notify
  <2>2. notice' \in (1..MaxRelease) \union {None}
    BY <1>0, <1>3 DEF Update!Notify, Update!FromCache, Update!Offer,
       Update!IsNewerVersion
  <2>3. \/ cache' = cache
        \/ latest.version > 0 /\ cache' = [latest |-> latest.version, fresh |-> TRUE]
    BY <1>3 DEF Update!Notify
  <2>4. cache' # None => /\ cache' \in [latest : 1..MaxRelease, fresh : BOOLEAN]
                         /\ cache'.latest <= latest.version
    <3>1. CASE latest.version > 0 /\ cache' = [latest |-> latest.version, fresh |-> TRUE]
      <4>1. latest.version \in 1..MaxRelease /\ latest.version <= latest.version
        BY <1>0, <3>1
      <4>2. QED
        BY <3>1, <4>1
    <3>2. QED
      BY <1>0, <2>3, <3>1
  <2>5. QED
    BY <1>0, <2>1, <2>2, <2>4 DEF UpdateInv, Update!TypeOK
<1>4. CASE Update!Check
  <2>1. UNCHANGED <<latest, binary, cache, notice>>
    BY <1>4 DEF Update!Check
  <2>2. \/ \E at \in {"confirm", "uptodate"} :
             task' = [at |-> at, from |-> binary.version, found |-> latest.version,
                      checked |-> TRUE]
        \/ task' = [at |-> "failed", from |-> 0, found |-> 0, checked |-> TRUE]
    BY <1>4 DEF Update!Check, Update!Idle
  <2>3. task' \in [ at : {"idle", "confirm", "install", "uptodate", "updated", "failed"},
                    from : 0..MaxRelease, found : 0..MaxRelease, checked : BOOLEAN ]
    <3> DEFINE V == 0..MaxRelease
    <3>1. 0 \in V /\ binary.version \in V /\ latest.version \in V
      BY <1>0
    <3> HIDE DEF V
    <3>2. PICK at \in {"confirm", "uptodate", "failed"}, from \in V, found \in V :
            task' = [at |-> at, from |-> from, found |-> found, checked |-> TRUE]
      BY <2>2, <3>1
    <3>3. task' \in [ at : {"idle", "confirm", "install", "uptodate", "updated", "failed"},
                      from : V, found : V, checked : BOOLEAN ]
      BY <3>2, Zenon
    <3>4. QED
      BY <3>3 DEF V
  <2>4. QED
    BY <1>0, <2>1, <2>3 DEF UpdateInv, Update!TypeOK
<1>5. ASSUME NEW yes \in BOOLEAN, Update!Confirm(yes) PROVE UpdateInv'
  <2>1. UNCHANGED <<latest, binary, cache, notice>>
    BY <1>5 DEF Update!Confirm
  <2>2. \E at \in {"install", "idle"} : task' = [task EXCEPT !.at = at]
    BY <1>5 DEF Update!Confirm
  <2>3. task' \in [ at : {"idle", "confirm", "install", "uptodate", "updated", "failed"},
                    from : 0..MaxRelease, found : 0..MaxRelease, checked : BOOLEAN ]
    BY <1>0, <2>2
  <2>4. QED
    BY <1>0, <2>1, <2>3 DEF UpdateInv, Update!TypeOK
<1>6. CASE Update!Install
  <2>1. UNCHANGED <<latest, cache, notice>>
    BY <1>6 DEF Update!Install
  <2>2. \/ \E at \in {"updated", "failed"} : task' = [task EXCEPT !.at = at]
        \/ task' = [task EXCEPT !.checked = FALSE]
    BY <1>6 DEF Update!Install
  <2>3. \/ binary' = binary
        \/ \E found \in Update!Candidates, whole \in BOOLEAN :
             binary' = [version |-> found, whole |-> whole]
    BY <1>6 DEF Update!Install
  <2>4. Update!Candidates \subseteq 0..MaxRelease
    BY <1>0 DEF Update!Candidates
  <2>5. task' \in [ at : {"idle", "confirm", "install", "uptodate", "updated", "failed"},
                    from : 0..MaxRelease, found : 0..MaxRelease, checked : BOOLEAN ]
    BY <1>0, <2>2
  <2>6. binary' \in [version : 0..MaxRelease, whole : BOOLEAN]
    BY <1>0, <2>3, <2>4
  <2>7. QED
    BY <1>0, <2>1, <2>5, <2>6 DEF UpdateInv, Update!TypeOK
<1>7. CASE UNCHANGED Update!vars
  BY <1>0, <1>7 DEF Update!vars, UpdateInv, Update!TypeOK
<1>8. QED
  BY <1>1, <1>2, <1>3, <1>4, <1>5, <1>6, <1>7 DEF Update!Next

(* A notice is computed from the binary that runs: from a cached release   *)
(* that has been published, or from the newest one.                        *)
LEMMA UpdateNotice ==
  UpdateInv /\ [Update!Next]_(Update!vars) =>
    [notice' \notin {None, notice} =>
       notice' > binary.version /\ notice' <= latest.version]_(Update!vars)
<1> SUFFICES ASSUME UpdateInv, Update!Next, notice' \notin {None, notice}
             PROVE  notice' > binary.version /\ notice' <= latest.version
  OBVIOUS
<1>1. Update!Notify
  BY DEF Update!Next, Update!Publish, Update!Expire, Update!Check, Update!Confirm,
         Update!Install
<1>2. \/ cache # None /\ notice' = Update!FromCache(cache, binary.version)
      \/ notice' = Update!Offer(latest.version)
  BY <1>1 DEF Update!Notify
<1>3. /\ latest.version \in Nat
      /\ cache # None => cache.latest <= latest.version
  BY HostAssumption DEF UpdateInv, Update!TypeOK
<1>4. QED
  BY <1>2, <1>3 DEF Update!FromCache, Update!Offer, Update!IsNewerVersion

THEOREM UpdateNoticesAreUpgrades == Update!Spec => Update!NoticeIsAnUpgrade
BY UpdateInit, UpdateStep, UpdateNotice, PTL DEF Update!Spec, Update!NoticeIsAnUpgrade
-----------------------------------------------------------------------------
(* Uninstall.                                                              *)

(* What is in a sequence. *)
Among(s) == {s[i] : i \in DOMAIN s}

LEMMA AmongTail ==
  ASSUME NEW S, NEW s \in Seq(S), s # <<>>
  PROVE  /\ Tail(s) \in Seq(S) /\ Head(s) \in Among(s)
         /\ Among(Tail(s)) \subseteq Among(s)
         /\ Among(s) \subseteq Among(Tail(s)) \union {Head(s)}
<1>1. /\ Tail(s) \in Seq(S) /\ Head(s) = s[1] /\ Len(s) \in Nat /\ Len(s) > 0
      /\ DOMAIN s = 1..Len(s) /\ DOMAIN Tail(s) = 1..(Len(s) - 1)
      /\ \A i \in 1..(Len(s) - 1) : Tail(s)[i] = s[i + 1]
  OBVIOUS
<1>2. ASSUME NEW x \in Among(Tail(s)) PROVE x \in Among(s)
  <2>1. PICK i \in 1..(Len(s) - 1) : x = s[i + 1]
    BY <1>1, <1>2 DEF Among
  <2>2. i + 1 \in DOMAIN s
    BY <1>1
  <2>3. QED
    BY <2>1, <2>2 DEF Among
<1>3. ASSUME NEW x \in Among(s), x # Head(s) PROVE x \in Among(Tail(s))
  <2>1. PICK i \in 1..Len(s) : x = s[i]
    BY <1>1, <1>3 DEF Among
  <2>2. i - 1 \in 1..(Len(s) - 1) /\ Tail(s)[i - 1] = s[(i - 1) + 1] /\ (i - 1) + 1 = i
    BY <1>1, <1>3, <2>1
  <2>3. QED
    BY <1>1, <2>1, <2>2 DEF Among
<1>4. Head(s) \in Among(s)
  BY <1>1 DEF Among
<1>5. QED
  BY <1>1, <1>2, <1>3, <1>4

LEMMA AmongBoth ==
  ASSUME NEW S, NEW s \in Seq(S), NEW t \in Seq(S)
  PROVE  s \o t \in Seq(S) /\ Among(s \o t) = Among(s) \union Among(t)
<1>1. /\ s \o t \in Seq(S) /\ Len(s) \in Nat /\ Len(t) \in Nat
      /\ DOMAIN s = 1..Len(s) /\ DOMAIN t = 1..Len(t)
      /\ DOMAIN (s \o t) = 1..(Len(s) + Len(t))
      /\ \A i \in 1..(Len(s) + Len(t)) :
           (s \o t)[i] = IF i <= Len(s) THEN s[i] ELSE t[i - Len(s)]
  OBVIOUS
<1> DEFINE st == s \o t
<1>2. /\ DOMAIN st = 1..(Len(s) + Len(t))
      /\ \A i \in 1..(Len(s) + Len(t)) :
           st[i] = IF i <= Len(s) THEN s[i] ELSE t[i - Len(s)]
  BY <1>1
<1> HIDE DEF st
<1>3. ASSUME NEW x \in Among(st) PROVE x \in Among(s) \union Among(t)
  <2>1. PICK i \in 1..(Len(s) + Len(t)) : x = st[i]
    BY <1>2, <1>3 DEF Among
  <2>2. CASE i <= Len(s)
    <3>1. i \in DOMAIN s /\ x = s[i]
      BY <1>1, <1>2, <2>1, <2>2
    <3>2. QED
      BY <3>1 DEF Among
  <2>3. CASE ~(i <= Len(s))
    <3>1. i - Len(s) \in DOMAIN t /\ x = t[i - Len(s)]
      BY <1>1, <1>2, <2>1, <2>3
    <3>2. QED
      BY <3>1 DEF Among
  <2>4. QED
    BY <2>2, <2>3
<1>4. ASSUME NEW x \in Among(s) PROVE x \in Among(st)
  <2>1. PICK i \in 1..Len(s) : x = s[i]
    BY <1>1, <1>4 DEF Among
  <2>2. i \in DOMAIN st /\ x = st[i]
    BY <1>1, <1>2, <2>1
  <2>3. QED
    BY <2>2 DEF Among
<1>5. ASSUME NEW x \in Among(t) PROVE x \in Among(st)
  <2>1. PICK i \in 1..Len(t) : x = t[i]
    BY <1>1, <1>5 DEF Among
  <2>2. Len(s) + i \in DOMAIN st /\ x = st[Len(s) + i]
    BY <1>1, <1>2, <2>1
  <2>3. QED
    BY <2>2 DEF Among
<1>6. QED
  BY <1>1, <1>3, <1>4, <1>5 DEF st

(* The places the command may look at. *)
Places ==
  {"system", "home", "cwd"} \X {"orbit", "o", "_orbit", "orbit.1", ".orbit", ".config/orbit"}

Items == {"binary", "completion", "man", "state"} \X Places

Held(home) == {<<"system", "orbit">>, <<"system", "o">>, <<home, "orbit">>, <<home, "o">>}

(* The list of work names the binaries of the system and of the user, and  *)
(* a state directory only when it is to be purged.                         *)
LEMMA WorkIs ==
  ASSUME NEW home \in {"home", "cwd"}, NEW running \in Remove!Binaries, NEW st \in BOOLEAN
  PROVE  /\ Remove!Work(home, running, st) \in Seq(Items)
         /\ \A b \in Held(home) : <<"binary", b>> \in Among(Remove!Work(home, running, st))
         /\ \A item \in Among(Remove!Work(home, running, st)) :
              item[2][2] \in Remove!StateDirs => st
<1> DEFINE self == <<"binary", running>>
           others == Remove!Candidates(home)
           second == IF \E i \in DOMAIN others : others[i] = self THEN <<>> ELSE <<self>>
           third == << <<"completion", <<home, "_orbit">>>>, <<"man", <<home, "orbit.1">>>> >>
           fourth == IF st THEN << <<"state", <<home, ".orbit">>>>,
                                   <<"state", <<home, ".config/orbit">>>> >>
                     ELSE <<>>
<1>1. self \in Items /\ running[2] \in {"orbit", "o"}
  BY DEF Items, Places, Remove!Binaries
<1>2. /\ others \in Seq(Items)
      /\ Among(others) = {<<"binary", b>> : b \in Held(home)}
  <2>1. /\ \A b \in Held(home) : <<"binary", b>> \in Items
    BY DEF Held, Items, Places
  <2>2. /\ others \in Seq(Items) /\ DOMAIN others = 1..4
        /\ others[1] = <<"binary", <<"system", "orbit">>>>
        /\ others[2] = <<"binary", <<"system", "o">>>>
        /\ others[3] = <<"binary", <<home, "orbit">>>>
        /\ others[4] = <<"binary", <<home, "o">>>>
    BY <2>1 DEF Remove!Candidates, Held
  <2> HIDE DEF others
  <2>3. Among(others) = {others[1], others[2], others[3], others[4]}
    <3>1. 1..4 = {1, 2, 3, 4}
      OBVIOUS
    <3>2. Among(others) = {others[i] : i \in {1, 2, 3, 4}}
      BY <2>2, <3>1, Zenon DEF Among
    <3>3. QED
      BY <3>2
  <2>4. QED
    BY <2>2, <2>3 DEF Held
<1>3. second \in Seq(Items) /\ Among(second) \subseteq {self}
  BY <1>1 DEF Among
<1>4. /\ third \in Seq(Items)
      /\ Among(third) = {<<"completion", <<home, "_orbit">>>>, <<"man", <<home, "orbit.1">>>>}
  BY DEF Among, Items, Places
<1>5. /\ fourth \in Seq(Items)
      /\ Among(fourth) = IF st THEN { <<"state", <<home, ".orbit">>>>,
                                      <<"state", <<home, ".config/orbit">>>> } ELSE {}
  <2>1. CASE st
    <3>1. /\ fourth = << <<"state", <<home, ".orbit">>>>,
                         <<"state", <<home, ".config/orbit">>>> >>
          /\ <<"state", <<home, ".orbit">>>> \in Items
          /\ <<"state", <<home, ".config/orbit">>>> \in Items
      BY <2>1 DEF Items, Places
    <3>2. QED
      BY <2>1, <3>1 DEF Among
  <2>2. CASE ~st
    <3>1. fourth = <<>>
      BY <2>2
    <3>2. QED
      BY <2>2, <3>1 DEF Among
  <2>3. QED
    BY <2>1, <2>2
<1>6. Remove!Work(home, running, st) = ((others \o second) \o third) \o fourth
  BY DEF Remove!Work
<1> HIDE DEF others, second, third, fourth
<1>7. /\ Remove!Work(home, running, st) \in Seq(Items)
      /\ Among(Remove!Work(home, running, st)) =
           Among(others) \union Among(second) \union Among(third) \union Among(fourth)
  <2> DEFINE p == others \o second
             q == p \o third
  <2>1. p \in Seq(Items) /\ Among(p) = Among(others) \union Among(second)
    BY <1>2, <1>3, AmongBoth
  <2>2. Remove!Work(home, running, st) = q \o fourth
    BY <1>6
  <2> HIDE DEF p
  <2>3. q \in Seq(Items) /\ Among(q) = Among(p) \union Among(third)
    BY <2>1, <1>4, AmongBoth
  <2> HIDE DEF q
  <2>4. q \o fourth \in Seq(Items) /\ Among(q \o fourth) = Among(q) \union Among(fourth)
    BY <2>3, <1>5, AmongBoth
  <2>5. QED
    BY <2>1, <2>2, <2>3, <2>4
<1>8. ASSUME NEW item \in Among(Remove!Work(home, running, st)),
             item[2][2] \in Remove!StateDirs
      PROVE  st
  <2>1. item \notin Among(others)
    BY <1>2, <1>8 DEF Held, Remove!StateDirs
  <2>2. item \notin Among(second)
    BY <1>1, <1>3, <1>8 DEF Remove!StateDirs
  <2>3. item \notin Among(third)
    BY <1>4, <1>8 DEF Remove!StateDirs
  <2>4. QED
    BY <2>1, <2>2, <2>3, <1>5, <1>7, <1>8
<1>9. QED
  BY <1>2, <1>7, <1>8

(* The statuses of a file, and those of the command. *)
Statuses == {"none", "file", "link", "dir"}

(* Every binary that still is a file is among what is left to do, unless a *)
(* removal failed.                                                         *)
LeftOK(r, d, f) ==
  /\ r.at \in {"confirm", "remove"} =>
       \A b \in Held(f.home) \intersect Remove!Binaries :
         r.failed \/ d[b] # "file" \/ <<"binary", b>> \in Among(r.left)
  /\ r.at = "done" =>
       \A b \in Held(f.home) \intersect Remove!Binaries : r.failed \/ d[b] # "file"

AgreedOK(r, f) ==
  /\ r.at = "remove" => r.agreed \/ f.force \/ ~f.tty
  /\ \A item \in Among(r.left) : item[2][2] \in Remove!StateDirs => f.state

GoneOK(r, d) ==
  \A item \in r.removed : item[1] \in {"binary", "man"} => d[item[2]] = "none"

RemoveInv ==
  /\ disk \in [Remove!Paths -> Statuses]
  /\ flags \in [ force : BOOLEAN, tty : BOOLEAN, state : BOOLEAN, repos : BOOLEAN,
                 home : {"home", "cwd"} ]
  /\ removal \in
       [ at : {"idle", "refused", "confirm", "aborted", "remove", "done"},
         left : Seq(Items), agreed : BOOLEAN, removed : SUBSET Items, failed : BOOLEAN ]
  /\ LeftOK(removal, disk, flags)
  /\ AgreedOK(removal, flags)
  /\ GoneOK(removal, disk)

LEMMA RemoveInit == Remove!Init => RemoveInv
<1> SUFFICES ASSUME Remove!Init PROVE RemoveInv
  OBVIOUS
<1>1. disk \in [Remove!Paths -> Statuses]
  <2>1. PICK system, user \in Remove!Installed :
          disk = [ p \in Remove!Paths |->
                     IF p \in Remove!Binaries
                     THEN (IF p[1] = "system" THEN system ELSE user)[p[2]]
                     ELSE IF p = Remove!Workspace \/ p[2] \in Remove!StateDirs THEN "dir"
                     ELSE IF p[1] = "home" THEN "file" ELSE "none" ]
    BY DEF Remove!Init
  <2>2. \A p \in Remove!Binaries : p[2] \in {"orbit", "o"}
    BY DEF Remove!Binaries
  <2>3. \A i \in Remove!Installed : i["orbit"] \in Statuses /\ i["o"] \in Statuses
    BY DEF Remove!Installed, Statuses
  <2>4. QED
    BY <2>1, <2>2, <2>3 DEF Statuses
<1>2. /\ flags = [ force |-> FALSE, tty |-> FALSE, state |-> FALSE, repos |-> FALSE,
                   home |-> "home" ]
      /\ removal = Remove!Idle
  BY DEF Remove!Init
<1>3. Among(<<>>) = {}
  BY DEF Among
<1>4. QED
  BY <1>1, <1>2, <1>3 DEF RemoveInv, Remove!Idle, LeftOK, AgreedOK, GoneOK

(* Going on to the next item: it was removed; or it was not, and that is   *)
(* reported as a failure or, of what is not looked at, as done; or there   *)
(* was nothing.                                                            *)
Handled ==
  \/ Remove!Removed /\ Remove!Exists(Remove!Path)
  \/ Remove!NotRemoved(FALSE)
  \/ Remove!NotRemoved(TRUE) /\ Remove!Item[1] \in {"completion", "state"}
  \/ Remove!Skip /\ ~Remove!Exists(Remove!Path)

LEMMA HandledKeeps ==
  ASSUME RemoveInv, removal.at = "remove", removal.left # <<>>, Handled
  PROVE  RemoveInv'
<1> DEFINE item == Head(removal.left)
<1>1. /\ removal.left \in Seq(Items) /\ removal.removed \in SUBSET Items
      /\ removal.agreed \in BOOLEAN /\ removal.failed \in BOOLEAN
      /\ disk \in [Remove!Paths -> Statuses]
  BY DEF RemoveInv
<1>2. /\ Tail(removal.left) \in Seq(Items) /\ item \in Among(removal.left)
      /\ Among(Tail(removal.left)) \subseteq Among(removal.left)
      /\ Among(removal.left) \subseteq Among(Tail(removal.left)) \union {item}
  BY <1>1, AmongTail
<1>3. item \in Items
  BY <1>1
<1>4. /\ flags' = flags /\ removal'.at = "remove" /\ removal'.agreed = removal.agreed
      /\ removal'.left = Tail(removal.left)
      /\ removal' \in
           [ at : {"idle", "refused", "confirm", "aborted", "remove", "done"},
             left : Seq(Items), agreed : BOOLEAN, removed : SUBSET Items, failed : BOOLEAN ]
      /\ removal.failed => removal'.failed
  <2>1. removal \in
          [ at : {"idle", "refused", "confirm", "aborted", "remove", "done"},
            left : Seq(Items), agreed : BOOLEAN, removed : SUBSET Items, failed : BOOLEAN ]
    BY DEF RemoveInv
  <2>2. CASE Remove!Removed
    <3>1. /\ removal' = [removal EXCEPT !.left = Tail(removal.left),
                                       !.removed = removal.removed \union {item}]
          /\ flags' = flags
      BY <2>2 DEF Remove!Removed, Remove!Item
    <3>2. removal.removed \union {item} \in SUBSET Items
      BY <1>1, <1>3
    <3>3. QED
      BY <3>1, <3>2, <2>1, <1>2
  <2>3. CASE Remove!Skip
    <3>1. removal' = [removal EXCEPT !.left = Tail(removal.left)] /\ flags' = flags
      BY <2>3 DEF Remove!Skip
    <3>2. QED
      BY <3>1, <2>1, <1>2
  <2>4. CASE Remove!NotRemoved(FALSE)
    <3>1. /\ removal' = [removal EXCEPT !.left = Tail(removal.left), !.failed = TRUE,
                                       !.removed = removal.removed]
          /\ flags' = flags
      BY <2>4 DEF Remove!NotRemoved
    <3>2. QED
      BY <3>1, <2>1, <1>2
  <2>5. CASE Remove!NotRemoved(TRUE)
    <3>1. /\ removal' = [removal EXCEPT !.left = Tail(removal.left), !.failed = TRUE,
                                       !.removed = removal.removed \union {item}]
          /\ flags' = flags
      BY <2>5 DEF Remove!NotRemoved, Remove!Item
    <3>2. removal.removed \union {item} \in SUBSET Items
      BY <1>1, <1>3
    <3>3. QED
      BY <3>1, <3>2, <2>1, <1>2
  <2>6. QED
    BY <2>2, <2>3, <2>4, <2>5 DEF Handled
<1>5. /\ disk' \in [Remove!Paths -> Statuses]
      /\ \A p \in Remove!Paths : disk'[p] = disk[p] \/ disk'[p] = "none"
  <2>1. disk' = disk \/ disk' = [disk EXCEPT ![Remove!Path] = "none"]
    BY DEF Handled, Remove!Removed, Remove!NotRemoved, Remove!Skip
  <2>2. QED
    BY <2>1, <1>1 DEF Statuses
<1>6. AgreedOK(removal', flags')
  BY <1>2, <1>4 DEF RemoveInv, AgreedOK
<1>7. GoneOK(removal', disk')
  <2> SUFFICES ASSUME NEW r \in removal'.removed, r[1] \in {"binary", "man"}
               PROVE  disk'[r[2]] = "none"
    BY DEF GoneOK
  <2>1. CASE r \in removal.removed
    <3>1. disk[r[2]] = "none"
      BY <2>1 DEF RemoveInv, GoneOK
    <3>2. disk' = disk \/ disk' = [disk EXCEPT ![Remove!Path] = "none"]
      BY DEF Handled, Remove!Removed, Remove!NotRemoved, Remove!Skip
    <3>3. CASE r[2] \in Remove!Paths
      BY <3>1, <3>3, <1>5
    <3>4. CASE r[2] \notin Remove!Paths
      <4>1. CASE disk' = disk
        BY <4>1, <3>1
      <4>2. CASE Remove!Removed /\ Remove!Exists(Remove!Path)
        <5>1. Remove!Path # r[2] /\ Remove!Path \in Remove!Paths
          BY <4>2, <3>4 DEF Remove!Exists
        <5>2. disk' = [disk EXCEPT ![Remove!Path] = "none"]
          BY <4>2 DEF Remove!Removed
        <5>3. QED
          BY <5>1, <5>2, <3>1, <1>1
      <4>3. QED
        BY <4>1, <4>2 DEF Handled, Remove!NotRemoved, Remove!Skip
    <3>5. QED
      BY <3>3, <3>4
  <2>2. CASE r \notin removal.removed
    <3>1. removal \in
            [ at : {"idle", "refused", "confirm", "aborted", "remove", "done"},
              left : Seq(Items), agreed : BOOLEAN, removed : SUBSET Items, failed : BOOLEAN ]
      BY DEF RemoveInv
    <3>2. Remove!Item = item
      BY DEF Remove!Item
    <3>3. ~Remove!Skip /\ ~Remove!NotRemoved(FALSE)
      BY <3>1, <2>2 DEF Remove!Skip, Remove!NotRemoved
    <3>4. CASE Remove!NotRemoved(TRUE) /\ Remove!Item[1] \in {"completion", "state"}
      <4>1. removal'.removed = removal.removed \union {item}
        BY <3>1, <3>2, <3>4 DEF Remove!NotRemoved
      <4>2. QED
        BY <4>1, <3>2, <3>4, <2>2
    <3>5. CASE Remove!Removed /\ Remove!Exists(Remove!Path)
      <4>1. removal'.removed = removal.removed \union {item}
        BY <3>1, <3>2, <3>5 DEF Remove!Removed
      <4>2. r = item
        BY <4>1, <2>2
      <4>3. QED
        BY <4>2, <3>2, <3>5, <1>1 DEF Remove!Removed, Remove!Exists, Remove!Path
    <3>6. QED
      BY <3>3, <3>4, <3>5 DEF Handled
  <2>3. QED
    BY <2>1, <2>2
<1>8. LeftOK(removal', disk', flags')
  <2> SUFFICES ASSUME NEW b \in Held(flags.home) \intersect Remove!Binaries,
                      ~removal'.failed, disk'[b] = "file"
               PROVE  <<"binary", b>> \in Among(removal'.left)
    BY <1>4 DEF LeftOK
  <2>1. b \in Remove!Paths /\ disk[b] = "file"
    BY <1>5 DEF Remove!Paths
  <2>2. ~removal.failed
    BY <1>4
  <2>3. <<"binary", b>> \in Among(removal.left)
    BY <2>1, <2>2 DEF RemoveInv, LeftOK
  <2>4. <<"binary", b>> # item
    <3>1. SUFFICES ASSUME item = <<"binary", b>> PROVE FALSE
      OBVIOUS
    <3>2. Remove!Path = b /\ Remove!Exists(b)
      BY <3>1, <2>1 DEF Remove!Path, Remove!Item, Remove!Exists, Remove!Target
    <3>3. removal.failed \in BOOLEAN /\ ~Remove!NotRemoved(FALSE) /\ ~Remove!NotRemoved(TRUE)
      BY <1>1 DEF Remove!NotRemoved, RemoveInv
    <3>4. disk'[b] = "none"
      BY <3>2, <3>3, <2>1, <1>1 DEF Handled, Remove!Removed
    <3>5. QED
      BY <3>4
  <2>5. QED
    BY <2>3, <2>4, <1>2, <1>4
<1>9. QED
  BY <1>4, <1>5, <1>6, <1>7, <1>8 DEF RemoveInv

(* Each removal of the command is one of these. *)
LEMMA RemovalIsHandled ==
  ASSUME Remove!Binary \/ Remove!Completion \/ Remove!ManPage \/ Remove!State
  PROVE  /\ Handled /\ removal.at = "remove" /\ removal.left # <<>>
<1>1. CASE Remove!Binary
  BY <1>1 DEF Remove!Binary, Remove!At, Handled
<1>2. CASE Remove!Completion
  BY <1>2 DEF Remove!Completion, Remove!At, Handled
<1>3. CASE Remove!ManPage
  BY <1>3 DEF Remove!ManPage, Remove!At, Handled
<1>4. CASE Remove!State
  BY <1>4 DEF Remove!State, Remove!At, Handled
<1>5. QED
  BY <1>1, <1>2, <1>3, <1>4

LEMMA StartKeeps ==
  ASSUME RemoveInv, Remove!Start
  PROVE  RemoveInv'
<1>1. PICK f \in [force : BOOLEAN, tty : BOOLEAN, state : BOOLEAN, repos : BOOLEAN,
                  home : {"home", "cwd"}], dirty \in BOOLEAN, running \in Remove!Binaries :
        /\ flags' = f /\ disk' = disk
        /\ removal' =
             IF f.repos /\ dirty /\ ~f.force THEN [Remove!Idle EXCEPT !.at = "refused"]
             ELSE [ Remove!Idle EXCEPT
                      !.at = IF Remove!Asks(f) THEN "confirm" ELSE "remove",
                      !.left = Remove!Work(f.home, running, f.state) ]
  BY DEF Remove!Start
<1> DEFINE w == Remove!Work(f.home, running, f.state)
<1>2. /\ w \in Seq(Items) /\ \A b \in Held(f.home) : <<"binary", b>> \in Among(w)
      /\ \A item \in Among(w) : item[2][2] \in Remove!StateDirs => f.state
  BY WorkIs
<1> HIDE DEF w
<1>3. Among(<<>>) = {}
  BY DEF Among
<1>4. CASE f.repos /\ dirty /\ ~f.force
  <2>1. removal' = [ at |-> "refused", left |-> <<>>, agreed |-> FALSE,
                     removed |-> {}, failed |-> FALSE ]
    BY <1>1, <1>4 DEF Remove!Idle
  <2>2. QED
    BY <2>1, <1>1, <1>3 DEF RemoveInv, LeftOK, AgreedOK, GoneOK
<1>5. CASE ~(f.repos /\ dirty /\ ~f.force)
  <2>1. removal' = [ at |-> IF Remove!Asks(f) THEN "confirm" ELSE "remove", left |-> w,
                     agreed |-> FALSE, removed |-> {}, failed |-> FALSE ]
    BY <1>1, <1>5 DEF Remove!Idle, w
  <2>2. removal'.at = "remove" => f.force \/ ~f.tty
    BY <2>1 DEF Remove!Asks
  <2>3. QED
    BY <2>1, <2>2, <1>1, <1>2 DEF RemoveInv, LeftOK, AgreedOK, GoneOK
<1>6. QED
  BY <1>4, <1>5

LEMMA RemoveStep == RemoveInv /\ [Remove!Next]_(Remove!vars) => RemoveInv'
<1> SUFFICES ASSUME RemoveInv, [Remove!Next]_(Remove!vars) PROVE RemoveInv'
  OBVIOUS
<1>1. CASE Remove!Start
  BY <1>1, StartKeeps
<1>2. ASSUME NEW yes \in BOOLEAN, Remove!Confirm(yes) PROVE RemoveInv'
  <2>1. Among(<<>>) = {}
    BY DEF Among
  <2>2. CASE yes
    <3>1. /\ removal' = [removal EXCEPT !.at = "remove", !.agreed = TRUE]
          /\ removal.at = "confirm" /\ disk' = disk /\ flags' = flags
      BY <1>2, <2>2 DEF Remove!Confirm
    <3>2. QED
      BY <3>1 DEF RemoveInv, LeftOK, AgreedOK, GoneOK
  <2>3. CASE ~yes
    <3>1. /\ removal' = [ at |-> "aborted", left |-> <<>>, agreed |-> FALSE,
                          removed |-> {}, failed |-> FALSE ]
          /\ disk' = disk /\ flags' = flags
      BY <1>2, <2>3 DEF Remove!Confirm, Remove!Idle
    <3>2. QED
      BY <3>1, <2>1 DEF RemoveInv, LeftOK, AgreedOK, GoneOK
  <2>4. QED
    BY <2>2, <2>3
<1>3. CASE Remove!Binary \/ Remove!Completion \/ Remove!ManPage \/ Remove!State
  BY <1>3, RemovalIsHandled, HandledKeeps
<1>4. CASE Remove!Finish
  <2>1. /\ removal' = [removal EXCEPT !.at = "done"] /\ removal.left = <<>>
        /\ removal.at = "remove" /\ disk' = disk /\ flags' = flags
    BY <1>4 DEF Remove!Finish
  <2>2. Among(removal.left) = {}
    BY <2>1 DEF Among
  <2>3. QED
    BY <2>1, <2>2 DEF RemoveInv, LeftOK, AgreedOK, GoneOK
<1>5. CASE UNCHANGED Remove!vars
  BY <1>5 DEF Remove!vars, RemoveInv, LeftOK, AgreedOK, GoneOK
<1>6. QED
  BY <1>1, <1>2, <1>3, <1>4, <1>5 DEF Remove!Next

LEMMA RemoveSafe == RemoveInv => Remove!GoneAsReported /\ Remove!TypeOK
<1> SUFFICES ASSUME RemoveInv PROVE Remove!GoneAsReported /\ Remove!TypeOK
  OBVIOUS
<1>1. \A b \in Remove!Binaries : b[1] \in {"system", flags.home} => b \in Held(flags.home)
  BY DEF Remove!Binaries, Held
<1>2. removal.at = "done" /\ ~removal.failed =>
        \A b \in Remove!Binaries : b[1] \in {"system", flags.home} => disk[b] # "file"
  BY <1>1 DEF RemoveInv, LeftOK
<1>3. \A r \in removal.removed : r[1] \in {"binary", "man"} => disk[r[2]] = "none"
  BY DEF RemoveInv, GoneOK
<1>4. Remove!TypeOK
  BY DEF RemoveInv, Remove!TypeOK, Statuses
<1>5. QED
  BY <1>2, <1>3, <1>4 DEF Remove!GoneAsReported

(* Only a file that the command has come to is removed. *)
LEMMA RemoveAgreed ==
  RemoveInv /\ [Remove!Next]_(Remove!vars)
    => \A p \in Remove!Paths :
         disk[p] # disk'[p] =>
           /\ removal.agreed \/ flags.force \/ ~flags.tty
           /\ p[2] \in Remove!StateDirs => flags.state
           /\ p # Remove!Workspace
<1> SUFFICES ASSUME RemoveInv, [Remove!Next]_(Remove!vars),
                    NEW p \in Remove!Paths, disk[p] # disk'[p]
             PROVE  /\ removal.agreed \/ flags.force \/ ~flags.tty
                    /\ p[2] \in Remove!StateDirs => flags.state
                    /\ p # Remove!Workspace
  OBVIOUS
<1>1. Remove!Binary \/ Remove!Completion \/ Remove!ManPage \/ Remove!State
  BY DEF Remove!Next, Remove!Start, Remove!Confirm, Remove!Finish, Remove!vars
<1>2. Handled /\ removal.at = "remove" /\ removal.left # <<>>
  BY <1>1, RemovalIsHandled
<1>3. disk' = [disk EXCEPT ![Remove!Path] = "none"]
  BY <1>2 DEF Handled, Remove!Removed, Remove!NotRemoved, Remove!Skip
<1>4. p = Remove!Path
  BY <1>3 DEF RemoveInv
<1>5. /\ removal.left \in Seq(Items) /\ Remove!Item \in Among(removal.left)
      /\ Remove!Item \in Items
  <2>1. removal.left \in Seq(Items)
    BY DEF RemoveInv
  <2>2. QED
    BY <2>1, <1>2, AmongTail DEF Remove!Item
<1>6. p # Remove!Workspace
  BY <1>4, <1>5 DEF Remove!Path, Items, Places, Remove!Workspace
<1>7. QED
  BY <1>2, <1>4, <1>5, <1>6 DEF RemoveInv, AgreedOK, Remove!Path

(* What uninstall reports as removed is gone, and nothing is removed that  *)
(* was not agreed on.                                                      *)
THEOREM RemovedIsGone == Remove!Spec => []Remove!GoneAsReported
<1>1. QED
  BY RemoveInit, RemoveStep, RemoveSafe, PTL DEF Remove!Spec

(* Every change of the disk by uninstall was agreed on. *)
THEOREM RemovalIsAgreed == Remove!Spec => Remove!RemovedAsAgreed
<1>1. RemoveInv /\ [Remove!Next]_(Remove!vars)
        => [\A p \in Remove!Paths :
              disk[p] # disk'[p] =>
                /\ removal.agreed \/ flags.force \/ ~flags.tty
                /\ p[2] \in Remove!StateDirs => flags.state
                /\ p # Remove!Workspace]_(Remove!vars)
  BY RemoveAgreed
<1>2. QED
  BY <1>1, RemoveInit, RemoveStep, PTL DEF Remove!Spec, Remove!RemovedAsAgreed
-----------------------------------------------------------------------------
(* CIPool.                                                                 *)

CINames == {CIRepos[i] : i \in DOMAIN CIRepos}

Secrets == UNION {[D -> 0..1] : D \in SUBSET STRING}

Hubs == [CINames -> [private : BOOLEAN, runner : {None, "vps"}, secrets : Secrets]]

(* A secret's name and its value, which is empty of a deploy key only. *)
Pairs == {p \in STRING \X (0..1) : p[1] # DeployKeySecret => p[2] # 0}

Switches ==
  [ cmd : {None, "vps", "github", "status", "sync"},
    at : {"idle", "view", "pool", "each", "check", "put", "done", "failed"},
    left : Seq(CINames), repos : Seq(CINames), wanted : CINames \union {None},
    value : {None, 0, 1}, names : Seq(Pairs), told : SUBSET CINames,
    absent : SUBSET CINames, seen : [private : SUBSET CINames, online : SUBSET {"orbit"}],
    clean : BOOLEAN, before : Hubs \union {None} ]

Distinct(s) == \A i, j \in DOMAIN s : s[i] = s[j] => i = j

(* The private repositories on GitHub, which a switch is for. *)
Aimed(h, o) == {r \in CINames : o[r] # None /\ h[r].private}

Goal(cmd) == IF cmd = "vps" THEN "vps" ELSE None

(* r is where the command puts it, or its variable was taken for absent. *)
Settled(j, h, r) ==
  h[r].runner = Goal(j.cmd) \/ (j.cmd = "github" /\ r \in j.absent)

(* The command knows what is and was. *)
SeenOK(j, h, on) ==
  j.at # "idle" =>
    /\ \A r \in CINames : h[r].private => r \in j.seen.private
    /\ on \subseteq j.seen.online

StageOK(j) ==
  /\ j.at = "idle" => j.cmd = None
  /\ j.at # "idle" => j.before \in Hubs
  /\ j.at \in {"view", "pool", "each"} => j.cmd \in {"vps", "github", "status"}
  /\ j.at \in {"check", "put"} => j.cmd = "sync"

(* The repositories found were private, and those to be pinned had a       *)
(* runner online.                                                          *)
FoundOK(j, o) ==
  j.cmd # "sync" =>
    /\ Among(j.repos) \subseteq j.seen.private
    /\ j.at = "pool" => /\ j.left = j.repos
                       /\ \E org : {o[j.repos[i]] : i \in DOMAIN j.repos} = {org}
    /\ j.at = "each" => Among(j.left) \subseteq Among(j.repos)
    /\ j.at = "each" /\ j.cmd = "vps" => \A r \in Among(j.repos) : o[r] \in j.seen.online

(* Undisturbed, the command finds the private repositories, and those      *)
(* behind it are switched.                                                 *)
SwitchOK(j, h, o) ==
  j.clean /\ j.cmd \in {"vps", "github"} =>
    /\ j.at \in {"view", "pool"} => h = j.before
    /\ j.at = "view" =>
         /\ Among(j.repos) \subseteq Aimed(h, o)
         /\ Aimed(h, o) \subseteq Among(j.repos) \union Among(j.left)
    /\ j.at \in {"pool", "each"} => Among(j.repos) = Aimed(h, o)
    /\ j.at \in {"each", "done"} =>
         \A r \in CINames \ Aimed(h, o) : h[r] = j.before[r]
    /\ j.at = "each" =>
         \A r \in Aimed(h, o) : r \in Among(j.left) \/ Settled(j, h, r)
    /\ j.at = "done" => \A r \in Aimed(h, o) : Settled(j, h, r)
    /\ j.at \in {"each", "done"} =>
         \A r \in CINames : h[r].runner \in {Goal(j.cmd), j.before[r].runner}

Has(h, r, name) ==
  name \in DOMAIN h[r].secrets /\ (name # DeployKeySecret => h[r].secrets[name] # 0)

Firsts(s) == {p[1] : p \in Among(s)}

(* The push does not come to r, or has yet to. *)
Waiting(j, r) ==
  \/ r \notin Among(j.repos) \/ ~CI!Selected(r, j.wanted)
  \/ (r \in Among(j.left) /\ r # Head(j.left))

(* Undisturbed, the repositories behind a push have their secrets, those   *)
(* before it are untouched, and at one it is at, what it lacks is to come. *)
PushOK(j, h, mode) ==
  j.cmd = "sync" =>
    /\ Distinct(j.left) /\ Among(j.left) \subseteq Among(j.repos)
    /\ j.at = "done" => j.left = <<>>
    /\ j.at \in {"check", "put"} => mode = 384
    /\ j.at = "put" => j.left # <<>> /\ CI!Selected(Head(j.left), j.wanted)
    /\ j.clean =>
         /\ \A r \in Among(j.repos) \ Among(j.left) : CI!Selected(r, j.wanted) =>
              \A i \in DOMAIN CISecrets[r] : Has(h, r, CISecrets[r][i])
         /\ \A r \in CINames : Waiting(j, r) => h[r] = j.before[r]
         /\ h # j.before => mode = 384
         /\ j.at = "put" =>
              \A i \in DOMAIN CISecrets[Head(j.left)] :
                \/ Has(h, Head(j.left), CISecrets[Head(j.left)][i])
                \/ CISecrets[Head(j.left)][i] \in Firsts(j.names)

(* The command agrees with what GitHub has and with the file of secrets.   *)
Sound(j, h, o, on, mode) ==
  /\ h \in Hubs /\ on \subseteq {"orbit"} /\ j \in Switches
  /\ StageOK(j) /\ SeenOK(j, h, on)
  /\ FoundOK(j, o) /\ SwitchOK(j, h, o)
  /\ PushOK(j, h, mode)

CIInv ==
  /\ owner \in [CINames -> {None, "orbit", "other"}]
  /\ source \in [mode : {384, 420}, value : {None, 0, 1}]
  /\ keys \in [CINames -> {None, 0, 1}]
  /\ turns \in 0..MaxTurns
  /\ Sound(switch, hub, owner, online, source.mode)

LEMMA CIFacts ==
  /\ CIRepos \in Seq(CINames) /\ Among(CIRepos) = CINames /\ Distinct(CIRepos)
  /\ CISecrets \in [CINames -> Seq(STRING)]
  /\ Among(<<>>) = {} /\ Distinct(<<>>)
  /\ None # "vps" /\ None # "sync" /\ None \notin Nat
<1>1. CIRepos \in Seq(STRING)
  BY HostAssumption
<1>2. CIRepos \in Seq(CINames)
  BY <1>1 DEF CINames
<1>3. QED
  BY <1>2, HostAssumption, NoneAssumption DEF CINames, Among, Distinct

LEMMA CIInit == CI!Init => CIInv
<1> SUFFICES ASSUME CI!Init PROVE CIInv
  OBVIOUS
<1>1. /\ owner \in [CINames -> {None, "orbit", "other"}]
      /\ hub \in [CINames -> [private : BOOLEAN, runner : {None, "vps"}, secrets : {<<>>}]]
      /\ online \subseteq {"orbit"}
      /\ source \in [mode : {384, 420}, value : {None, 0, 1}]
      /\ keys \in [CINames -> {None, 0, 1}]
      /\ switch = CI!Idle /\ turns = 0
  BY DEF CI!Init, CINames, CI!Names
<1>2. <<>> \in Secrets
  <2>1. <<>> \in [{} -> 0..1] /\ {} \in SUBSET STRING
    OBVIOUS
  <2>2. QED
    BY <2>1 DEF Secrets
<1>3. hub \in Hubs
  BY <1>1, <1>2 DEF Hubs
<1>4. switch \in Switches
  BY <1>1 DEF CI!Idle, Switches
<1>5. turns \in 0..MaxTurns
  BY <1>1, HostAssumption
<1>6. /\ StageOK(switch) /\ SeenOK(switch, hub, online) /\ FoundOK(switch, owner)
      /\ SwitchOK(switch, hub, owner) /\ PushOK(switch, hub, source.mode)
  BY <1>1, CIFacts DEF CI!Idle, StageOK, SeenOK, FoundOK, SwitchOK, PushOK
<1>7. QED
  BY <1>1, <1>3, <1>4, <1>5, <1>6 DEF CIInv, Sound

(* A command that fails says nothing more. *)
LEMMA FailsKeeps ==
  ASSUME NEW j, NEW h, NEW o, NEW on, NEW mode, Sound(j, h, o, on, mode), j.at # "idle"
  PROVE  Sound([j EXCEPT !.at = "failed"], h, o, on, mode)
<1> DEFINE k == [j EXCEPT !.at = "failed"]
<1>1. /\ k \in Switches /\ k.at = "failed" /\ k.cmd = j.cmd /\ k.left = j.left
      /\ k.repos = j.repos /\ k.wanted = j.wanted /\ k.seen = j.seen
      /\ k.clean = j.clean /\ k.before = j.before /\ k.absent = j.absent
  BY DEF Sound, Switches
<1> HIDE DEF k
<1>2. StageOK(k) /\ SeenOK(k, h, on) /\ FoundOK(k, o) /\ SwitchOK(k, h, o)
  BY <1>1 DEF Sound, StageOK, SeenOK, FoundOK, SwitchOK
<1>3. \A r : Waiting(k, r) => Waiting(j, r)
  BY <1>1 DEF Waiting
<1>4. PushOK(k, h, mode)
  BY <1>1, <1>3 DEF Sound, PushOK
<1>5. Sound(k, h, o, on, mode)
  BY <1>1, <1>2, <1>4 DEF Sound
<1>6. QED
  BY <1>5 DEF k

(* A command starts. *)
LEMMA StartedFields ==
  ASSUME CIInv, NEW cmd \in {"vps", "github", "status", "sync"}
  PROVE  LET s == CI!Started(cmd) IN
         /\ s = [ cmd |-> cmd, at |-> "idle", left |-> <<>>, repos |-> <<>>, wanted |-> None,
                  value |-> None, names |-> <<>>, told |-> {}, absent |-> {},
                  seen |-> [private |-> CI!Private, online |-> online],
                  clean |-> TRUE, before |-> hub ]
         /\ CI!Private = {r \in CINames : hub[r].private}
<1>1. CI!Names = CINames
  BY DEF CIInv, CI!Names
<1>2. CI!Private = {r \in CINames : hub[r].private}
  BY <1>1 DEF CI!Private
<1> DEFINE seen == [private |-> CI!Private, online |-> online]
<1>3. CI!Started(cmd) = [CI!Idle EXCEPT !.cmd = cmd, !.seen = seen, !.before = hub]
  BY DEF CI!Started
<1> HIDE DEF seen
<1>4. CI!Started(cmd) =
        [ cmd |-> cmd, at |-> "idle", left |-> <<>>, repos |-> <<>>, wanted |-> None,
          value |-> None, names |-> <<>>, told |-> {}, absent |-> {}, seen |-> seen,
          clean |-> TRUE, before |-> hub ]
  BY <1>3 DEF CI!Idle
<1>5. QED
  BY <1>2, <1>4 DEF seen

LEMMA RunnerKeeps ==
  ASSUME CIInv, NEW mode \in {"vps", "github", "status"}, CI!Runner(mode)
  PROVE  CIInv'
<1> DEFINE seen == [private |-> CI!Private, online |-> online]
           s == CI!Started(mode)
<1>a. /\ s =
           [ cmd |-> mode, at |-> "idle", left |-> <<>>, repos |-> <<>>, wanted |-> None,
             value |-> None, names |-> <<>>, told |-> {}, absent |-> {},
             seen |-> seen, clean |-> TRUE, before |-> hub ]
      /\ CI!Private = {r \in CINames : hub[r].private}
  BY StartedFields
<1>b. /\ switch' = [s EXCEPT !.at = "view", !.left = CIRepos]
      /\ owner' = owner /\ hub' = hub /\ online' = online /\ source' = source
      /\ keys' = keys /\ turns' = turns
  BY DEF CI!Runner, CI!Start
<1> HIDE DEF seen, s
<1>1. /\ switch' = [ cmd |-> mode, at |-> "view", left |-> CIRepos, repos |-> <<>>,
                     wanted |-> None, value |-> None, names |-> <<>>, told |-> {}, absent |-> {},
                     seen |-> seen, clean |-> TRUE, before |-> hub ]
      /\ CI!Private = {r \in CINames : hub[r].private}
      /\ owner' = owner /\ hub' = hub /\ online' = online /\ source' = source
      /\ keys' = keys /\ turns' = turns
  BY <1>a, <1>b
<1>2. hub \in Hubs /\ online \subseteq {"orbit"}
  BY DEF CIInv, Sound
<1>3. seen \in [private : SUBSET CINames, online : SUBSET {"orbit"}]
  BY <1>1, <1>2 DEF seen
<1>4. switch' \in Switches
  BY <1>1, <1>2, <1>3, CIFacts DEF Switches
<1>5. StageOK(switch') /\ SeenOK(switch', hub', online')
  BY <1>1, <1>2 DEF StageOK, SeenOK, seen
<1>6. /\ FoundOK(switch', owner') /\ SwitchOK(switch', hub', owner')
      /\ PushOK(switch', hub', source'.mode)
  BY <1>1, <1>2, CIFacts DEF FoundOK, SwitchOK, PushOK, Aimed
<1>7. QED
  BY <1>1, <1>2, <1>4, <1>5, <1>6 DEF CIInv, Sound

LEMMA SyncKeeps ==
  ASSUME CIInv, NEW wanted \in CINames \union {None}, CI!Sync(wanted)
  PROVE  CIInv'
<1> DEFINE seen == [private |-> CI!Private, online |-> online]
           starts == CI!Loads /\ \E r \in CI!Names : CI!Selected(r, wanted)
           s == CI!Started("sync")
<1>1. /\ switch' = IF starts
                   THEN [s EXCEPT !.at = "check", !.left = CIRepos, !.repos = CIRepos,
                                  !.wanted = wanted, !.value = source.value]
                   ELSE [s EXCEPT !.at = "failed"]
      /\ owner' = owner /\ hub' = hub /\ online' = online /\ source' = source
      /\ keys' = keys /\ turns' = turns
  BY DEF CI!Sync, CI!Start
<1>2. /\ s = [ cmd |-> "sync", at |-> "idle", left |-> <<>>, repos |-> <<>>, wanted |-> None,
               value |-> None, names |-> <<>>, told |-> {}, absent |-> {},
               seen |-> seen, clean |-> TRUE, before |-> hub ]
      /\ CI!Private = {r \in CINames : hub[r].private}
  BY StartedFields
<1>3. /\ hub \in Hubs /\ online \subseteq {"orbit"} /\ source.value \in {None, 0, 1}
      /\ starts => source.mode = 384
  BY DEF CIInv, Sound, CI!Loads
<1>4. /\ seen \in [private : SUBSET CINames, online : SUBSET {"orbit"}]
      /\ seen.online = online /\ \A r \in CINames : hub[r].private => r \in seen.private
  BY <1>2, <1>3
<1> HIDE DEF seen, starts, s
<1>5. \E at \in {"check", "failed"} : \E repos \in {<<>>, CIRepos} :
        \E w \in CINames \union {None} : \E v \in {None, 0, 1} :
          /\ switch' = [ cmd |-> "sync", at |-> at, left |-> repos, repos |-> repos, wanted |-> w,
                         value |-> v, names |-> <<>>, told |-> {}, absent |-> {},
                         seen |-> seen, clean |-> TRUE, before |-> hub ]
          /\ at = "check" => source.mode = 384
  <2>1. CASE starts
    <3>1. switch' = [ cmd |-> "sync", at |-> "check", left |-> CIRepos, repos |-> CIRepos,
                      wanted |-> wanted, value |-> source.value, names |-> <<>>, told |-> {}, absent |-> {},
                      seen |-> seen, clean |-> TRUE, before |-> hub ]
      BY <1>1, <1>2, <2>1
    <3>2. "check" = "check" => source.mode = 384
      BY <2>1, <1>3
    <3>3. WITNESS "check" \in {"check", "failed"}
    <3>4. WITNESS CIRepos \in {<<>>, CIRepos}
    <3>5. WITNESS wanted \in CINames \union {None}
    <3>6. source.value \in {None, 0, 1}
      BY <1>3
    <3>7. WITNESS source.value \in {None, 0, 1}
    <3>8. QED
      BY <3>1, <3>2
  <2>2. CASE ~starts
    <3>1. switch' = [ cmd |-> "sync", at |-> "failed", left |-> <<>>, repos |-> <<>>,
                      wanted |-> None, value |-> None, names |-> <<>>, told |-> {}, absent |-> {},
                      seen |-> seen, clean |-> TRUE, before |-> hub ]
      BY <1>1, <1>2, <2>2
    <3>2. QED
      BY <3>1
  <2>3. QED
    BY <2>1, <2>2
<1>6. PICK at \in {"check", "failed"}, repos \in {<<>>, CIRepos},
           w \in CINames \union {None}, v \in {None, 0, 1} :
          /\ switch' = [ cmd |-> "sync", at |-> at, left |-> repos, repos |-> repos, wanted |-> w,
                         value |-> v, names |-> <<>>, told |-> {}, absent |-> {},
                         seen |-> seen, clean |-> TRUE, before |-> hub ]
          /\ at = "check" => source.mode = 384
  BY <1>5
<1>7. repos \in Seq(CINames) /\ Distinct(repos)
  <2>1. CASE repos = <<>>
    BY <2>1, CIFacts
  <2>2. CASE repos = CIRepos
    BY <2>2, CIFacts
  <2>3. QED
    BY <2>1, <2>2
<1>8. switch' \in Switches
  BY <1>3, <1>4, <1>6, <1>7 DEF Switches
<1>a. /\ switch'.cmd = "sync" /\ switch'.at = at /\ switch'.left = repos
      /\ switch'.repos = repos /\ switch'.seen = seen /\ switch'.before = hub
  BY <1>6
<1>9. StageOK(switch') /\ SeenOK(switch', hub', online')
  <2>1. StageOK(switch')
    BY <1>3, <1>a DEF StageOK
  <2>2. SeenOK(switch', hub', online')
    BY <1>1, <1>4, <1>a DEF SeenOK
  <2>3. QED
    BY <2>1, <2>2
<1>10. FoundOK(switch', owner') /\ SwitchOK(switch', hub', owner')
  BY <1>6 DEF FoundOK, SwitchOK
<1>11. PushOK(switch', hub', source'.mode)
  <2>1. Distinct(switch'.left) /\ switch'.at \notin {"done", "put"}
    BY <1>7, <1>a
  <2>2. switch'.at \in {"check", "put"} => source'.mode = 384
    BY <1>1, <1>6, <1>a
  <2>3. /\ switch'.before = hub' /\ Among(switch'.repos) \ Among(switch'.left) = {}
        /\ Among(switch'.left) \subseteq Among(switch'.repos)
    BY <1>1, <1>a
  <2>4. QED
    BY <2>1, <2>2, <2>3 DEF PushOK
<1>12. QED
  BY <1>1, <1>3, <1>8, <1>9, <1>10, <1>11 DEF CIInv, Sound

LEMMA AmongAppend ==
  ASSUME NEW S, NEW s \in Seq(S), NEW x \in S
  PROVE  Append(s, x) \in Seq(S) /\ Among(Append(s, x)) = Among(s) \union {x}
<1> DEFINE t == Append(s, x)
<1>1. /\ t \in Seq(S) /\ Len(s) \in Nat /\ DOMAIN s = 1..Len(s)
      /\ DOMAIN t = 1..(Len(s) + 1) /\ t[Len(s) + 1] = x
      /\ \A i \in 1..Len(s) : t[i] = s[i]
  OBVIOUS
<1> HIDE DEF t
<1>2. ASSUME NEW y \in Among(t) PROVE y \in Among(s) \union {x}
  <2>1. PICK i \in 1..(Len(s) + 1) : y = t[i]
    BY <1>1, <1>2 DEF Among
  <2>2. CASE i = Len(s) + 1
    BY <2>1, <2>2, <1>1
  <2>3. CASE i # Len(s) + 1
    <3>1. i \in DOMAIN s /\ y = s[i]
      BY <2>1, <2>3, <1>1
    <3>2. QED
      BY <3>1 DEF Among
  <2>4. QED
    BY <2>2, <2>3
<1>3. ASSUME NEW y \in Among(s) PROVE y \in Among(t)
  <2>1. PICK i \in 1..Len(s) : y = s[i]
    BY <1>1, <1>3 DEF Among
  <2>2. i \in DOMAIN t /\ y = t[i]
    BY <1>1, <2>1
  <2>3. QED
    BY <2>2 DEF Among
<1>4. x \in Among(t)
  <2>1. Len(s) + 1 \in DOMAIN t /\ x = t[Len(s) + 1]
    BY <1>1
  <2>2. QED
    BY <2>1 DEF Among
<1>5. QED
  BY <1>1, <1>2, <1>3, <1>4 DEF t

(* A step of the command alone leaves the rest as it is. *)
LEMMA BecomesKeeps ==
  ASSUME CIInv, NEW k, CI!Becomes(k), Sound(k, hub, owner, online, source.mode)
  PROVE  CIInv'
<1>1. /\ switch' = k /\ owner' = owner /\ hub' = hub /\ online' = online
      /\ source' = source /\ keys' = keys /\ turns' = turns
  BY DEF CI!Becomes
<1>2. Sound(switch', hub', owner', online', source'.mode)
  BY <1>1
<1>3. QED
  BY <1>1, <1>2 DEF CIInv

LEMMA ViewKeeps ==
  ASSUME CIInv, CI!View
  PROVE  CIInv'
<1> DEFINE r == Head(switch.left)
           o == CI!Onward(switch)
           k == [o EXCEPT !.repos = Append(@, r)]
<1>1. /\ switch \in Switches /\ switch.at = "view" /\ switch.left # <<>>
      /\ switch.left \in Seq(CINames) /\ switch.repos \in Seq(CINames)
      /\ hub \in Hubs /\ owner \in [CINames -> {None, "orbit", "other"}]
      /\ switch.cmd \in {"vps", "github", "status"}
      /\ StageOK(switch) /\ SeenOK(switch, hub, online) /\ FoundOK(switch, owner)
      /\ SwitchOK(switch, hub, owner)
  BY DEF CI!View, CIInv, Sound, Switches, StageOK
<1>2. /\ r \in CINames /\ r \in Among(switch.left)
      /\ Tail(switch.left) \in Seq(CINames)
      /\ Among(switch.left) \subseteq Among(Tail(switch.left)) \union {r}
  BY <1>1, AmongTail
<1>3. /\ Append(switch.repos, r) \in Seq(CINames)
      /\ Among(Append(switch.repos, r)) = Among(switch.repos) \union {r}
  BY <1>1, <1>2, AmongAppend
<1>4. CASE CI!Becomes(k) /\ owner[r] # None /\ hub[r].private
  <2>1. /\ k \in Switches /\ k.at = "view" /\ k.cmd = switch.cmd /\ k.left = Tail(switch.left)
        /\ k.repos = Append(switch.repos, r) /\ k.seen = switch.seen
        /\ k.clean = switch.clean /\ k.before = switch.before
    BY <1>1, <1>2, <1>3 DEF CI!Onward, Switches
  <2> HIDE DEF k
  <2>2. r \in switch.seen.private
    BY <1>1, <1>2, <1>4 DEF SeenOK
  <2>3. r \in Aimed(hub, owner)
    BY <1>2, <1>4 DEF Aimed
  <2>4. StageOK(k) /\ SeenOK(k, hub, online)
    BY <1>1, <2>1 DEF StageOK, SeenOK
  <2>5. FoundOK(k, owner)
    BY <1>1, <1>3, <2>1, <2>2 DEF FoundOK
  <2>6. SwitchOK(k, hub, owner)
    BY <1>1, <1>2, <1>3, <2>1, <2>3 DEF SwitchOK
  <2>7. PushOK(k, hub, source.mode)
    BY <1>1, <2>1 DEF PushOK
  <2>8. Sound(k, hub, owner, online, source.mode)
    BY <2>1, <2>4, <2>5, <2>6, <2>7 DEF Sound, CIInv
  <2>9. QED
    BY <1>4, <2>8, BecomesKeeps
<1>5. CASE CI!Becomes(o) /\ ~(owner[r] # None /\ hub[r].private)
  <2>1. /\ o \in Switches /\ o.at = "view" /\ o.cmd = switch.cmd /\ o.left = Tail(switch.left)
        /\ o.repos = switch.repos /\ o.seen = switch.seen
        /\ o.clean = switch.clean /\ o.before = switch.before
    BY <1>1, <1>2 DEF CI!Onward, Switches
  <2> HIDE DEF o
  <2>2. r \notin Aimed(hub, owner)
    BY <1>2, <1>5 DEF Aimed
  <2>3. StageOK(o) /\ SeenOK(o, hub, online)
    BY <1>1, <2>1 DEF StageOK, SeenOK
  <2>4. FoundOK(o, owner)
    BY <1>1, <2>1 DEF FoundOK
  <2>5. SwitchOK(o, hub, owner)
    BY <1>1, <1>2, <2>1, <2>2 DEF SwitchOK
  <2>6. PushOK(o, hub, source.mode)
    BY <1>1, <2>1 DEF PushOK
  <2>7. Sound(o, hub, owner, online, source.mode)
    BY <2>1, <2>3, <2>4, <2>5, <2>6 DEF Sound, CIInv
  <2>8. QED
    BY <1>5, <2>7, BecomesKeeps
<1>6. CASE CI!Fails
  <2>1. Sound([switch EXCEPT !.at = "failed"], hub, owner, online, source.mode)
    BY <1>1, FailsKeeps DEF CIInv
  <2>2. QED
    BY <1>6, <2>1, BecomesKeeps DEF CI!Fails
<1>7. QED
  BY <1>4, <1>5, <1>6 DEF CI!View

LEMMA FailKeeps ==
  ASSUME CIInv, CI!Fails, switch.at # "idle"
  PROVE  CIInv'
<1>1. Sound([switch EXCEPT !.at = "failed"], hub, owner, online, source.mode)
  BY FailsKeeps DEF CIInv
<1>2. QED
  BY <1>1, BecomesKeeps DEF CI!Fails

(* Which runners are asked for is settled by where the repositories are.   *)
LEMMA ViewedKeeps ==
  ASSUME CIInv, CI!Viewed
  PROVE  CIInv'
<1> DEFINE k == [switch EXCEPT !.at = CI!Plan(switch), !.left = switch.repos]
<1>1. /\ switch \in Switches /\ switch.at = "view" /\ switch.left = <<>>
      /\ switch.repos \in Seq(CINames) /\ hub \in Hubs
      /\ owner \in [CINames -> {None, "orbit", "other"}]
      /\ switch.cmd \in {"vps", "github", "status"}
      /\ StageOK(switch) /\ SeenOK(switch, hub, online) /\ FoundOK(switch, owner)
      /\ SwitchOK(switch, hub, owner)
  BY DEF CI!Viewed, CIInv, Sound, Switches, StageOK
<1>2. /\ CI!Plan(switch) \in {"each", "pool", "failed"}
      /\ CI!Plan(switch) = "pool" =>
           \E org : {owner[switch.repos[i]] : i \in DOMAIN switch.repos} = {org}
      /\ CI!Plan(switch) = "each" /\ switch.cmd = "vps" => switch.repos = <<>>
  BY <1>1 DEF CI!Plan, CI!HasOrganization, CI!Organizations
<1>3. /\ k \in Switches /\ k.at = CI!Plan(switch) /\ k.cmd = switch.cmd
      /\ k.left = switch.repos /\ k.repos = switch.repos /\ k.seen = switch.seen
      /\ k.clean = switch.clean /\ k.before = switch.before
  BY <1>1, <1>2 DEF Switches
<1>4. CI!Becomes(k)
  BY DEF CI!Viewed
<1> HIDE DEF k
<1>5. StageOK(k) /\ SeenOK(k, hub, online)
  BY <1>1, <1>2, <1>3 DEF StageOK, SeenOK
<1>6. FoundOK(k, owner)
  <2>1. Among(k.repos) \subseteq k.seen.private
    BY <1>1, <1>3, CIFacts DEF FoundOK
  <2>2. k.at = "pool" =>
          /\ k.left = k.repos
          /\ \E org : {owner[k.repos[i]] : i \in DOMAIN k.repos} = {org}
    BY <1>2, <1>3
  <2>3. k.at = "each" => Among(k.left) \subseteq Among(k.repos)
    BY <1>3
  <2>4. k.at = "each" /\ k.cmd = "vps" => Among(k.repos) = {}
    BY <1>2, <1>3, CIFacts
  <2>5. QED
    BY <2>1, <2>2, <2>3, <2>4 DEF FoundOK
<1>7. SwitchOK(k, hub, owner)
  BY <1>1, <1>2, <1>3, CIFacts DEF SwitchOK
<1>8. PushOK(k, hub, source.mode)
  BY <1>1, <1>3 DEF PushOK
<1>9. Sound(k, hub, owner, online, source.mode)
  BY <1>3, <1>5, <1>6, <1>7, <1>8 DEF Sound, CIInv
<1>10. QED
  BY <1>4, <1>9, BecomesKeeps

(* All repositories are in the organization whose runner was found.        *)
LEMMA PoolKeeps ==
  ASSUME CIInv, CI!Pool
  PROVE  CIInv'
<1> DEFINE k == [switch EXCEPT !.at = "each"]
<1>1. /\ switch \in Switches /\ switch.at = "pool" /\ hub \in Hubs
      /\ owner \in [CINames -> {None, "orbit", "other"}]
      /\ switch.cmd \in {"vps", "github", "status"}
      /\ StageOK(switch) /\ SeenOK(switch, hub, online) /\ FoundOK(switch, owner)
      /\ SwitchOK(switch, hub, owner)
  BY DEF CI!Pool, CIInv, Sound, Switches, StageOK
<1>2. CASE CI!Fails
  BY <1>1, <1>2, FailKeeps
<1>3. CASE (switch.cmd = "vps" => CI!Ready(switch)) /\ CI!Becomes(k)
  <2>1. /\ k \in Switches /\ k.at = "each" /\ k.cmd = switch.cmd
        /\ k.left = switch.left /\ k.repos = switch.repos /\ k.seen = switch.seen
        /\ k.clean = switch.clean /\ k.before = switch.before
    BY <1>1 DEF Switches
  <2> HIDE DEF k
  <2>2. StageOK(k) /\ SeenOK(k, hub, online)
    BY <1>1, <2>1 DEF StageOK, SeenOK
  <2>3. ASSUME switch.cmd = "vps", NEW r \in Among(switch.repos)
        PROVE  owner[r] \in switch.seen.online
    <3>1. PICK org : {owner[switch.repos[i]] : i \in DOMAIN switch.repos} = {org}
      BY <1>1, <2>3, CIFacts DEF FoundOK
    <3>2. CI!Organizations(switch.repos) = {org}
      BY <3>1 DEF CI!Organizations
    <3>3. CI!Organization(switch.repos) = org
      BY <3>2 DEF CI!Organization
    <3>4. org \in online
      BY <1>3, <2>3, <3>3 DEF CI!Ready
    <3>5. owner[r] = org
      BY <2>3, <3>1 DEF Among
    <3>6. QED
      BY <1>1, <3>4, <3>5 DEF SeenOK
  <2>4. FoundOK(k, owner)
    BY <1>1, <2>1, <2>3 DEF FoundOK
  <2>5. SwitchOK(k, hub, owner)
    BY <1>1, <2>1 DEF SwitchOK, FoundOK
  <2>6. PushOK(k, hub, source.mode)
    BY <1>1, <2>1 DEF PushOK
  <2>7. Sound(k, hub, owner, online, source.mode)
    BY <2>1, <2>2, <2>4, <2>5, <2>6 DEF Sound, CIInv
  <2>8. QED
    BY <1>3, <2>7, BecomesKeeps
<1>4. QED
  BY <1>2, <1>3 DEF CI!Pool

(* A repository of which the runner alone is switched. *)
LEMMA SwitchedKeeps ==
  ASSUME CIInv, switch.at = "each", switch.left # <<>>,
         switch.cmd \in {"vps", "github"}, NEW h, NEW r, r = Head(switch.left),
         h = [hub EXCEPT ![r] = [hub[r] EXCEPT !.runner = Goal(switch.cmd)]]
  PROVE  /\ Sound(switch, h, owner, online, source.mode)
         /\ r \in CINames /\ h[r].runner = Goal(switch.cmd)
         /\ \A x \in CINames : h[x] = hub[x] \/ h[x].runner = Goal(switch.cmd)
<1>1. /\ switch \in Switches /\ switch.left \in Seq(CINames) /\ hub \in Hubs
      /\ StageOK(switch) /\ SeenOK(switch, hub, online) /\ FoundOK(switch, owner)
      /\ SwitchOK(switch, hub, owner)
  BY DEF CIInv, Sound, Switches
<1>2. r \in CINames /\ r \in Among(switch.left)
  BY <1>1, AmongTail
<1>3. hub[r] \in [private : BOOLEAN, runner : {None, "vps"}, secrets : Secrets]
  BY <1>1, <1>2 DEF Hubs
<1> DEFINE e == [hub[r] EXCEPT !.runner = Goal(switch.cmd)]
<1>4. /\ e \in [private : BOOLEAN, runner : {None, "vps"}, secrets : Secrets]
      /\ e.private = hub[r].private /\ e.runner = Goal(switch.cmd)
  BY <1>3 DEF Goal
<1>5. h = [hub EXCEPT ![r] = e]
  OBVIOUS
<1> HIDE DEF e
<1>6. /\ h \in Hubs /\ h[r] = e /\ \A x \in CINames : x # r => h[x] = hub[x]
  BY <1>1, <1>2, <1>4, <1>5 DEF Hubs
<1>7. \A x \in CINames : h[x].private = hub[x].private
  BY <1>4, <1>6
<1>8. Aimed(h, owner) = Aimed(hub, owner)
  BY <1>7 DEF Aimed
<1>9. SeenOK(switch, h, online)
  BY <1>1, <1>7 DEF SeenOK
<1>10. SwitchOK(switch, h, owner)
  <2> SUFFICES ASSUME switch.clean PROVE SwitchOK(switch, h, owner)
    BY DEF SwitchOK
  <2>1. Among(switch.repos) = Aimed(hub, owner) /\ r \in Aimed(hub, owner)
    BY <1>1, <1>2, CIFacts DEF SwitchOK, FoundOK
  <2>2. \A x \in CINames \ Aimed(h, owner) : h[x] = switch.before[x]
    BY <1>1, <1>6, <1>8, <2>1 DEF SwitchOK
  <2>3. \A x \in Aimed(h, owner) :
          x \in Among(switch.left) \/ Settled(switch, h, x)
    BY <1>1, <1>4, <1>6, <1>8 DEF SwitchOK, Aimed, Settled
  <2>4. \A x \in CINames : h[x].runner \in {Goal(switch.cmd), switch.before[x].runner}
    BY <1>1, <1>4, <1>6 DEF SwitchOK
  <2>5. QED
    BY <1>8, <2>1, <2>2, <2>3, <2>4 DEF SwitchOK
<1>11. PushOK(switch, h, source.mode)
  BY CIFacts DEF PushOK
<1>12. QED
  BY <1>1, <1>2, <1>4, <1>6, <1>9, <1>10, <1>11 DEF Sound, CIInv

(* Going on past a repository that is as it is to be, or whose variable    *)
(* was taken for absent.                                                   *)
LEMMA OnwardSwitch ==
  ASSUME NEW h, Sound(switch, h, owner, online, source.mode),
         switch.at = "each", switch.left # <<>>,
         NEW said \in SUBSET CINames, NEW gone \in SUBSET CINames,
         switch.absent \subseteq gone,
         NEW k, k = [switch EXCEPT !.left = Tail(switch.left), !.told = said, !.absent = gone],
         switch.clean /\ switch.cmd \in {"vps", "github"} =>
           Settled(k, h, Head(switch.left))
  PROVE  Sound(k, h, owner, online, source.mode)
<1>1. /\ switch \in Switches /\ switch.left \in Seq(CINames)
      /\ switch.cmd \in {"vps", "github", "status"}
      /\ StageOK(switch) /\ SeenOK(switch, h, online) /\ FoundOK(switch, owner)
      /\ SwitchOK(switch, h, owner)
  BY DEF Sound, Switches, StageOK
<1>2. /\ Tail(switch.left) \in Seq(CINames)
      /\ Among(Tail(switch.left)) \subseteq Among(switch.left)
      /\ Among(switch.left) \subseteq Among(Tail(switch.left)) \union {Head(switch.left)}
  BY <1>1, AmongTail
<1>3. /\ k \in Switches /\ k.at = "each" /\ k.cmd = switch.cmd
      /\ k.left = Tail(switch.left) /\ k.repos = switch.repos /\ k.seen = switch.seen
      /\ k.clean = switch.clean /\ k.before = switch.before /\ k.absent = gone
  BY <1>1, <1>2 DEF Switches
<1>4. StageOK(k) /\ SeenOK(k, h, online)
  BY <1>1, <1>3 DEF StageOK, SeenOK
<1>5. FoundOK(k, owner)
  BY <1>1, <1>2, <1>3 DEF FoundOK
<1>6. \A r : Settled(switch, h, r) => Settled(k, h, r)
  BY <1>3 DEF Settled
<1>7. SwitchOK(k, h, owner)
  BY <1>1, <1>2, <1>3, <1>6 DEF SwitchOK
<1>8. PushOK(k, h, source.mode)
  BY <1>1, <1>3 DEF PushOK
<1>9. QED
  BY <1>3, <1>4, <1>5, <1>7, <1>8 DEF Sound

LEMMA OnwardFields ==
  ASSUME CIInv
  PROVE  CI!Onward(switch) = [switch EXCEPT !.left = Tail(switch.left), !.told = switch.told,
                                            !.absent = switch.absent]
<1>1. switch \in Switches
  BY DEF CIInv, Sound
<1>2. QED
  BY ONLY <1>1 DEF Switches, CI!Onward

(* A step of the switch changes this repository alone, and goes on or ends. *)
LEMMA EachIs ==
  ASSUME CIInv, CI!Pin \/ CI!Unpin
  PROVE  LET r == Head(switch.left)
             full == [hub EXCEPT ![r] = [hub[r] EXCEPT !.runner = Goal(switch.cmd)]]
         IN /\ switch.at = "each" /\ switch.left # <<>> /\ switch.cmd \in {"vps", "github"}
            /\ owner' = owner /\ online' = online /\ source' = source /\ keys' = keys
            /\ turns' = turns /\ hub' \in {full, hub}
            /\ \/ hub' = full /\ switch' = CI!Onward(switch)
               \/ switch' = [switch EXCEPT !.at = "failed"]
               \/ /\ switch.cmd = "github"
                  /\ switch' = [CI!Onward(switch) EXCEPT !.absent = @ \union {r}]
<1> DEFINE r == Head(switch.left)
           after == [hub[r] EXCEPT !.runner = Goal(switch.cmd)]
<1>1. /\ switch.at = "each" /\ switch.left # <<>> /\ switch.cmd \in {"vps", "github"}
      /\ \/ CI!Call(r, after, CI!Onward(switch))
         \/ switch.cmd = "github" /\ CI!Missing(r, after)
  BY DEF CI!Pin, CI!Unpin, CI!Each, Goal
<1> HIDE DEF after
<1>2. CASE CI!Call(r, after, CI!Onward(switch))
  BY <1>1, <1>2 DEF CI!Call, after
<1>3. CASE switch.cmd = "github" /\ CI!Missing(r, after)
  BY <1>1, <1>3 DEF CI!Missing, after
<1>4. QED
  BY <1>1, <1>2, <1>3

LEMMA EachKeeps ==
  ASSUME CIInv, CI!Pin \/ CI!Unpin
  PROVE  CIInv'
<1> DEFINE r == Head(switch.left)
           full == [hub EXCEPT ![r] = [hub[r] EXCEPT !.runner = Goal(switch.cmd)]]
           gone == switch.absent \union {r}
<1>1. /\ switch.at = "each" /\ switch.left # <<>> /\ switch.cmd \in {"vps", "github"}
      /\ owner' = owner /\ online' = online /\ source' = source /\ keys' = keys
      /\ turns' = turns /\ hub' \in {full, hub}
      /\ \/ hub' = full /\ switch' = CI!Onward(switch)
         \/ switch' = [switch EXCEPT !.at = "failed"]
         \/ /\ switch.cmd = "github"
            /\ switch' = [CI!Onward(switch) EXCEPT !.absent = @ \union {r}]
  BY EachIs
<1>2. /\ Sound(switch, full, owner, online, source.mode)
      /\ full[r].runner = Goal(switch.cmd) /\ r \in CINames
  BY <1>1, SwitchedKeeps
<1> HIDE DEF full
<1>3. /\ Sound(switch, hub', owner, online, source.mode) /\ switch \in Switches
      /\ switch.told \in SUBSET CINames /\ switch.absent \in SUBSET CINames
  BY <1>1, <1>2 DEF CIInv, Sound, Switches
<1>4. CASE hub' = full /\ switch' = CI!Onward(switch)
  <2> DEFINE k == [switch EXCEPT !.left = Tail(switch.left), !.told = switch.told,
                                 !.absent = switch.absent]
  <2>1. k = switch' /\ k.cmd = switch.cmd
    BY <1>3, <1>4, OnwardFields DEF Switches
  <2>2. Settled(k, hub', r)
    BY <1>2, <1>4, <2>1 DEF Settled
  <2>3. Sound(k, hub', owner, online, source.mode)
    BY <1>1, <1>3, <2>2, OnwardSwitch
  <2>4. QED
    BY <1>1, <2>1, <2>3 DEF CIInv
<1>5. CASE switch' = [switch EXCEPT !.at = "failed"]
  <2>1. Sound([switch EXCEPT !.at = "failed"], hub', owner, online, source.mode)
    BY <1>1, <1>3, FailsKeeps
  <2>2. QED
    BY <1>1, <1>5, <2>1 DEF CIInv
<1>6. CASE /\ switch.cmd = "github"
           /\ switch' = [CI!Onward(switch) EXCEPT !.absent = @ \union {r}]
  <2> DEFINE k == [switch EXCEPT !.left = Tail(switch.left), !.told = switch.told,
                                 !.absent = gone]
  <2>1. k = switch'
    BY <1>3, <1>6, OnwardFields DEF Switches
  <2>2. Settled(k, hub', r)
    <3>1. k.cmd = "github" /\ k.absent = gone
      BY <1>3, <1>6 DEF Switches
    <3>2. QED
      BY <3>1 DEF Settled
  <2>3. gone \in SUBSET CINames /\ switch.absent \subseteq gone
    BY <1>2, <1>3
  <2> HIDE DEF gone
  <2>4. Sound(k, hub', owner, online, source.mode)
    BY <1>1, <1>3, <2>2, <2>3, OnwardSwitch
  <2>5. QED
    BY <1>1, <2>1, <2>4 DEF CIInv
<1>7. QED
  BY <1>1, <1>4, <1>5, <1>6

LEMMA ReportKeeps ==
  ASSUME CIInv, CI!Report
  PROVE  CIInv'
<1> DEFINE r == Head(switch.left)
           said == switch.told \union {r}
<1>1. /\ switch.at = "each" /\ switch.left # <<>> /\ switch.cmd = "status"
      /\ \/ CI!Becomes([CI!Onward(switch) EXCEPT !.told = @ \union {r}])
         \/ CI!Becomes(CI!Onward(switch))
  BY DEF CI!Report, CI!Each
<1>2. /\ Sound(switch, hub, owner, online, source.mode)
      /\ switch \in Switches /\ switch.told \in SUBSET CINames
      /\ switch.left \in Seq(CINames) /\ switch.absent \in SUBSET CINames
  BY DEF CIInv, Sound, Switches
<1>3. said \in SUBSET CINames
  BY <1>1, <1>2
<1>4. PICK t \in SUBSET CINames :
        CI!Becomes([switch EXCEPT !.left = Tail(switch.left), !.told = t,
                                  !.absent = switch.absent])
  <2>1. [CI!Onward(switch) EXCEPT !.told = @ \union {r}] =
          [switch EXCEPT !.left = Tail(switch.left), !.told = said, !.absent = switch.absent]
    BY <1>2, OnwardFields DEF Switches
  <2>2. QED
    BY <1>1, <1>2, <1>3, <2>1, OnwardFields
<1>5. Sound([switch EXCEPT !.left = Tail(switch.left), !.told = t, !.absent = switch.absent],
            hub, owner, online, source.mode)
  BY <1>1, <1>2, OnwardSwitch
<1>6. QED
  BY <1>4, <1>5, BecomesKeeps

LEMMA FinishKeeps ==
  ASSUME CIInv, CI!Finish
  PROVE  CIInv'
<1> DEFINE k == [switch EXCEPT !.at = "done"]
<1>1. /\ switch \in Switches /\ switch.at = "each" /\ switch.left = <<>>
      /\ switch.cmd \in {"vps", "github", "status"}
      /\ StageOK(switch) /\ SeenOK(switch, hub, online) /\ FoundOK(switch, owner)
      /\ SwitchOK(switch, hub, owner) /\ CI!Becomes(k)
  BY DEF CI!Finish, CIInv, Sound, StageOK
<1>2. /\ k \in Switches /\ k.at = "done" /\ k.cmd = switch.cmd
      /\ k.left = switch.left /\ k.repos = switch.repos /\ k.seen = switch.seen
      /\ k.clean = switch.clean /\ k.before = switch.before /\ k.absent = switch.absent
  BY <1>1 DEF Switches
<1> HIDE DEF k
<1>3. StageOK(k) /\ SeenOK(k, hub, online) /\ FoundOK(k, owner)
  BY <1>1, <1>2 DEF StageOK, SeenOK, FoundOK
<1>4. SwitchOK(k, hub, owner)
  BY <1>1, <1>2, CIFacts DEF SwitchOK, Settled
<1>5. PushOK(k, hub, source.mode)
  BY <1>1, <1>2 DEF PushOK
<1>6. Sound(k, hub, owner, online, source.mode)
  BY <1>2, <1>3, <1>4, <1>5 DEF Sound, CIInv
<1>7. QED
  BY <1>1, <1>6, BecomesKeeps

LEMMA DistinctTail ==
  ASSUME NEW S, NEW s \in Seq(S), s # <<>>, Distinct(s)
  PROVE  Distinct(Tail(s)) /\ Head(s) \notin Among(Tail(s))
<1>1. /\ Head(s) = s[1] /\ Len(s) \in Nat /\ Len(s) > 0
      /\ DOMAIN s = 1..Len(s) /\ DOMAIN Tail(s) = 1..(Len(s) - 1)
      /\ \A i \in 1..(Len(s) - 1) : Tail(s)[i] = s[i + 1]
  OBVIOUS
<1> DEFINE t == Tail(s)
<1>2. /\ DOMAIN t = 1..(Len(s) - 1) /\ \A i \in 1..(Len(s) - 1) : t[i] = s[i + 1]
  BY <1>1
<1> HIDE DEF t
<1>3. ASSUME NEW i \in DOMAIN t, NEW j \in DOMAIN t, t[i] = t[j] PROVE i = j
  <2>1. /\ i \in Nat /\ j \in Nat /\ i + 1 \in DOMAIN s /\ j + 1 \in DOMAIN s
        /\ s[i + 1] = s[j + 1]
    BY <1>1, <1>2, <1>3
  <2>2. i + 1 = j + 1
    BY <2>1 DEF Distinct
  <2>3. QED
    BY <2>1, <2>2
<1>4. ASSUME NEW i \in DOMAIN t, t[i] = Head(s) PROVE FALSE
  <2>1. /\ i \in Nat /\ i >= 1 /\ i + 1 \in DOMAIN s /\ 1 \in DOMAIN s /\ s[i + 1] = s[1]
    BY <1>1, <1>2, <1>4
  <2>2. i + 1 = 1
    BY <2>1 DEF Distinct
  <2>3. QED
    BY <2>1, <2>2
<1>5. QED
  BY <1>3, <1>4 DEF t, Distinct, Among

(* Going on past a repository that has its secrets, or is to have none.    *)
LEMMA OnwardPush ==
  ASSUME CIInv, switch.cmd = "sync", switch.at \in {"check", "put"}, switch.left # <<>>,
         NEW k, k = [switch EXCEPT !.left = Tail(switch.left), !.at = "check"],
         switch.clean /\ CI!Selected(Head(switch.left), switch.wanted) =>
           \A i \in DOMAIN CISecrets[Head(switch.left)] :
             Has(hub, Head(switch.left), CISecrets[Head(switch.left)][i])
  PROVE  Sound(k, hub, owner, online, source.mode)
<1>1. /\ switch \in Switches /\ switch.left \in Seq(CINames)
      /\ StageOK(switch) /\ SeenOK(switch, hub, online)
      /\ PushOK(switch, hub, source.mode)
  BY DEF CIInv, Sound, Switches
<1>2. /\ Tail(switch.left) \in Seq(CINames)
      /\ Among(Tail(switch.left)) \subseteq Among(switch.left)
      /\ Among(switch.left) \subseteq Among(Tail(switch.left)) \union {Head(switch.left)}
      /\ Distinct(Tail(switch.left)) /\ Head(switch.left) \notin Among(Tail(switch.left))
  BY <1>1, AmongTail, DistinctTail DEF PushOK
<1>3. /\ k \in Switches /\ k.at = "check" /\ k.cmd = "sync" /\ k.wanted = switch.wanted
      /\ k.left = Tail(switch.left) /\ k.repos = switch.repos /\ k.seen = switch.seen
      /\ k.clean = switch.clean /\ k.before = switch.before
  BY <1>1, <1>2 DEF Switches
<1>4. StageOK(k) /\ SeenOK(k, hub, online)
  BY <1>1, <1>3 DEF StageOK, SeenOK
<1>5. FoundOK(k, owner) /\ SwitchOK(k, hub, owner)
  BY <1>3 DEF FoundOK, SwitchOK
<1>6. \A r : Waiting(k, r) => Waiting(switch, r)
  BY <1>2, <1>3 DEF Waiting
<1>7. k.clean => \A r \in Among(k.repos) \ Among(k.left) : CI!Selected(r, k.wanted) =>
                   \A i \in DOMAIN CISecrets[r] : Has(hub, r, CISecrets[r][i])
  <2> SUFFICES ASSUME k.clean, NEW r \in Among(k.repos) \ Among(k.left),
                      CI!Selected(r, k.wanted)
               PROVE  \A i \in DOMAIN CISecrets[r] : Has(hub, r, CISecrets[r][i])
    OBVIOUS
  <2>1. CASE r = Head(switch.left)
    BY <1>3, <2>1
  <2>2. CASE r # Head(switch.left)
    <3>1. r \in Among(switch.repos) \ Among(switch.left)
      BY <1>2, <1>3, <2>2
    <3>2. QED
      BY <1>1, <1>3, <3>1 DEF PushOK
  <2>3. QED
    BY <2>1, <2>2
<1>8. PushOK(k, hub, source.mode)
  BY <1>1, <1>2, <1>3, <1>6, <1>7 DEF PushOK
<1>9. QED
  BY <1>3, <1>4, <1>5, <1>8 DEF Sound, CIInv

(* Every value that is collected may be set. *)
LEMMA CollectedValues ==
  ASSUME CIInv, NEW r \in CINames, CI!Valid(switch, r), switch.value \in {None, 0, 1},
         NEW names, names = [ i \in DOMAIN CISecrets[r] |->
                                <<CISecrets[r][i], CI!Value(switch, r, CISecrets[r][i])>> ]
  PROVE  /\ names \in Seq(Pairs)
         /\ \A i \in DOMAIN CISecrets[r] : CISecrets[r][i] \in Firsts(names)
<1>1. CISecrets[r] \in Seq(STRING)
  BY CIFacts
<1>2. ASSUME NEW i \in DOMAIN CISecrets[r]
      PROVE  <<CISecrets[r][i], CI!Value(switch, r, CISecrets[r][i])>> \in Pairs
  <2> DEFINE name == CISecrets[r][i]
             v == CI!Value(switch, r, name)
  <2>1. name \in STRING
    BY <1>1
  <2>2. v # None /\ (name # DeployKeySecret => v # 0)
    BY DEF CI!Valid
  <2>3. v \in {None, 0, 1}
    BY DEF CI!Value, CIInv
  <2> HIDE DEF name, v
  <2>4. v \in 0..1
    BY <2>2, <2>3
  <2>5. <<name, v>> \in Pairs
    BY <2>1, <2>2, <2>4 DEF Pairs
  <2>6. QED
    BY <2>5 DEF name, v
<1> DEFINE F(i) == <<CISecrets[r][i], CI!Value(switch, r, CISecrets[r][i])>>
<1>3. /\ \A i \in DOMAIN CISecrets[r] : F(i) \in Pairs /\ F(i)[1] = CISecrets[r][i]
      /\ names = [i \in DOMAIN CISecrets[r] |-> F(i)]
      /\ Len(CISecrets[r]) \in Nat /\ DOMAIN CISecrets[r] = 1..Len(CISecrets[r])
  BY <1>1, <1>2
<1> HIDE DEF F
<1>4. names \in Seq(Pairs) /\ DOMAIN names = DOMAIN CISecrets[r]
  BY <1>3
<1>5. ASSUME NEW i \in DOMAIN CISecrets[r] PROVE CISecrets[r][i] \in Firsts(names)
  <2>1. names[i] \in Among(names) /\ names[i][1] = CISecrets[r][i]
    BY <1>3, <1>4 DEF Among
  <2>2. QED
    BY <2>1 DEF Firsts
<1>6. QED
  BY <1>4, <1>5

LEMMA CollectKeeps ==
  ASSUME CIInv, CI!Collect
  PROVE  CIInv'
<1> DEFINE r == Head(switch.left)
           names == [ i \in DOMAIN CISecrets[r] |->
                        <<CISecrets[r][i], CI!Value(switch, r, CISecrets[r][i])>> ]
           k == [switch EXCEPT !.at = "put", !.names = names]
<1>1. /\ switch \in Switches /\ switch.at = "check" /\ switch.left # <<>>
      /\ switch.left \in Seq(CINames) /\ switch.cmd = "sync" /\ switch.value \in {None, 0, 1}
      /\ StageOK(switch) /\ SeenOK(switch, hub, online)
      /\ PushOK(switch, hub, source.mode)
  BY DEF CI!Collect, CIInv, Sound, Switches, StageOK
<1>2. CASE ~CI!Selected(r, switch.wanted) /\ CI!Becomes(CI!Onward(switch))
  <2>1. CI!Onward(switch) = [switch EXCEPT !.left = Tail(switch.left), !.at = "check"]
    BY <1>1 DEF CI!Onward, Switches
  <2>2. Sound(CI!Onward(switch), hub, owner, online, source.mode)
    BY <1>1, <1>2, <2>1, OnwardPush
  <2>3. QED
    BY <1>2, <2>2, BecomesKeeps
<1>3. CASE CI!Fails
  BY <1>1, <1>3, FailKeeps
<1>4. CASE CI!Selected(r, switch.wanted) /\ CI!Valid(switch, r) /\ CI!Becomes(k)
  <2>1. r \in CINames
    BY <1>1
  <2>2. /\ names \in Seq(Pairs)
        /\ \A i \in DOMAIN CISecrets[r] : CISecrets[r][i] \in Firsts(names)
    BY <1>1, <1>4, <2>1, CollectedValues
  <2> HIDE DEF names
  <2>3. /\ k \in Switches /\ k.at = "put" /\ k.cmd = "sync" /\ k.wanted = switch.wanted
        /\ k.left = switch.left /\ k.repos = switch.repos /\ k.seen = switch.seen
        /\ k.clean = switch.clean /\ k.before = switch.before /\ k.names = names
    BY <1>1, <2>2 DEF Switches
  <2> HIDE DEF k
  <2>4. StageOK(k) /\ SeenOK(k, hub, online)
    BY <1>1, <2>3 DEF StageOK, SeenOK
  <2>5. FoundOK(k, owner) /\ SwitchOK(k, hub, owner)
    BY <2>3 DEF FoundOK, SwitchOK
  <2>6. \A x : Waiting(k, x) => Waiting(switch, x)
    BY <2>3 DEF Waiting
  <2>7. PushOK(k, hub, source.mode)
    BY <1>1, <1>4, <2>2, <2>3, <2>6 DEF PushOK
  <2>8. Sound(k, hub, owner, online, source.mode)
    BY <2>3, <2>4, <2>5, <2>7 DEF Sound, CIInv
  <2>9. QED
    BY <1>4, <2>8, BecomesKeeps
<1>5. QED
  BY <1>2, <1>3, <1>4 DEF CI!Collect

(* The secrets with one more, or one changed. *)
With(secrets, pair) ==
  [ n \in DOMAIN secrets \union {pair[1]} |->
      IF n = pair[1] THEN pair[2] ELSE secrets[n] ]

(* A secret is set: nothing else of GitHub changes. *)
LEMMA SetKeeps ==
  ASSUME CIInv, switch.at = "put", switch.names # <<>>,
         NEW h, NEW r, r = Head(switch.left),
         h = [hub EXCEPT ![r] = [hub[r] EXCEPT
                !.secrets = With(hub[r].secrets, Head(switch.names))]]
  PROVE  /\ Sound(switch, h, owner, online, source.mode)
         /\ Has(h, r, Head(switch.names)[1]) /\ r \in CINames
         /\ \A x \in CINames : h[x].runner = hub[x].runner
<1> DEFINE name == Head(switch.names)[1]
           value == Head(switch.names)[2]
           set == With(hub[r].secrets, Head(switch.names))
<1>a. /\ set = [n \in DOMAIN hub[r].secrets \union {name} |->
                  IF n = name THEN value ELSE hub[r].secrets[n]]
      /\ h = [hub EXCEPT ![r] = [hub[r] EXCEPT !.secrets = set]]
  BY DEF With
<1>b. switch \in Switches => (Head(switch.names) \in Pairs =>
        name \in STRING /\ value \in 0..1 /\ (name # DeployKeySecret => value # 0))
  BY DEF Pairs
<1> HIDE DEF name, value, set
<1>1. /\ switch \in Switches /\ switch.left \in Seq(CINames) /\ hub \in Hubs
      /\ switch.names \in Seq(Pairs) /\ switch.cmd = "sync"
      /\ StageOK(switch) /\ SeenOK(switch, hub, online)
      /\ PushOK(switch, hub, source.mode)
      /\ switch.left # <<>> /\ CI!Selected(r, switch.wanted) /\ source.mode = 384
  BY DEF CIInv, Sound, Switches, StageOK, PushOK
<1>2. r \in CINames /\ r \in Among(switch.left)
  BY <1>1, AmongTail
<1>3. Head(switch.names) \in Pairs
  BY <1>1
<1>4. name \in STRING /\ value \in 0..1 /\ (name # DeployKeySecret => value # 0)
  BY <1>1, <1>3, <1>b
<1>5. hub[r] \in [private : BOOLEAN, runner : {None, "vps"}, secrets : Secrets]
  BY <1>1, <1>2 DEF Hubs
<1>6. PICK D \in SUBSET STRING : hub[r].secrets \in [D -> 0..1]
  BY <1>5 DEF Secrets
<1>7. /\ set \in [D \union {name} -> 0..1] /\ D \union {name} \in SUBSET STRING
      /\ DOMAIN hub[r].secrets = D
      /\ set[name] = value /\ \A n \in D : n # name => set[n] = hub[r].secrets[n]
  BY <1>4, <1>6, <1>a
<1>8. set \in Secrets
  BY <1>7 DEF Secrets
<1> DEFINE e == [hub[r] EXCEPT !.secrets = set]
<1>9. /\ e \in [private : BOOLEAN, runner : {None, "vps"}, secrets : Secrets]
      /\ e.private = hub[r].private /\ e.runner = hub[r].runner /\ e.secrets = set
  BY <1>5, <1>8
<1>10. h = [hub EXCEPT ![r] = e]
  BY <1>a
<1> HIDE DEF e
<1>11. /\ h \in Hubs /\ h[r] = e /\ \A x \in CINames : x # r => h[x] = hub[x]
  <2>1. /\ hub \in [CINames -> [private : BOOLEAN, runner : {None, "vps"}, secrets : Secrets]]
        /\ e \in [private : BOOLEAN, runner : {None, "vps"}, secrets : Secrets]
    BY <1>1, <1>9 DEF Hubs
  <2>2. h \in [CINames -> [private : BOOLEAN, runner : {None, "vps"}, secrets : Secrets]]
    BY <1>2, <1>10, <2>1
  <2>3. QED
    BY <1>2, <1>10, <2>1, <2>2 DEF Hubs
<1>12. \A x \in CINames : h[x].private = hub[x].private /\ h[x].runner = hub[x].runner
  BY <1>9, <1>11
<1>13. Has(h, r, name)
  BY <1>4, <1>7, <1>9, <1>11 DEF Has
<1>14. ASSUME NEW x \in CINames, NEW n, Has(hub, x, n) PROVE Has(h, x, n)
  <2>1. CASE x # r
    BY <1>11, <1>14, <2>1 DEF Has
  <2>2. CASE x = r /\ n # name
    BY <1>7, <1>9, <1>11, <1>14, <2>2 DEF Has
  <2>3. CASE x = r /\ n = name
    BY <1>13, <2>3
  <2>4. QED
    BY <2>1, <2>2, <2>3
<1>15. SeenOK(switch, h, online)
  BY <1>1, <1>12 DEF SeenOK
<1>16. FoundOK(switch, owner) /\ SwitchOK(switch, h, owner)
  BY <1>1 DEF FoundOK, SwitchOK
<1>17. PushOK(switch, h, source.mode)
  <2>1. Among(switch.repos) \subseteq CINames
    BY <1>1 DEF Switches, Among
  <2>2. ASSUME switch.clean, NEW x \in Among(switch.repos) \ Among(switch.left),
               CI!Selected(x, switch.wanted), NEW i \in DOMAIN CISecrets[x]
        PROVE  Has(h, x, CISecrets[x][i])
    BY <1>1, <1>14, <2>1, <2>2 DEF PushOK
  <2>3. ASSUME switch.clean, NEW x \in CINames, Waiting(switch, x)
        PROVE  h[x] = switch.before[x]
    <3>1. CASE x = r /\ r \in Among(switch.repos)
      BY <1>1, <2>3, <3>1 DEF Waiting
    <3>2. CASE x # r
      BY <1>1, <1>11, <2>3, <3>2 DEF PushOK
    <3>3. r \in Among(switch.repos)
      BY <1>1, <1>2 DEF PushOK
    <3>4. QED
      BY <3>1, <3>2, <3>3
  <2>4. ASSUME switch.clean, NEW i \in DOMAIN CISecrets[r]
        PROVE  Has(h, r, CISecrets[r][i]) \/ CISecrets[r][i] \in Firsts(switch.names)
    BY <1>1, <1>2, <1>14, <2>4 DEF PushOK
  <2>5. QED
    BY <1>1, <2>2, <2>3, <2>4 DEF PushOK
<1>18. QED
  BY <1>1, <1>2, <1>11, <1>12, <1>13, <1>15, <1>16, <1>17 DEF Sound, CIInv, name

(* One secret less is to come. *)
LEMMA NamesTail ==
  ASSUME NEW s \in Seq(Pairs), s # <<>>
  PROVE  /\ Tail(s) \in Seq(Pairs)
         /\ Firsts(s) \subseteq Firsts(Tail(s)) \union {Head(s)[1]}
<1>1. Tail(s) \in Seq(Pairs) /\ Among(s) \subseteq Among(Tail(s)) \union {Head(s)}
  BY AmongTail
<1>2. QED
  BY <1>1 DEF Firsts

LEMMA PutKeeps ==
  ASSUME CIInv, CI!Put
  PROVE  /\ CIInv'
         /\ \A x \in CINames : hub'[x].runner = hub[x].runner
<1> DEFINE r == Head(switch.left)
           name == Head(switch.names)[1]
           full == [hub EXCEPT ![r] = [hub[r] EXCEPT
                      !.secrets = With(hub[r].secrets, Head(switch.names))]]
           k == [switch EXCEPT !.names = Tail(@)]
<1>1. /\ switch.at = "put" /\ switch.names # <<>>
      /\ CI!Call(r, [hub[r] EXCEPT !.secrets =
                       With(hub[r].secrets, Head(switch.names))], k)
  BY DEF CI!Put, With
<1>2. /\ owner' = owner /\ online' = online /\ source' = source /\ keys' = keys
      /\ turns' = turns
      /\ \/ hub' = full /\ switch' = k
         \/ hub' \in {full, hub} /\ switch' = [switch EXCEPT !.at = "failed"]
  BY <1>1 DEF CI!Call
<1>3. /\ Sound(switch, full, owner, online, source.mode)
      /\ Has(full, r, name)
      /\ \A x \in CINames : full[x].runner = hub[x].runner
  BY <1>1, SetKeeps
<1> HIDE DEF full
<1>4. /\ switch \in Switches /\ switch.names \in Seq(Pairs) /\ switch.cmd = "sync"
      /\ StageOK(switch) /\ SeenOK(switch, full, online)
      /\ PushOK(switch, full, source.mode)
  BY <1>1, <1>3 DEF Sound, Switches, StageOK
<1>5. /\ Tail(switch.names) \in Seq(Pairs)
      /\ Firsts(switch.names) \subseteq Firsts(Tail(switch.names)) \union {name}
  BY <1>1, <1>4, NamesTail
<1>6. Sound(k, full, owner, online, source.mode)
  <2>1. /\ k \in Switches /\ k.at = "put" /\ k.cmd = "sync" /\ k.wanted = switch.wanted
        /\ k.left = switch.left /\ k.repos = switch.repos /\ k.seen = switch.seen
        /\ k.clean = switch.clean /\ k.before = switch.before
        /\ k.names = Tail(switch.names)
    BY <1>1, <1>4, <1>5 DEF Switches
  <2> HIDE DEF k
  <2>2. StageOK(k) /\ SeenOK(k, full, online)
    BY <1>1, <1>4, <2>1 DEF StageOK, SeenOK
  <2>3. FoundOK(k, owner) /\ SwitchOK(k, full, owner)
    BY <2>1 DEF FoundOK, SwitchOK
  <2>4. \A x : Waiting(k, x) => Waiting(switch, x)
    BY <2>1 DEF Waiting
  <2>5. ASSUME switch.clean, NEW i \in DOMAIN CISecrets[r]
        PROVE  \/ Has(full, r, CISecrets[r][i])
               \/ CISecrets[r][i] \in Firsts(Tail(switch.names))
    <3>1. \/ Has(full, r, CISecrets[r][i])
          \/ CISecrets[r][i] \in Firsts(switch.names)
      BY <1>1, <1>4, <2>5 DEF PushOK
    <3>2. QED
      BY <1>3, <1>5, <3>1
  <2>6. PushOK(k, full, source.mode)
    BY <1>1, <1>4, <2>1, <2>4, <2>5 DEF PushOK
  <2>7. QED
    BY <1>3, <2>1, <2>2, <2>3, <2>6 DEF Sound
<1> HIDE DEF k
<1>7. Sound(switch', hub', owner', online', source'.mode)
  <2>1. CASE hub' = full /\ switch' = k
    BY <1>2, <1>6, <2>1
  <2>2. CASE hub' \in {full, hub} /\ switch' = [switch EXCEPT !.at = "failed"]
    <3>1. Sound(switch, hub', owner, online, source.mode)
      BY <1>3, <2>2 DEF CIInv
    <3>2. Sound([switch EXCEPT !.at = "failed"], hub', owner, online, source.mode)
      BY <1>1, <3>1, FailsKeeps
    <3>3. QED
      BY <1>2, <2>2, <3>2
  <2>3. QED
    BY <1>2, <2>1, <2>2
<1>8. QED
  BY <1>2, <1>3, <1>7 DEF CIInv

LEMMA NextRepoKeeps ==
  ASSUME CIInv, CI!NextRepo
  PROVE  CIInv'
<1> DEFINE k == [CI!Onward(switch) EXCEPT !.at = "check"]
<1>1. /\ switch \in Switches /\ switch.at = "put" /\ switch.names = <<>>
      /\ switch.cmd = "sync" /\ PushOK(switch, hub, source.mode) /\ CI!Becomes(k)
  BY DEF CI!NextRepo, CIInv, Sound, StageOK
<1>2. switch.left # <<>>
  BY <1>1 DEF PushOK
<1>3. k = [switch EXCEPT !.left = Tail(switch.left), !.at = "check"]
  BY <1>1 DEF CI!Onward, Switches
<1>4. Firsts(switch.names) = {}
  BY <1>1, CIFacts DEF Firsts
<1>5. switch.clean => \A i \in DOMAIN CISecrets[Head(switch.left)] :
                        Has(hub, Head(switch.left), CISecrets[Head(switch.left)][i])
  BY <1>1, <1>4 DEF PushOK
<1> HIDE DEF k
<1>6. Sound(k, hub, owner, online, source.mode)
  BY <1>1, <1>2, <1>3, <1>5, OnwardPush
<1>7. QED
  BY <1>1, <1>6, BecomesKeeps

LEMMA SyncedKeeps ==
  ASSUME CIInv, CI!Synced
  PROVE  CIInv'
<1> DEFINE k == [switch EXCEPT !.at = "done"]
<1>1. /\ switch \in Switches /\ switch.at = "check" /\ switch.left = <<>>
      /\ switch.cmd = "sync" /\ StageOK(switch) /\ SeenOK(switch, hub, online)
      /\ PushOK(switch, hub, source.mode) /\ CI!Becomes(k)
  BY DEF CI!Synced, CIInv, Sound, StageOK
<1>2. /\ k \in Switches /\ k.at = "done" /\ k.cmd = "sync" /\ k.wanted = switch.wanted
      /\ k.left = switch.left /\ k.repos = switch.repos /\ k.seen = switch.seen
      /\ k.clean = switch.clean /\ k.before = switch.before
  BY <1>1 DEF Switches
<1> HIDE DEF k
<1>3. StageOK(k) /\ SeenOK(k, hub, online) /\ FoundOK(k, owner) /\ SwitchOK(k, hub, owner)
  BY <1>1, <1>2 DEF StageOK, SeenOK, FoundOK, SwitchOK
<1>4. \A x : Waiting(k, x) => Waiting(switch, x)
  BY <1>2 DEF Waiting
<1>5. PushOK(k, hub, source.mode)
  BY <1>1, <1>2, <1>4 DEF PushOK
<1>6. Sound(k, hub, owner, online, source.mode)
  BY <1>2, <1>3, <1>5 DEF Sound, CIInv
<1>7. QED
  BY <1>1, <1>6, BecomesKeeps

(* What others do is not the command's. *)
LEMMA OthersKeep ==
  ASSUME CIInv, CI!Others
  PROVE  CIInv'
<1> DEFINE seen == [ private |-> switch.seen.private \union {r \in CINames : hub'[r].private},
                     online |-> switch.seen.online \union online' ]
<1>1. /\ switch \in Switches /\ hub \in Hubs /\ online \subseteq {"orbit"}
      /\ owner \in [CINames -> {None, "orbit", "other"}] /\ CI!Names = CINames
      /\ StageOK(switch) /\ SeenOK(switch, hub, online) /\ FoundOK(switch, owner)
      /\ PushOK(switch, hub, source.mode) /\ turns \in 0..MaxTurns
  BY DEF CIInv, Sound, CI!Names
<1>2. /\ owner' = owner /\ source' = source /\ keys' = keys
      /\ turns < MaxTurns /\ turns' = turns + 1
      /\ \/ /\ \E r \in CINames : hub' \in { [hub EXCEPT ![r].private = ~@],
                                            [hub EXCEPT ![r].runner = "vps"],
                                            [hub EXCEPT ![r].runner = None] }
            /\ online' = online
         \/ online' = {"orbit"} \ online /\ hub' = hub
  BY <1>1 DEF CI!Others
<1>3. switch' = [switch EXCEPT !.clean = FALSE, !.seen = seen]
  BY <1>1 DEF CI!Others
<1>4. hub' \in Hubs /\ online' \subseteq {"orbit"}
  <2>1. CASE hub' = hub
    BY <1>1, <1>2, <2>1
  <2>2. ASSUME NEW r \in CINames,
               hub' \in { [hub EXCEPT ![r].private = ~@], [hub EXCEPT ![r].runner = "vps"],
                          [hub EXCEPT ![r].runner = None] }
        PROVE  hub' \in Hubs
    <3>1. PICK e : /\ hub' = [hub EXCEPT ![r] = e]
                   /\ \/ e = [hub[r] EXCEPT !.private = ~@]
                      \/ e = [hub[r] EXCEPT !.runner = "vps"]
                      \/ e = [hub[r] EXCEPT !.runner = None]
      BY <2>2
    <3>2. hub[r] \in [private : BOOLEAN, runner : {None, "vps"}, secrets : Secrets]
      BY <1>1 DEF Hubs
    <3>3. e \in [private : BOOLEAN, runner : {None, "vps"}, secrets : Secrets]
      BY <3>1, <3>2
    <3>4. QED
      BY <1>1, <3>1, <3>3 DEF Hubs
  <2>3. QED
    BY <1>1, <1>2, <2>1, <2>2
<1>5. /\ seen \in [private : SUBSET CINames, online : SUBSET {"orbit"}]
      /\ \A r \in CINames : hub'[r].private => r \in seen.private
      /\ online' \subseteq seen.online
      /\ switch.seen.private \subseteq seen.private
      /\ switch.seen.online \subseteq seen.online
  BY <1>1, <1>4 DEF Switches
<1> HIDE DEF seen
<1>6. /\ switch' \in Switches /\ switch'.at = switch.at /\ switch'.cmd = switch.cmd
      /\ switch'.wanted = switch.wanted /\ switch'.left = switch.left
      /\ switch'.repos = switch.repos /\ switch'.seen = seen /\ switch'.clean = FALSE
      /\ switch'.before = switch.before
  BY <1>1, <1>3, <1>5 DEF Switches
<1>7. StageOK(switch') /\ SeenOK(switch', hub', online')
  <2>1. StageOK(switch')
    BY <1>1, <1>6 DEF StageOK
  <2>2. SeenOK(switch', hub', online')
    BY <1>5, <1>6 DEF SeenOK
  <2>3. QED
    BY <2>1, <2>2
<1>8. FoundOK(switch', owner)
  <2>1. switch.cmd # "sync" => Among(switch.repos) \subseteq seen.private
    BY <1>1, <1>5 DEF FoundOK
  <2>2. switch.cmd # "sync" /\ switch.at = "each" /\ switch.cmd = "vps" =>
          \A r \in Among(switch.repos) : owner[r] \in seen.online
    BY <1>1, <1>5 DEF FoundOK
  <2>3. QED
    BY <1>1, <1>6, <2>1, <2>2 DEF FoundOK
<1>9. SwitchOK(switch', hub', owner) /\ PushOK(switch', hub', source.mode)
  BY <1>1, <1>6 DEF SwitchOK, PushOK
<1>10. turns' \in 0..MaxTurns
  BY <1>1, <1>2, HostAssumption
<1>11. Sound(switch', hub', owner', online', source'.mode)
  BY <1>2, <1>4, <1>6, <1>7, <1>8, <1>9 DEF Sound
<1>12. QED
  BY <1>2, <1>10, <1>11 DEF CIInv

LEMMA CIStep == CIInv /\ [CI!Next]_(CI!vars) => CIInv'
<1> SUFFICES ASSUME CIInv, [CI!Next]_(CI!vars) PROVE CIInv'
  OBVIOUS
<1>1. CASE CI!Others
  BY <1>1, OthersKeep
<1>2. ASSUME NEW mode \in {"vps", "github", "status"}, CI!Runner(mode) PROVE CIInv'
  BY <1>2, RunnerKeeps
<1>3. CASE CI!View \/ CI!Viewed \/ CI!Pool
  BY <1>3, ViewKeeps, ViewedKeeps, PoolKeeps
<1>4. CASE CI!Pin \/ CI!Unpin \/ CI!Report \/ CI!Finish
  BY <1>4, EachKeeps, ReportKeeps, FinishKeeps
<1>5. ASSUME NEW wanted \in CI!Names \union {None}, CI!Sync(wanted) PROVE CIInv'
  BY <1>5, SyncKeeps DEF CIInv, CI!Names
<1>6. CASE CI!Collect \/ CI!Put \/ CI!NextRepo \/ CI!Synced
  BY <1>6, CollectKeeps, PutKeeps, NextRepoKeeps, SyncedKeeps
<1>7. CASE UNCHANGED CI!vars
  <2>1. /\ switch' = switch /\ owner' = owner /\ hub' = hub /\ online' = online
        /\ source' = source /\ keys' = keys /\ turns' = turns
    BY <1>7 DEF CI!vars
  <2>2. Sound(switch', hub', owner', online', source'.mode)
    BY <2>1 DEF CIInv
  <2>3. QED
    BY <2>1, <2>2 DEF CIInv
<1>8. QED
  BY <1>1, <1>2, <1>3, <1>4, <1>5, <1>6, <1>7 DEF CI!Next, CI!Step

LEMMA CISafe == CIInv => CI!SwitchIsSo /\ CI!PushIsSo /\ CI!TypeOK
<1> SUFFICES ASSUME CIInv PROVE CI!SwitchIsSo /\ CI!PushIsSo /\ CI!TypeOK
  OBVIOUS
<1>1. /\ CI!Names = CINames /\ hub \in Hubs /\ switch \in Switches /\ online \subseteq {"orbit"}
      /\ SwitchOK(switch, hub, owner) /\ PushOK(switch, hub, source.mode)
  BY DEF CIInv, Sound, CI!Names
<1>2. CI!SwitchIsSo
  BY <1>1 DEF CI!SwitchIsSo, CI!Switched, CI!Undisturbed, SwitchOK, Settled, Aimed, Goal
<1>3. CI!PushIsSo
  <2> SUFFICES ASSUME switch.cmd = "sync", switch.clean
               PROVE  LET under == {switch.repos[i] : i \in DOMAIN switch.repos}
                          chosen == {r \in under : CI!Selected(r, switch.wanted)}
                          ahead == {switch.left[i] : i \in DOMAIN switch.left}
                          waiting == {r \in ahead : r # Head(switch.left)}
                      IN /\ \A r \in chosen \ ahead : \A i \in DOMAIN CISecrets[r] :
                              LET name == CISecrets[r][i] IN
                              /\ name \in DOMAIN hub[r].secrets
                              /\ name # DeployKeySecret => hub[r].secrets[name] # 0
                         /\ \A r \in (CI!Names \ chosen) \union waiting :
                              hub[r] = switch.before[r]
                         /\ hub # switch.before => source.mode = 384
    BY DEF CI!PushIsSo
  <2> DEFINE chosen == {r \in Among(switch.repos) : CI!Selected(r, switch.wanted)}
             waiting == {r \in Among(switch.left) : r # Head(switch.left)}
  <2>1. \A r \in chosen \ Among(switch.left) : \A i \in DOMAIN CISecrets[r] :
          Has(hub, r, CISecrets[r][i])
    BY <1>1 DEF PushOK
  <2>2. \A r \in (CINames \ chosen) \union waiting : hub[r] = switch.before[r]
    <3>1. waiting \subseteq CINames
      BY <1>1 DEF Switches, Among
    <3>2. \A r \in (CINames \ chosen) \union waiting : Waiting(switch, r)
      BY DEF Waiting
    <3>3. QED
      BY <1>1, <3>1, <3>2 DEF PushOK
  <2>3. hub # switch.before => source.mode = 384
    BY <1>1 DEF PushOK
  <2>4. QED
    BY <1>1, <2>1, <2>2, <2>3 DEF Among, Has
<1>4. CI!TypeOK
  <2>1. \A r \in CINames : /\ hub[r].private \in BOOLEAN /\ hub[r].runner \in {None, "vps"}
                           /\ hub[r].secrets \in Secrets
    BY <1>1 DEF Hubs
  <2>2. \A s \in Secrets : \A n \in DOMAIN s : s[n] \in 0..1
    BY DEF Secrets
  <2>3. \A r \in CINames : \A n \in DOMAIN hub[r].secrets : hub[r].secrets[n] \in 0..1
    BY <2>1, <2>2
  <2>4. /\ switch.cmd \in {None, "vps", "github", "status", "sync"}
        /\ switch.at \in {"idle", "view", "pool", "each", "check", "put", "done", "failed"}
        /\ switch.told \union switch.absent \subseteq CINames
    BY <1>1 DEF Switches
  <2>5. turns \in 0..MaxTurns
    BY DEF CIInv
  <2>6. QED
    BY <1>1, <2>1, <2>3, <2>4, <2>5 DEF CI!TypeOK
<1>5. QED
  BY <1>2, <1>3, <1>4

(* A repository is pinned by the command only when it was private and its  *)
(* organization had a runner.                                              *)
LEMMA CIPinned ==
  CIInv /\ [CI!Next]_(CI!vars)
    => (turns' = turns =>
          \A r \in CI!Names :
            hub'[r].runner = "vps" /\ hub[r].runner = None =>
              r \in switch.seen.private /\ owner[r] \in switch.seen.online)
<1> SUFFICES ASSUME CIInv, [CI!Next]_(CI!vars), turns' = turns, NEW r \in CI!Names,
                    hub'[r].runner = "vps", hub[r].runner = None
             PROVE  r \in switch.seen.private /\ owner[r] \in switch.seen.online
  OBVIOUS
<1>1. /\ r \in CINames /\ switch \in Switches /\ turns \in Nat
      /\ switch.left \in Seq(CINames) /\ FoundOK(switch, owner)
  BY DEF CIInv, Sound, CI!Names, Switches
<1>2. hub' # hub
  BY CIFacts
<1>3. ~CI!Others
  BY <1>1 DEF CI!Others
<1>4. ~CI!Put
  BY <1>1, PutKeeps, CIFacts
<1>5. CI!Pin \/ CI!Unpin
  BY <1>2, <1>3, <1>4 DEF CI!Next, CI!Step, CI!Runner, CI!Start, CI!View, CI!Viewed, CI!Pool,
     CI!Report, CI!Finish, CI!Sync, CI!Collect, CI!NextRepo, CI!Synced, CI!Becomes, CI!Fails,
     CI!vars
<1> DEFINE full == [hub EXCEPT ![Head(switch.left)] =
                      [hub[Head(switch.left)] EXCEPT !.runner = Goal(switch.cmd)]]
<1>6. /\ switch.at = "each" /\ switch.left # <<>> /\ switch.cmd \in {"vps", "github"}
      /\ hub' = full
  BY <1>2, <1>5, EachIs
<1>7. /\ Head(switch.left) \in CINames /\ full[Head(switch.left)].runner = Goal(switch.cmd)
      /\ \A x \in CINames : full[x] = hub[x] \/ full[x].runner = Goal(switch.cmd)
  BY <1>6, SwitchedKeeps
<1>8. switch.cmd = "vps"
  BY <1>1, <1>6, <1>7, CIFacts DEF Goal
<1>9. r = Head(switch.left)
  BY <1>1, <1>6, CIFacts DEF CIInv, Sound, Hubs
<1>10. r \in Among(switch.repos)
  BY <1>1, <1>6, <1>8, <1>9, AmongTail, CIFacts DEF FoundOK
<1>11. QED
  BY <1>1, <1>6, <1>8, <1>10, CIFacts DEF FoundOK

(* A switch or a push that nobody interfered with is as it was reported.   *)
THEOREM CIReportsHold == CI!Spec => [](CI!SwitchIsSo /\ CI!PushIsSo)
<1>1. QED
  BY CIInit, CIStep, CISafe, PTL DEF CI!Spec

(* No repository is pinned to runners that could not take its jobs.        *)
THEOREM CIPinsForAReason == CI!Spec => CI!PinnedForAReason
<1>1. CIInv /\ [CI!Next]_(CI!vars)
        => [turns' = turns =>
              \A r \in CI!Names :
                hub'[r].runner = "vps" /\ hub[r].runner = None =>
                  r \in switch.seen.private /\ owner[r] \in switch.seen.online]_(CI!vars)
  BY CIPinned
<1>2. QED
  BY <1>1, CIInit, CIStep, PTL DEF CI!Spec, CI!PinnedForAReason

-----------------------------------------------------------------------------
(* LocalTier.                                                              *)

Results == {"pass", "failed", "unverified"}

Checks ==
  [ at : {"idle", "next", "reach", "create", "test", "drop", "killed"} \union
         {"ok", "failed", "unverified"},
    repo : 0..MaxRepos,
    env : {None} \union [server : Servers, name : 1..MaxRepos],
    ok : BOOLEAN, steady : BOOLEAN, results : Seq(Results) ]

Databases == [Servers -> SUBSET ({Main} \union 1..MaxRepos)]

(* The check of one repository is under way, or over.                      *)
UnderWay(c) == c.at \in {"reach", "create", "test", "drop"}

(* A result for each repository behind, and the tests are sent to a        *)
(* database of this repository's, on the server of the env files as long   *)
(* as they stay as they were.                                              *)
PlaceOK(c, conf2) ==
  /\ c.at = "idle" => c.repo = 0 /\ Len(c.results) = 0
  /\ c.at = "next" => c.repo > 0 /\ Len(c.results) = c.repo
  /\ UnderWay(c) =>
       /\ c.repo > 0 /\ Len(c.results) = c.repo - 1
       /\ c.env \in [server : Servers, name : 1..MaxRepos]
       /\ c.env.name = c.repo
       /\ c.steady => c.env.server = conf2
  /\ c.at = "ok" => \A i \in 1..MaxRepos : c.results[i] = "pass"

(* Only the server of the env files has the throwaway database, and no     *)
(* server has one of a repository that is still to come.                   *)
TracesOK(c, dbs, wrote) ==
  /\ \A s \in Servers : Main \in dbs[s] /\ Main \notin wrote[s]
  /\ c.at \in {"idle", "next"} \/ UnderWay(c) =>
       \A s \in Servers : \A n \in 1..MaxRepos : n > c.repo => n \notin dbs[s]
  /\ c.at \in {"reach", "create"} => \A s \in Servers : c.repo \notin dbs[s]
  /\ c.at \in {"test", "drop"} /\ c.steady =>
       \A s \in Servers : c.repo \in dbs[s] => s = c.env.server
  /\ c.at = "drop" /\ c.ok => c.repo \in wrote[c.env.server]
  /\ c.at = "next" /\ c.steady /\ c.results[c.repo] = "pass" =>
       /\ \A s \in Servers : c.repo \notin dbs[s]
       /\ \E s \in Servers : c.repo \in wrote[s]

TierInv ==
  /\ conf \in Servers \union {None}
  /\ databases \in Databases /\ written \in Databases
  /\ alive \subseteq Servers
  /\ check \in Checks
  /\ edits \in 0..MaxEdits
  /\ PlaceOK(check, conf)
  /\ TracesOK(check, databases, written)

LEMMA TierInit == Tier!Init => TierInv
<1> SUFFICES ASSUME Tier!Init PROVE TierInv
  OBVIOUS
<1>1. /\ conf \in Servers \union {None}
      /\ databases = [s \in Servers |-> {Main}] /\ written = [s \in Servers |-> {}]
      /\ alive = Servers /\ edits = 0 /\ check = Tier!Idle
  BY DEF Tier!Init
<1>2. 0 \in 0..MaxRepos /\ 0 \in 0..MaxEdits /\ Main \notin 1..MaxRepos
  BY HostAssumption
<1>3. check \in Checks /\ check.at = "idle" /\ check.repo = 0 /\ Len(check.results) = 0
  BY <1>1, <1>2 DEF Tier!Idle, Checks
<1>4. databases \in Databases /\ written \in Databases
  BY <1>1 DEF Databases
<1>5. PlaceOK(check, conf)
  BY <1>3 DEF PlaceOK, UnderWay
<1>6. TracesOK(check, databases, written)
  BY <1>1, <1>2, <1>3 DEF TracesOK, UnderWay
<1>7. QED
  BY <1>1, <1>2, <1>3, <1>4, <1>5, <1>6 DEF TierInv

(* What the command is after a step of it.                                 *)
LEMMA CheckType ==
  ASSUME check \in Checks
  PROVE  check.repo \in 0..MaxRepos /\ check.repo \in Int /\ check.results \in Seq(Results)
BY HostAssumption DEF Checks

Ats == {"create", "test", "killed", "ok", "failed", "unverified"}

LEMMA CheckMoves ==
  ASSUME check \in Checks, NEW a \in Ats, check' = [check EXCEPT !.at = a]
  PROVE  /\ check' \in Checks /\ check'.at = a /\ check'.repo = check.repo
         /\ check'.env = check.env /\ check'.results = check.results
         /\ check'.steady = check.steady /\ check'.ok = check.ok
BY DEF Checks, Ats

LEMMA CheckTested ==
  ASSUME check \in Checks, NEW o \in BOOLEAN, check' = [check EXCEPT !.at = "drop", !.ok = o]
  PROVE  /\ check' \in Checks /\ check'.at = "drop" /\ check'.repo = check.repo
         /\ check'.env = check.env /\ check'.results = check.results
         /\ check'.steady = check.steady /\ check'.ok = o
BY DEF Checks

LEMMA CheckUnsettled ==
  ASSUME check \in Checks, check' = [check EXCEPT !.steady = FALSE]
  PROVE  /\ check' \in Checks /\ check'.at = check.at /\ check'.repo = check.repo
         /\ check'.env = check.env /\ check'.results = check.results
         /\ check'.steady = FALSE /\ check'.ok = check.ok
BY DEF Checks

LEMMA CheckResult ==
  ASSUME check \in Checks, NEW r \in Results, check' = Tier!Result(r)
  PROVE  /\ check' \in Checks /\ check'.at = "next" /\ check'.repo = check.repo
         /\ check'.results = Append(check.results, r) /\ check'.steady = check.steady
         /\ Len(check'.results) = Len(check.results) + 1
         /\ check'.results[Len(check.results) + 1] = r
<1> DEFINE q == Append(check.results, r)
<1>1. q \in Seq(Results) /\ Len(q) = Len(check.results) + 1
      /\ q[Len(check.results) + 1] = r
  BY CheckType
<1>2. check' = [check EXCEPT !.at = "next", !.results = q]
  BY DEF Tier!Result
<1> HIDE DEF q
<1>3. /\ check' \in Checks /\ check'.at = "next" /\ check'.repo = check.repo
      /\ check'.results = q /\ check'.steady = check.steady
  BY <1>1, <1>2 DEF Checks
<1>4. QED
  BY <1>1, <1>3 DEF q

(* The check of a repository ends with a result.                           *)
LEMMA ResultKeeps ==
  ASSUME TierInv, UnderWay(check), NEW r \in Results, check' = Tier!Result(r),
         UNCHANGED <<conf, written, alive, edits>>, databases' \in Databases,
         \A s \in Servers : Main \in databases'[s]
                            /\ databases'[s] \subseteq databases[s] \union {check.repo},
         r = "pass" /\ check.steady =>
           /\ \A s \in Servers : check.repo \notin databases'[s]
           /\ \E s \in Servers : check.repo \in written[s]
  PROVE  TierInv'
<1>1. /\ check \in Checks /\ PlaceOK(check, conf) /\ TracesOK(check, databases, written)
      /\ check.repo \in Int /\ check.results \in Seq(Results)
      /\ Len(check.results) = check.repo - 1 /\ check.repo > 0
  BY CheckType DEF TierInv, PlaceOK
<1>3. /\ check' \in Checks /\ check'.at = "next" /\ check'.repo = check.repo
      /\ check'.results = Append(check.results, r) /\ check'.steady = check.steady
  BY <1>1, CheckResult
<1>4. Len(check'.results) = check.repo /\ check'.results[check.repo] = r
  <2>1. /\ Len(check'.results) = Len(check.results) + 1
        /\ check'.results[Len(check.results) + 1] = r
    BY <1>1, CheckResult
  <2>2. QED
    BY <1>1, <2>1
<1>5. PlaceOK(check', conf')
  BY <1>1, <1>3, <1>4 DEF PlaceOK, UnderWay
<1>6. ASSUME NEW s \in Servers, NEW n \in 1..MaxRepos, n > check.repo
      PROVE  n \notin databases'[s]
  BY <1>1, <1>6 DEF TracesOK, UnderWay
<1>7. TracesOK(check', databases', written')
  BY <1>1, <1>3, <1>4, <1>6 DEF TracesOK, UnderWay
<1>8. QED
  BY <1>3, <1>5, <1>7 DEF TierInv

LEMMA TierStep == TierInv /\ [Tier!Next]_(Tier!vars) => TierInv'
<1> SUFFICES ASSUME TierInv, [Tier!Next]_(Tier!vars) PROVE TierInv'
  OBVIOUS
<1>0. /\ conf \in Servers \union {None}
      /\ databases \in Databases /\ written \in Databases
      /\ alive \subseteq Servers
      /\ check \in Checks /\ check.repo \in Int /\ check.repo \in 0..MaxRepos
      /\ check.results \in Seq(Results)
      /\ edits \in 0..MaxEdits
      /\ PlaceOK(check, conf) /\ TracesOK(check, databases, written)
      /\ Main \notin 1..MaxRepos /\ MaxRepos \in Nat
  BY CheckType, HostAssumption DEF TierInv
<1>1. /\ "pass" \in Results /\ "failed" \in Results /\ "unverified" \in Results
      /\ UnderWay(check) => check.repo > 0 /\ check.repo \in 1..MaxRepos
  BY <1>0 DEF Results, PlaceOK
(* Only the command moves, and no result is due.                           *)
<1>2. ASSUME UNCHANGED <<conf, databases, written, alive, edits>>, check' \in Checks,
             PlaceOK(check', conf), TracesOK(check', databases, written)
      PROVE  TierInv'
  BY <1>0, <1>2 DEF TierInv
<1>3. CASE Tier!Begin
  <2> DEFINE repo == check.repo + 1
             next == [check EXCEPT !.repo = repo, !.env = None, !.ok = FALSE, !.steady = TRUE]
  <2>1. /\ check.at \in {"idle", "next"} /\ check.repo < MaxRepos
        /\ UNCHANGED <<conf, databases, written, alive, edits>>
    BY <1>3 DEF Tier!Begin, Tier!Becomes
  <2>2. /\ Tier!Configured =>
             check' = [next EXCEPT !.at = "reach", !.env = [server |-> conf, name |-> repo]]
        /\ ~Tier!Configured =>
             check' = [next EXCEPT !.at = "next", !.results = Append(@, "unverified")]
    BY <1>3 DEF Tier!Begin, Tier!Becomes, Tier!Env
  <2>3. /\ repo \in 1..MaxRepos /\ repo \in 0..MaxRepos /\ repo > 0
        /\ Len(check.results) = repo - 1
    BY <1>0, <2>1 DEF PlaceOK
  <2>4. /\ \A s \in Servers : repo \notin databases[s] /\ Main \in databases[s]
                              /\ Main \notin written[s]
        /\ \A s \in Servers : \A n \in 1..MaxRepos : n > repo => n \notin databases[s]
    BY <1>0, <2>1, <2>3 DEF TracesOK
  <2>5. CASE Tier!Configured
    <3> DEFINE env == [server |-> conf, name |-> repo]
    <3>1. env \in [server : Servers, name : 1..MaxRepos]
          /\ env.name = repo /\ env.server = conf
      BY <1>0, <2>3, <2>5 DEF Tier!Configured
    <3> HIDE DEF repo, env
    <3>2. check' = [next EXCEPT !.at = "reach", !.env = env]
      BY <2>2, <2>5 DEF repo, env
    <3>3. /\ check' \in Checks /\ check'.at = "reach" /\ check'.repo = repo
          /\ check'.env = env /\ check'.results = check.results
      BY <1>0, <2>3, <3>1, <3>2 DEF Checks
    <3>4. PlaceOK(check', conf)
      BY <2>3, <3>1, <3>3 DEF PlaceOK, UnderWay
    <3>5. TracesOK(check', databases, written)
      BY <2>4, <3>3 DEF TracesOK, UnderWay
    <3>6. QED
      BY <1>2, <2>1, <3>3, <3>4, <3>5
  <2>6. CASE ~Tier!Configured
    <3>1. /\ Append(check.results, "unverified") \in Seq(Results)
          /\ Len(Append(check.results, "unverified")) = repo
          /\ Append(check.results, "unverified")[repo] = "unverified"
      BY <1>0, <1>1, <2>3
    <3> HIDE DEF repo
    <3>2. /\ check' \in Checks /\ check'.at = "next" /\ check'.repo = repo
          /\ check'.results = Append(check.results, "unverified")
      BY <1>0, <2>2, <2>3, <2>6, <3>1 DEF Checks
    <3>3. PlaceOK(check', conf)
      BY <2>3, <3>1, <3>2 DEF PlaceOK, UnderWay
    <3>4. TracesOK(check', databases, written)
      BY <2>4, <3>1, <3>2 DEF TracesOK, UnderWay
    <3>5. QED
      BY <1>2, <2>1, <3>2, <3>3, <3>4
  <2>7. QED
    BY <2>5, <2>6
<1>4. CASE Tier!Reachable
  <2>1. check.at = "reach" /\ UNCHANGED <<conf, databases, written, alive, edits>>
    BY <1>4 DEF Tier!Reachable, Tier!Becomes
  <2>2. CASE check' = [check EXCEPT !.at = "create"]
    <3>1. /\ check' \in Checks /\ check'.at = "create" /\ check'.repo = check.repo
          /\ check'.env = check.env /\ check'.results = check.results
          /\ check'.steady = check.steady
      BY <1>0, <2>2, CheckMoves DEF Ats
    <3>2. PlaceOK(check', conf) /\ TracesOK(check', databases, written)
      BY <1>0, <2>1, <3>1 DEF PlaceOK, TracesOK, UnderWay
    <3>3. QED
      BY <1>2, <2>1, <3>1, <3>2
  <2>3. CASE check' = Tier!Result("unverified")
    BY <1>0, <1>1, <2>1, <2>3, ResultKeeps DEF UnderWay, TracesOK
  <2>4. QED
    BY <1>4, <2>2, <2>3 DEF Tier!Reachable, Tier!Becomes
(* A call of psql changes the server of the env files only.                *)
<1>5. ASSUME NEW after, NEW one, NEW other, Tier!Psql(after, one, other)
      PROVE  /\ UNCHANGED <<conf, written, alive, edits>>
             /\ \/ /\ conf \in Servers /\ conf # None
                   /\ databases' = [databases EXCEPT ![conf] = after]
                   /\ check' \in {one, other}
                \/ databases' = databases /\ check' = other
  BY <1>0, <1>5 DEF Tier!Psql, Tier!Answers, Tier!Configured
<1>6. CASE Tier!CreateDatabase
  <2> DEFINE one == [check EXCEPT !.at = "test"]
             after == Tier!After({check.repo}, {})
  <2>1. /\ check.at = "create" /\ UNCHANGED <<conf, written, alive, edits>>
        /\ \/ /\ conf \in Servers /\ conf # None
              /\ databases' = [databases EXCEPT ![conf] = after]
              /\ check' \in {one, Tier!Result("unverified")}
           \/ databases' = databases /\ check' = Tier!Result("unverified")
    BY <1>5, <1>6 DEF Tier!CreateDatabase
  <2>2. UnderWay(check)
    BY <2>1 DEF UnderWay
  <2>3. conf # None => after = databases[conf] \union {check.repo}
    BY DEF Tier!After, Tier!Configured
  <2>4. /\ databases' \in Databases
        /\ \A s \in Servers : Main \in databases'[s]
                              /\ databases'[s] \subseteq databases[s] \union {check.repo}
        /\ databases' # databases => conf \in Servers /\ \A s \in Servers :
             s # conf => databases'[s] = databases[s]
    <3>1. CASE databases' = databases
      BY <1>0, <3>1 DEF TracesOK
    <3>2. CASE conf \in Servers /\ conf # None /\ databases' = [databases EXCEPT ![conf] = after]
      <4>1. databases' = [databases EXCEPT ![conf] = databases[conf] \union {check.repo}]
        BY <2>3, <3>2
      <4>2. /\ databases' \in Databases
            /\ \A s \in Servers : databases'[s] =
                 IF s = conf THEN databases[conf] \union {check.repo} ELSE databases[s]
        BY <1>0, <1>1, <2>2, <3>2, <4>1 DEF Databases
      <4>3. \A s \in Servers : Main \in databases[s]
        BY <1>0 DEF TracesOK
      <4>4. QED
        BY <3>2, <4>2, <4>3
    <3>3. QED
      BY <2>1, <3>1, <3>2
  <2>5. CASE check' = Tier!Result("unverified")
    BY <1>1, <2>1, <2>2, <2>4, <2>5, ResultKeeps
  <2>6. CASE check' = one /\ conf \in Servers
    <3>1. /\ check' \in Checks /\ check'.at = "test" /\ check'.repo = check.repo
          /\ check'.env = check.env /\ check'.results = check.results
          /\ check'.steady = check.steady
      BY <1>0, <2>6, CheckMoves DEF Ats
    <3>2. PlaceOK(check', conf')
      BY <1>0, <2>1, <3>1 DEF PlaceOK, UnderWay
    <3>3. \A s \in Servers : check.repo \in databases'[s] => s = conf
      BY <1>0, <2>1, <2>4 DEF TracesOK
    <3>4. check.steady => check.env.server = conf
      BY <1>0, <2>2 DEF PlaceOK
    <3>5. \A s \in Servers : \A n \in 1..MaxRepos : n > check.repo => n \notin databases'[s]
      BY <1>0, <2>2, <2>4 DEF TracesOK
    <3>6. TracesOK(check', databases', written')
      BY <1>0, <2>1, <2>4, <3>1, <3>3, <3>4, <3>5 DEF TracesOK, UnderWay
    <3>7. QED
      BY <1>0, <2>1, <2>4, <3>1, <3>2, <3>6 DEF TierInv
  <2>7. QED
    BY <2>1, <2>5, <2>6
<1>7. CASE Tier!Tests
  <2> DEFINE env == check.env
             there == env.server \in alive /\ env.name \in databases[env.server]
  <2>1. /\ check.at = "test" /\ UNCHANGED <<conf, databases, alive, edits>>
        /\ \E ok \in BOOLEAN :
             /\ ok => there
             /\ written' = IF there THEN [written EXCEPT ![env.server] = @ \cup {env.name}]
                           ELSE written
             /\ check' = [check EXCEPT !.at = "drop", !.ok = ok]
    BY <1>7 DEF Tier!Tests
  <2>2. UnderWay(check) /\ env.server \in Servers /\ env.name = check.repo
        /\ check.repo \in 1..MaxRepos
    BY <1>0, <1>1, <2>1 DEF UnderWay, PlaceOK
  <2>3. PICK ok \in BOOLEAN :
             /\ ok => there
             /\ written' = IF there THEN [written EXCEPT ![env.server] = @ \cup {env.name}]
                           ELSE written
             /\ check' = [check EXCEPT !.at = "drop", !.ok = ok]
    BY <2>1
  <2>4. /\ check' \in Checks /\ check'.at = "drop" /\ check'.repo = check.repo
        /\ check'.env = check.env /\ check'.results = check.results
        /\ check'.steady = check.steady /\ check'.ok = ok
    BY <1>0, <2>3, CheckTested
  <2>5. PlaceOK(check', conf')
    BY <1>0, <2>1, <2>4 DEF PlaceOK, UnderWay
  <2>6. /\ written' \in Databases
        /\ \A s \in Servers : Main \notin written'[s]
        /\ ok => check.repo \in written'[env.server]
    <3>1. CASE there
      <4>1. written' = [written EXCEPT ![env.server] = written[env.server] \union {check.repo}]
        BY <2>2, <2>3, <3>1
      <4> HIDE DEF env
      <4>2. /\ written' \in Databases
            /\ \A s \in Servers : written'[s] =
                 IF s = env.server THEN written[env.server] \union {check.repo} ELSE written[s]
        BY <1>0, <2>2, <4>1 DEF Databases
      <4>3. QED
        BY <1>0, <2>2, <4>2 DEF TracesOK
    <3>2. CASE ~there
      BY <1>0, <2>3, <3>2 DEF TracesOK
    <3>3. QED
      BY <3>1, <3>2
  <2>7. TracesOK(check', databases', written')
    BY <1>0, <2>1, <2>4, <2>6 DEF TracesOK, UnderWay
  <2>8. QED
    BY <1>0, <2>1, <2>4, <2>5, <2>6, <2>7 DEF TierInv
<1>8. CASE Tier!DropDatabase
  <2> DEFINE good == IF check.ok THEN "pass" ELSE "failed"
             bad == IF check.ok THEN "unverified" ELSE "failed"
             after == Tier!After({}, {check.repo})
  <2>1. /\ check.at = "drop" /\ UNCHANGED <<conf, written, alive, edits>>
        /\ \/ /\ conf \in Servers /\ conf # None
              /\ databases' = [databases EXCEPT ![conf] = after]
              /\ check' \in {Tier!Result(good), Tier!Result(bad)}
           \/ databases' = databases /\ check' = Tier!Result(bad)
    BY <1>5, <1>8 DEF Tier!DropDatabase
  <2>2. UnderWay(check) /\ check.repo \in 1..MaxRepos /\ Main # check.repo
    BY <1>0, <1>1, <2>1 DEF UnderWay
  <2>3. conf # None => after = databases[conf] \ {check.repo}
    BY DEF Tier!After, Tier!Configured
  <2>4. /\ databases' \in Databases
        /\ \A s \in Servers : Main \in databases'[s]
                              /\ databases'[s] \subseteq databases[s] \union {check.repo}
        /\ databases' = databases \/
             \A s \in Servers : databases'[s] =
               IF s = conf THEN databases[conf] \ {check.repo} ELSE databases[s]
    <3>1. CASE databases' = databases
      BY <1>0, <3>1 DEF TracesOK
    <3>2. CASE conf \in Servers /\ conf # None /\ databases' = [databases EXCEPT ![conf] = after]
      <4>1. databases' = [databases EXCEPT ![conf] = databases[conf] \ {check.repo}]
        BY <2>3, <3>2
      <4>2. /\ databases' \in Databases
            /\ \A s \in Servers : databases'[s] =
                 IF s = conf THEN databases[conf] \ {check.repo} ELSE databases[s]
        BY <1>0, <3>2, <4>1 DEF Databases
      <4>3. QED
        BY <1>0, <2>2, <4>2 DEF TracesOK
    <3>3. QED
      BY <2>1, <3>1, <3>2
  <2>5. good \in Results /\ bad \in Results /\ bad # "pass" /\ (good = "pass" => check.ok)
    BY DEF Results
  <2>6. CASE check' = Tier!Result(bad)
    <3> HIDE DEF bad
    <3>1. QED
      BY <2>1, <2>2, <2>4, <2>5, <2>6, ResultKeeps
  <2>7. CASE check' = Tier!Result(good) /\ conf \in Servers /\ conf # None
             /\ databases' = [databases EXCEPT ![conf] = after]
    <3>1. ASSUME check.ok, check.steady
          PROVE  /\ \A s \in Servers : check.repo \notin databases'[s]
                 /\ \E s \in Servers : check.repo \in written[s]
      <4>1. /\ \A s \in Servers : check.repo \in databases[s] => s = conf
            /\ check.env.server = conf /\ check.repo \in written[conf]
        BY <1>0, <2>1, <2>2, <3>1 DEF TracesOK, PlaceOK
      <4>2. \A s \in Servers : databases'[s] =
              IF s = conf THEN databases[conf] \ {check.repo} ELSE databases[s]
        BY <1>0, <2>3, <2>7 DEF Databases
      <4>3. QED
        BY <2>7, <4>1, <4>2
    <3> HIDE DEF good
    <3>2. QED
      BY <2>1, <2>2, <2>4, <2>5, <2>7, <3>1, ResultKeeps
  <2>8. QED
    BY <2>1, <2>6, <2>7
<1>9. CASE Tier!Finish
  <2>1. /\ check.at = "next" /\ check.repo = MaxRepos
        /\ check' = [check EXCEPT !.at = Tier!Exit]
        /\ UNCHANGED <<conf, databases, written, alive, edits>>
    BY <1>9 DEF Tier!Finish, Tier!Becomes
  <2>2. /\ Tier!Exit \in {"ok", "failed", "unverified"}
        /\ Tier!Exit = "ok" => ~Tier!Has("failed") /\ ~Tier!Has("unverified")
    BY DEF Tier!Exit
  <2>3. /\ check' \in Checks /\ check'.at = Tier!Exit /\ check'.results = check.results
    BY <1>0, <2>1, <2>2, CheckMoves DEF Ats
  <2>4. ASSUME Tier!Exit = "ok", NEW i \in 1..MaxRepos PROVE check.results[i] = "pass"
    <3>1. i \in DOMAIN check.results
      BY <1>0, <2>1 DEF PlaceOK
    <3>2. check.results[i] \in Results
      BY <1>0, <3>1
    <3>3. check.results[i] \notin {"failed", "unverified"}
      BY <2>2, <2>4, <3>1 DEF Tier!Has
    <3>4. QED
      BY <3>2, <3>3 DEF Results
  <2>5. PlaceOK(check', conf)
    BY <2>2, <2>3, <2>4 DEF PlaceOK, UnderWay
  <2>6. TracesOK(check', databases, written)
    BY <1>0, <2>2, <2>3 DEF TracesOK, UnderWay
  <2>7. QED
    BY <1>2, <2>1, <2>3, <2>5, <2>6
<1>10. CASE Tier!Kill
  <2>1. check' = [check EXCEPT !.at = "killed"]
        /\ UNCHANGED <<conf, databases, written, alive, edits>>
    BY <1>10 DEF Tier!Kill, Tier!Becomes
  <2>2. check' \in Checks /\ check'.at = "killed"
    BY <1>0, <2>1, CheckMoves DEF Ats
  <2>3. PlaceOK(check', conf) /\ TracesOK(check', databases, written)
    BY <1>0, <2>2 DEF PlaceOK, TracesOK, UnderWay
  <2>4. QED
    BY <1>2, <2>1, <2>2, <2>3
<1>11. CASE Tier!EditEnv
  <2>1. /\ edits < MaxEdits /\ edits' = edits + 1
        /\ conf' \in Servers \union {None}
        /\ check' = [check EXCEPT !.steady = FALSE]
        /\ UNCHANGED <<databases, written, alive>>
    BY <1>11 DEF Tier!EditEnv
  <2>2. /\ check' \in Checks /\ check'.steady = FALSE /\ check'.at = check.at
        /\ check'.repo = check.repo /\ check'.env = check.env /\ check'.ok = check.ok
        /\ check'.results = check.results
    BY <1>0, <2>1, CheckUnsettled
  <2>3. edits' \in 0..MaxEdits
    BY <1>0, <2>1, HostAssumption
  <2>4. PlaceOK(check', conf')
    BY <1>0, <2>2 DEF PlaceOK, UnderWay
  <2>5. TracesOK(check', databases, written)
    BY <1>0, <2>2 DEF TracesOK, UnderWay
  <2>6. QED
    BY <1>0, <2>1, <2>2, <2>3, <2>4, <2>5 DEF TierInv
<1>12. CASE Tier!Stop
  <2>1. /\ edits < MaxEdits /\ edits' = edits + 1
        /\ alive' \subseteq alive
        /\ UNCHANGED <<conf, databases, written, check>>
    BY <1>12 DEF Tier!Stop
  <2>2. edits' \in 0..MaxEdits
    BY <1>0, <2>1, HostAssumption
  <2>3. QED
    BY <1>0, <2>1, <2>2 DEF TierInv
<1>13. CASE UNCHANGED Tier!vars
  BY <1>0, <1>13 DEF Tier!vars, TierInv
<1>14. QED
  BY <1>3, <1>4, <1>6, <1>7, <1>8, <1>9, <1>10, <1>11, <1>12, <1>13 DEF Tier!Next

LEMMA TierSafe == TierInv => Tier!LeavesNoTrace /\ Tier!TypeOK
<1> SUFFICES ASSUME TierInv PROVE Tier!LeavesNoTrace /\ Tier!TypeOK
  OBVIOUS
<1>1. Tier!TypeOK
  BY CheckType DEF TierInv, Tier!TypeOK, Databases
<1>2. Tier!LeavesNoTrace
  BY DEF TierInv, Tier!LeavesNoTrace, TracesOK, PlaceOK
<1>3. QED
  BY <1>1, <1>2

(* The release tier on a developer's machine keeps off the developer's     *)
(* database and leaves none of its own behind a pass, for all servers and  *)
(* numbers of repositories.                                                *)
THEOREM TierLeavesNoTrace == Tier!Spec => []Tier!LeavesNoTrace
BY TierInit, TierStep, TierSafe, PTL DEF Tier!Spec

-----------------------------------------------------------------------------
(* DevStack.                                                               *)

Probes == [port : {"main", "fallback"}, at : {"dial", "deadline", "ended"}, ready : BOOLEAN]

Ups ==
  [ at : {"idle", "launch", "probe", "done", "failed"},
    cmd : {None, "start-dev-stack.sh", "compose.sh", "docker compose"},
    probe : [CoreServices -> Probes] ]

(* A probe that has failed on a port has seen it closed.                   *)
TriedOK(s, p, seen) ==
  /\ p.at # "ended" => ~p.ready
  /\ p.at = "deadline" => <<s, p.port>> \notin seen.every
  /\ p.port = "fallback" => <<s, "main">> \notin seen.every
  /\ p.at = "ended" =>
       /\ p.ready => <<s, p.port>> \in seen.some
       /\ ~p.ready => {<<s, "main">>, <<s, "fallback">>} \cap seen.every = {}

DevInv ==
  /\ who \in [Dev!Ports -> {None, "stack", "other"}]
  /\ up \in Ups
  /\ changes \in 0..MaxChanges
  /\ since \in [some : SUBSET Dev!Ports, every : SUBSET Dev!Ports]
  /\ up.at \in {"probe", "done"} =>
       /\ since.every \subseteq Dev!Open /\ Dev!Open \subseteq since.some
       /\ \A s \in CoreServices : TriedOK(s, up.probe[s], since)

LEMMA DevInit == Dev!Init => DevInv
<1> SUFFICES ASSUME Dev!Init PROVE DevInv
  OBVIOUS
<1>1. /\ up = [at |-> "idle", cmd |-> None, probe |-> [s \in CoreServices |-> Dev!Asleep]]
      /\ who \in [Dev!Ports -> {None, "other"}] /\ since = [some |-> {}, every |-> {}]
      /\ changes = 0
  BY DEF Dev!Init
<1>2. who \in [Dev!Ports -> {None, "stack", "other"}] /\ changes \in 0..MaxChanges
  BY <1>1, HostAssumption
<1>3. Dev!Asleep \in Probes
  BY DEF Probes, Dev!Asleep
<1>4. up.at = "idle" /\ up \in Ups
  BY <1>1, <1>3 DEF Ups
<1>5. QED
  BY <1>1, <1>2, <1>4 DEF DevInv

LEMMA DevStep == DevInv /\ [Dev!Next]_(Dev!vars) => DevInv'
<1> SUFFICES ASSUME DevInv, [Dev!Next]_(Dev!vars) PROVE DevInv'
  OBVIOUS
<1> DEFINE Seen == [some : SUBSET Dev!Ports, every : SUBSET Dev!Ports]
<1>0. /\ who \in [Dev!Ports -> {None, "stack", "other"}]
      /\ up \in Ups /\ up.probe \in [CoreServices -> Probes]
      /\ changes \in 0..MaxChanges
      /\ since \in Seen
      /\ up.at \in {"probe", "done"} =>
           /\ since.every \subseteq Dev!Open /\ Dev!Open \subseteq since.some
           /\ \A s \in CoreServices : TriedOK(s, up.probe[s], since)
  BY DEF DevInv, Ups
<1>1. ASSUME UNCHANGED <<who, since, changes>>, up' \in Ups,
             up'.at \in {"probe", "done"} =>
               /\ up.at \in {"probe", "done"}
               /\ \A s \in CoreServices : TriedOK(s, up'.probe[s], since)
      PROVE  DevInv'
  BY <1>0, <1>1 DEF DevInv, Dev!Open
<1>2. CASE Dev!Up
  <2>1. /\ UNCHANGED <<infra, who, since, changes>>
        /\ \E at \in {"failed", "launch"} :
             up' = [up EXCEPT !.cmd = Dev!Command("up"), !.at = at]
    BY <1>2 DEF Dev!Up
  <2>2. Dev!Command("up") \in {None, "start-dev-stack.sh", "compose.sh", "docker compose"}
    BY DEF Dev!Command, Dev!Compose
  <2>3. up' \in Ups /\ up'.at \in {"failed", "launch"}
    BY <1>0, <2>1, <2>2 DEF Ups
  <2>4. QED
    BY <1>1, <2>1, <2>3
<1>3. CASE Dev!Launched
  <2>1. UNCHANGED <<infra, who, changes>>
    BY <1>3 DEF Dev!Launched
  <2>2. CASE /\ up' = [up EXCEPT !.at = "probe",
                                 !.probe = [s \in CoreServices |-> Dev!Dialing]]
             /\ since' = [some |-> Dev!Open, every |-> Dev!Open]
    <3>1. Dev!Dialing \in Probes /\ Dev!Open \subseteq Dev!Ports
      BY DEF Dev!Dialing, Probes, Dev!Open
    <3>2. /\ up' \in Ups
          /\ \A s \in CoreServices : up'.probe[s] = Dev!Dialing
      BY <1>0, <2>2, <3>1 DEF Ups
    <3>3. /\ since' \in Seen
          /\ since'.every = Dev!Open /\ since'.some = Dev!Open /\ Dev!Open' = Dev!Open
      BY <2>1, <2>2, <3>1 DEF Dev!Open
    <3>4. \A s \in CoreServices : TriedOK(s, up'.probe[s], since')
      BY <3>2 DEF TriedOK, Dev!Dialing
    <3>5. QED
      BY <1>0, <2>1, <3>2, <3>3, <3>4 DEF DevInv
  <2>3. CASE up' = [up EXCEPT !.at = "failed"] /\ UNCHANGED since
    <3>1. up' \in Ups /\ up'.at = "failed"
      BY <1>0, <2>3 DEF Ups
    <3>2. QED
      BY <1>1, <2>1, <2>3, <3>1
  <2>4. QED
    BY <1>3, <2>2, <2>3 DEF Dev!Launched
<1>4. ASSUME NEW s \in CoreServices, NEW p \in Probes, Dev!Probe(s, p), up.at = "probe",
             TriedOK(s, p, since)
      PROVE  DevInv'
  <2>1. UNCHANGED <<who, since, changes>> /\ up' = [up EXCEPT !.probe[s] = p]
    BY <1>4 DEF Dev!Probe
  <2>2. /\ up' \in Ups
        /\ \A u \in CoreServices : up'.probe[u] = IF u = s THEN p ELSE up.probe[u]
    BY <1>0, <2>1 DEF Ups
  <2>3. QED
    BY <1>0, <1>1, <1>4, <2>1, <2>2
<1>5. ASSUME NEW s \in CoreServices, Dev!Dial(s) PROVE DevInv'
  <2> DEFINE p == up.probe[s]
             hit == [p EXCEPT !.at = "ended", !.ready = TRUE]
             miss == [p EXCEPT !.at = "deadline"]
  <2>1. /\ up.at = "probe" /\ p.at = "dial" /\ p \in Probes
        /\ \/ <<s, p.port>> \in Dev!Open /\ Dev!Probe(s, hit)
           \/ <<s, p.port>> \notin Dev!Open /\ Dev!Probe(s, miss)
    BY <1>0, <1>5 DEF Dev!Dial
  <2>2. TriedOK(s, p, since) /\ since.every \subseteq Dev!Open /\ Dev!Open \subseteq since.some
    BY <1>0, <2>1
  <2>3. CASE <<s, p.port>> \in Dev!Open /\ Dev!Probe(s, hit)
    <3>1. hit \in Probes /\ TriedOK(s, hit, since)
      BY <2>1, <2>2, <2>3 DEF TriedOK, Probes
    <3>2. QED
      BY <1>4, <2>1, <2>3, <3>1
  <2>4. CASE <<s, p.port>> \notin Dev!Open /\ Dev!Probe(s, miss)
    <3>1. miss \in Probes /\ TriedOK(s, miss, since)
      BY <2>1, <2>2, <2>4 DEF TriedOK, Probes
    <3>2. QED
      BY <1>4, <2>1, <2>4, <3>1
  <2>5. QED
    BY <2>1, <2>3, <2>4
<1>6. ASSUME NEW s \in CoreServices, Dev!Deadline(s) PROVE DevInv'
  <2> DEFINE p == up.probe[s]
             again == [p EXCEPT !.at = "dial"]
  <2>1. /\ up.at = "probe" /\ p.at = "deadline" /\ p \in Probes
        /\ Dev!Probe(s, again) \/ Dev!Probe(s, Dev!GiveUp(s, p))
    BY <1>0, <1>6 DEF Dev!Deadline
  <2>2. TriedOK(s, p, since)
    BY <1>0, <2>1
  <2>3. again \in Probes /\ TriedOK(s, again, since)
    BY <2>1, <2>2 DEF TriedOK, Probes
  <2>4. Dev!GiveUp(s, p) \in Probes
    BY <2>1 DEF Dev!GiveUp, Probes
  <2>5. TriedOK(s, Dev!GiveUp(s, p), since)
    <3> DEFINE q == Dev!GiveUp(s, p)
    <3>1. ASSUME p.port = "main" /\ s \in WithFallback PROVE TriedOK(s, q, since)
      <4>1. q.port = "fallback" /\ q.at = "dial" /\ q.ready = p.ready
        BY <2>1, <3>1 DEF Dev!GiveUp, Probes
      <4> HIDE DEF q
      <4>2. QED
        BY <2>1, <2>2, <3>1, <4>1 DEF TriedOK
    <3>2. ASSUME ~(p.port = "main" /\ s \in WithFallback) PROVE TriedOK(s, q, since)
      <4>1. q.port = "main" /\ q.at = "ended" /\ q.ready = p.ready
        BY <2>1, <3>2 DEF Dev!GiveUp, Probes
      <4>2. p.port = "main" => <<s, "fallback">> \notin since.every
        BY <1>0, <3>2 DEF Dev!Ports
      <4>3. p.port \in {"main", "fallback"}
        BY <2>1 DEF Probes
      <4> HIDE DEF q
      <4>4. QED
        BY <2>1, <2>2, <4>1, <4>2, <4>3 DEF TriedOK
    <3>3. QED
      BY <3>1, <3>2
  <2>6. QED
    BY <1>4, <2>1, <2>3, <2>4, <2>5
<1>7. CASE Dev!Report
  <2>1. /\ up.at = "probe" /\ up' = [up EXCEPT !.at = "done"]
        /\ UNCHANGED <<infra, who, since, changes>>
    BY <1>7 DEF Dev!Report
  <2>2. up' \in Ups /\ up'.probe = up.probe
    BY <1>0, <2>1 DEF Ups
  <2>3. QED
    BY <1>0, <1>1, <2>1, <2>2
<1>8. ASSUME NEW who2 \in [Dev!Ports -> {None, "stack", "other"}], Dev!Listen(who2)
      PROVE  DevInv'
  <2>1. /\ who' = who2 /\ up' = up /\ changes' \in 0..MaxChanges
        /\ since' = [ some |-> since.some \cup {p \in Dev!Ports : who2[p] # None},
                      every |-> since.every \cap {p \in Dev!Ports : who2[p] # None} ]
    BY <1>0, <1>8, HostAssumption DEF Dev!Listen
  <2>2. Dev!Open' = {p \in Dev!Ports : who2[p] # None}
    BY <2>1 DEF Dev!Open
  <2>3. /\ since' \in Seen
        /\ since'.some = since.some \cup Dev!Open' /\ since'.every = since.every \cap Dev!Open'
    BY <1>0, <2>1, <2>2
  <2>4. ASSUME NEW s \in CoreServices, TriedOK(s, up.probe[s], since)
        PROVE  TriedOK(s, up'.probe[s], since')
    BY <2>1, <2>3, <2>4 DEF TriedOK
  <2>5. QED
    BY <1>0, <1>8, <2>1, <2>3, <2>4 DEF DevInv
<1>9. CASE Dev!ContainerUp \/ Dev!ContainerDown \/ Dev!Elsewhere
  <2>1. PICK p \in Dev!Ports, l \in {None, "stack", "other"} :
          Dev!Listen([who EXCEPT ![p] = l])
    BY <1>9 DEF Dev!ContainerUp, Dev!ContainerDown, Dev!Elsewhere
  <2>2. [who EXCEPT ![p] = l] \in [Dev!Ports -> {None, "stack", "other"}]
    BY <1>0
  <2>3. QED
    BY <1>8, <2>1, <2>2
<1>10. CASE Dev!Down
  <2>1. Dev!Listen([p \in Dev!Ports |-> IF who[p] = "stack" THEN None ELSE who[p]])
    BY <1>10 DEF Dev!Down
  <2>2. [p \in Dev!Ports |-> IF who[p] = "stack" THEN None ELSE who[p]]
          \in [Dev!Ports -> {None, "stack", "other"}]
    BY <1>0
  <2>3. QED
    BY <1>8, <2>1, <2>2
<1>11. CASE Dev!Restart
  <2>1. PICK s \in WithFallback :
          Dev!Listen([p \in Dev!Ports |-> IF p[1] = s /\ who[p] = "stack" THEN None ELSE who[p]])
    BY <1>11 DEF Dev!Restart
  <2>2. [p \in Dev!Ports |-> IF p[1] = s /\ who[p] = "stack" THEN None ELSE who[p]]
          \in [Dev!Ports -> {None, "stack", "other"}]
    BY <1>0
  <2>3. QED
    BY <1>8, <2>1, <2>2
<1>12. CASE UNCHANGED Dev!vars
  BY <1>0, <1>12 DEF Dev!vars, DevInv, Dev!Open
<1>13. QED
  BY <1>2, <1>3, <1>5, <1>6, <1>7, <1>9, <1>10, <1>11, <1>12 DEF Dev!Next

LEMMA DevSafe == DevInv => Dev!ReadinessIsSo /\ Dev!TypeOK
BY DEF DevInv, Dev!ReadinessIsSo, Dev!TypeOK, TriedOK, Ups, Probes

(* A report of dev up is true of the time since its probes began, for all  *)
(* services, whoever comes up, goes down or listens in their place.        *)
THEOREM DevReadinessIsSo == Dev!Spec => []Dev!ReadinessIsSo
BY DevInit, DevStep, DevSafe, PTL DEF Dev!Spec
-----------------------------------------------------------------------------
(* The instances together: every part keeps its own invariant, since the   *)
(* others leave its variables alone.                                       *)
LEMMA HostInits ==
  Init10 =>
    /\ part \in {"ports", "wizard", "calls", "migrate", "config", "update",
                 "uninstall", "ci", "tier", "dev"}
    /\ Init /\ Wiz!Init /\ Edge!Init /\ Migrate!Init /\ Config!Init
    /\ Update!Init /\ Remove!Init /\ CI!Init /\ Tier!Init /\ Dev!Init
BY DEF Init10

LEMMA HostSteps ==
  [Next10]_all =>
    /\ part' = part
    /\ [Next]_vars
    /\ [Wiz!Next]_(Wiz!vars)
    /\ [Edge!Next]_(Edge!vars)
    /\ [Migrate!Next]_(Migrate!vars)
    /\ [Config!Next]_(Config!vars)
    /\ [Update!Next]_(Update!vars)
    /\ [Remove!Next]_(Remove!vars)
    /\ [CI!Next]_(CI!vars)
    /\ [Tier!Next]_(Tier!vars)
    /\ [Dev!Next]_(Dev!vars)
BY DEF Next10, On, Others, all, wizardVars, callVars, migrateVars, configVars, updateVars,
       uninstallVars, ciVars, tierVars, devVars, Wiz!vars, Edge!vars, Migrate!vars,
       Config!vars, Update!vars, Remove!vars, CI!vars, Tier!vars, Dev!vars

HostInv ==
  /\ part \in {"ports", "wizard", "calls", "migrate", "config", "update",
               "uninstall", "ci", "tier", "dev"}
  /\ IInv /\ WizInv /\ CallsInv /\ MigrateInv /\ ConfigInv
  /\ UpdateInv /\ RemoveInv /\ CIInv /\ TierInv /\ DevInv

LEMMA HostInit == Init10 => HostInv
BY HostInits, InitEstablishesIInv, WizInit, CallsInit, MigrateInit, ConfigInit, UpdateInit,
   RemoveInit, CIInit, TierInit, DevInit DEF HostInv

LEMMA HostStep == HostInv /\ [Next10]_all => HostInv'
<1> SUFFICES ASSUME HostInv, [Next10]_all PROVE HostInv'
  OBVIOUS
<1>1. IInv' /\ WizInv' /\ CallsInv' /\ MigrateInv' /\ ConfigInv'
  BY HostSteps, NextKeepsIInv, WizStep, CallsStep, MigrateStep, ConfigStep DEF HostInv
<1>2. UpdateInv' /\ RemoveInv' /\ CIInv' /\ TierInv' /\ DevInv'
  BY HostSteps, UpdateStep, RemoveStep, CIStep, TierStep, DevStep DEF HostInv
<1>3. part' = part
  BY HostSteps
<1>4. QED
  BY <1>1, <1>2, <1>3 DEF HostInv

(* The inductive invariant of the parts together. *)
THEOREM HostInvariance == HostSpec => []HostInv
BY HostInit, HostStep, PTL DEF HostSpec

(* The wizard runs one background command at a time, for the screen that   *)
(* is shown, whatever comes late.                                          *)
THEOREM OneCommandAlways == HostSpec => []OneCommandAtATime
<1>1. HostInv => OneCommandAtATime
  BY DEF HostInv, WizInv, OneCommandAtATime
<1>2. QED
  BY <1>1, HostInvariance, PTL

(* Behind the claim there is a credential, and it is not lost. *)
THEOREM CredentialIsKept == HostSpec => CredentialKept
<1>1. HostSpec => Wiz!Spec
  BY HostInits, HostSteps, PTL DEF HostSpec, Wiz!Spec
<1>2. QED
  BY <1>1, WizKeepsCredential DEF CredentialKept

(* What the commands reported, answered or recorded is so, of every part.  *)
THEOREM SuccessIsSoAlways == HostSpec => []SuccessIsSo
<1>1. HostInv => RecordIsSo
  BY CallsSafe, MigrateSafe, ConfigSafe DEF HostInv, RecordIsSo
<1>2. HostInv => /\ Remove!GoneAsReported /\ CI!SwitchIsSo /\ CI!PushIsSo
                 /\ Tier!LeavesNoTrace /\ Dev!ReadinessIsSo
  BY RemoveSafe, CISafe, TierSafe, DevSafe DEF HostInv
<1>3. HostInv => SuccessIsSo
  BY <1>1, <1>2 DEF SuccessIsSo
<1>4. QED
  BY <1>3, HostInvariance, PTL

(* Notices offer an upgrade, removals were agreed on, and repositories are *)
(* pinned to runners that could take their jobs.                           *)
THEOREM DoneForAReasonAlways == HostSpec => DoneForAReason
<1>1. HostSpec => Update!Spec /\ Remove!Spec /\ CI!Spec
  BY HostInits, HostSteps, PTL DEF HostSpec, Update!Spec, Remove!Spec, CI!Spec
<1>2. QED
  BY <1>1, UpdateNoticesAreUpgrades, RemovalIsAgreed, CIPinsForAReason DEF DoneForAReason

(* Every part keeps its types. *)
THEOREM HostTypeCorrect == HostSpec => []HostTypeOK
<1>1. HostInv => /\ TypeOK /\ Wiz!TypeOK /\ Edge!TypeOK /\ Migrate!TypeOK /\ Config!TypeOK
  BY ConfigSafe DEF HostInv, IInv, WizInv, CallsInv, MigrateInv
<1>2. HostInv => /\ Update!TypeOK /\ Remove!TypeOK /\ CI!TypeOK /\ Tier!TypeOK /\ Dev!TypeOK
  BY RemoveSafe, CISafe, TierSafe, DevSafe DEF HostInv, UpdateInv
<1>3. HostInv => part \in {"ports", "wizard", "calls", "migrate", "config", "update",
                           "uninstall", "ci", "tier", "dev"}
  BY DEF HostInv
<1>4. HostInv => HostTypeOK
  BY <1>1, <1>2, <1>3 DEF HostTypeOK
<1>5. QED
  BY <1>4, HostInvariance, PTL

=============================================================================
