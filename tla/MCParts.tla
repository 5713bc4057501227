------------------------------ MODULE MCParts ------------------------------
(***************************************************************************)
(* Small instances for TLC of the components whose state spaces are small: *)
(* the provisioner, the lockout of the mailed codes, the administrator     *)
(* endpoints, the operator's machine, the merge gate and the delivery.     *)
(* They do not interact.  One of them runs, chosen at the start; the       *)
(* others stay in one of their initial states.                             *)
(***************************************************************************)
EXTENDS Provisioner, FiniteSets

CONSTANTS
  NoChallenge, NoOwner,
  Requests, GrantIds, OtpIds, WrongSix, WrongEight, MaxGuesses,
  PublicChallenges, Allowlist,                  \* of AdminAuth
  Procs, InviteIds, MaxSecrets,                 \* of OwnerDesk
  Checks, MaxHead, PollInterval, RegisterWindow, RegisterGap, MaxTime,
  GateOptions,                                  \* of MergeGate
  MaxCommits                                    \* of Delivery

(* Identifiers tell codes apart, and what is no code from codes.  Checks   *)
(* register less than a poll interval apart.                               *)
ASSUME PartsAssumption ==
  /\ GrantIds \subseteq Nat \ {0} /\ IsFiniteSet(GrantIds)
  /\ OtpIds \subseteq Nat \ {0} /\ IsFiniteSet(OtpIds)
  /\ GrantIds \intersect OtpIds = {}
  /\ {WrongSix, WrongEight} \intersect (GrantIds \union OtpIds) = {}
  /\ MaxGuesses \in Nat
  /\ NoOwner \notin Emails
  /\ InviteIds \subseteq Nat
  /\ MaxSecrets \in Nat
  /\ MaxHead \in Nat \ {0}
  /\ PollInterval \in Nat /\ RegisterGap \in Nat /\ RegisterGap < PollInterval
  /\ RegisterWindow \in Nat
  /\ MaxTime \in Nat
  /\ GateOptions \subseteq [ wait : BOOLEAN, merges : BOOLEAN, allowNone : BOOLEAN,
                             override : BOOLEAN, timeout : Nat ]
  /\ MaxCommits \in Nat \ {0}

VARIABLES
  part,
  clock, rows, verifier, compared, redeemed,
  grantStatus, grantGuesses, otpStatus, otpGuesses, emailOf,
  phase, ask, held, charges,
  vault, drawn, file, signedBy, server, cmd,
  retired, sealed, answered, stale, clashed,
  now, head, registered, board, job, merged, recorded,
  checkedOut, dirty, feature, baseAhead, localBase, pushed, pr, onBase, step

lockoutVars == <<clock, rows, verifier, compared, redeemed>>
adminVars == <<grantStatus, grantGuesses, otpStatus, otpGuesses, emailOf,
               phase, ask, held, charges>>
deskVars == <<vault, drawn, file, signedBy, server, cmd,
              retired, sealed, answered, stale, clashed>>
gateVars == <<now, head, registered, board, job, merged, recorded>>
deliverVars == <<checkedOut, dirty, feature, baseAhead, localBase, pushed, pr,
                 onBase, step>>

One == CHOOSE e \in Emails : TRUE

Lockout == INSTANCE Challenges WITH
             now <- clock, Emails <- {One}, ChallengeIds <- 1..2,
             MaxAttempts <- 2, TTL <- 2, MaxTime <- 4

Admin == INSTANCE AdminAuth

Desk == INSTANCE OwnerDesk

(* release check; pr deliver, patient and not, with a flag; pr merge.  A   *)
(* timeout may be shorter than the register window.                        *)
Deliver2 == [ wait |-> TRUE, merges |-> TRUE, allowNone |-> TRUE,
              override |-> FALSE, timeout |-> 2 ]

MCOptions ==
  { [Deliver2 EXCEPT !.merges = FALSE, !.allowNone = FALSE],
    Deliver2,
    [Deliver2 EXCEPT !.timeout = 1],
    [Deliver2 EXCEPT !.timeout = 1, !.allowNone = FALSE, !.override = TRUE],
    [Deliver2 EXCEPT !.wait = FALSE] }

Gate == INSTANCE MergeGate WITH Options <- GateOptions

Deliver == INSTANCE Delivery

-----------------------------------------------------------------------------
Init6 ==
  /\ part \in {"provisioner", "lockout", "admin", "desk", "gate", "deliver"}
  /\ Init
  /\ Lockout!Init
  /\ Admin!Init
  /\ Desk!Init
  /\ Gate!Init
  /\ Deliver!Init
  /\ part # "provisioner" => call.uid = CHOOSE u \in Uids : TRUE
  /\ part # "provisioner" => call.email = One
  /\ part # "admin" => \A c \in DOMAIN emailOf : emailOf[c] = One
  /\ part # "desk" => \A p \in DOMAIN cmd : cmd[p].email = One
  /\ part # "desk" => \A p \in DOMAIN cmd :
                       cmd[p].invite = CHOOSE i \in InviteIds : TRUE
  /\ part # "deliver" => ~dirty

Others(p) ==
  /\ UNCHANGED part
  /\ p # "provisioner" => UNCHANGED vars
  /\ p # "lockout" => UNCHANGED lockoutVars
  /\ p # "admin" => UNCHANGED adminVars
  /\ p # "desk" => UNCHANGED deskVars
  /\ p # "gate" => UNCHANGED gateVars
  /\ p # "deliver" => UNCHANGED deliverVars

On(p) == part = p /\ Others(p)

Next6 ==
  \/ On("provisioner") /\ Next
  \/ On("lockout") /\ Lockout!Next
  \/ On("admin") /\ Admin!Next
  \/ On("desk") /\ Desk!Next
  \/ On("gate") /\ Gate!Next
  \/ On("deliver") /\ Deliver!Next

all == <<part, vars, lockoutVars, adminVars, deskVars, gateVars,
         deliverVars>>

(* The fairness of Challenges and of MergeGate.  As the chosen part stays  *)
(* the chosen one, fairness of a disjunction over parts is fairness of     *)
(* each.                                                                   *)
Advance ==
  \/ On("lockout") /\ Lockout!VerifyStep
  \/ On("gate") /\ Gate!Step

Pass ==
  \/ On("lockout") /\ Lockout!Tick
  \/ On("gate") /\ Gate!Tick

Arrive == On("gate") /\ \E c \in Checks : Gate!Register(c)

Fairness6 == WF_all(Advance) /\ WF_all(Pass) /\ WF_all(Arrive)

PartsSpec == Init6 /\ [][Next6]_all /\ Fairness6

-----------------------------------------------------------------------------
(* Every part keeps its types. *)
PartsTypeOK ==
  /\ TypeOK
  /\ Admin!TypeOK
  /\ Desk!TypeOK
  /\ Gate!TypeOK
  /\ Deliver!TypeOK

(* A locked-out address gets out of the lockout (Challenges), and the gate *)
(* answers, whatever the checks do (MergeGate).                            *)
WaitsEnd == Lockout!LockoutEnds /\ Gate!GateAnswers

(* Who is told "verified" has spent a code of the address, and a           *)
(* submission costs one ledger an attempt, not both (AdminAuth).           *)
CodesPayOnce == Admin!VerifiedHasSpentACode /\ Admin!OneLedgerPays

(* What was reported or believed is so: what create, revoke and init said, *)
(* unless a command wrote over the change of another one (OwnerDesk), and  *)
(* a list of checks that was waited for, which is complete (MergeGate).    *)
ReportsHold ==
  /\ Desk!ReportsHoldWithoutClash
  /\ Gate!CompleteListBelieved

(* Every merge has one of the three reasons (MergeGate), and nothing is    *)
(* pruned that the forge holds unmerged (Delivery).                        *)
MergedForAReason == Gate!MergedForAReason /\ Deliver!PrunedIsMerged

=============================================================================
