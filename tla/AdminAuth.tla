----------------------------- MODULE AdminAuth -----------------------------
(***************************************************************************)
(* The administrator endpoints of the edge over its two ledgers of codes:  *)
(* handleAdminChallenge mails six digits to an address, an owner registers *)
(* eight digits through handleAdminGrantCreate, and handleAdminVerify      *)
(* takes either: a submission of eight digits is shown to the grants, and  *)
(* to the challenges only if its address has no usable grant.              *)
(*                                                                         *)
(* Each ledger is taken as OneTimeCodes, which Challenges and AdminGrants  *)
(* implement: a submission is charged to the newest live code of its       *)
(* address and then redeems it or not, under the mutex of the manager, so  *)
(* one submission at a time is between the two steps.                      *)
(***************************************************************************)
EXTENDS Naturals

CONSTANTS
  Requests,         \* submissions that may ever be sent
  Emails,
  GrantIds, OtpIds, \* codes, in the order they are issued
  WrongSix,         \* six digits that are no code ...
  WrongEight,       \* ... and eight
  MaxGuesses,       \* of the challenges; a bound for the grants
  PublicChallenges, \* ~DisablePublicChallenges
  Allowlist         \* AllowedAdminEmails; {} allows every address

VARIABLES
  grantStatus, grantGuesses,
  otpStatus, otpGuesses,
  emailOf,          \* the address each code was issued for
  phase, ask,       \* of each submission
  held,             \* the code it was charged to last, or 0
  charges           \* history: codes it was charged to

vars == <<grantStatus, grantGuesses, otpStatus, otpGuesses, emailOf,
          phase, ask, held, charges>>

Grants == INSTANCE OneTimeCodes WITH
            CodeId <- GrantIds, status <- grantStatus, guesses <- grantGuesses
Otps == INSTANCE OneTimeCodes WITH
          CodeId <- OtpIds, status <- otpStatus, guesses <- otpGuesses

grants == <<grantStatus, grantGuesses>>
otps == <<otpStatus, otpGuesses>>

Phases == {"new", "received", "otp", "grantCharged", "otpCharged",
           "consumed", "verified", "rejected", "cut"}

Codes == GrantIds \union OtpIds

(* CleanCode leaves eight digits. *)
Eight(code) == code \in GrantIds \union {WrongEight}

UsableGrants(e) ==
  { g \in GrantIds : grantStatus[g] = "live" /\ emailOf[g] = e }

UsableOtps(e) ==
  { c \in OtpIds : otpStatus[c] = "live" /\ emailOf[c] = e }

Newest(S) == CHOOSE c \in S : \A d \in S : d <= c

-----------------------------------------------------------------------------
Init ==
  /\ Grants!Init
  /\ Otps!Init
  /\ \E e \in Emails :
       /\ emailOf = [c \in Codes |-> e]
       /\ ask = [r \in Requests |-> [email |-> e, code |-> WrongSix]]
  /\ phase = [r \in Requests |-> "new"]
  /\ held = [r \in Requests |-> 0]
  /\ charges = [r \in Requests |-> {}]

(* Both endpoints that issue codes.  A challenge is stored before its mail *)
(* is sent and stays when sending fails, so the mail decides nothing here. *)
handleAdminChallenge(e, c) ==
  /\ PublicChallenges
  /\ Allowlist = {} \/ e \in Allowlist
  /\ \A d \in OtpIds : otpStatus[d] = "absent" => c <= d
  /\ Otps!Issue(c)
  /\ emailOf' = [emailOf EXCEPT ![c] = e]
  /\ UNCHANGED <<grants, phase, ask, held, charges>>

handleAdminGrantCreate(e, g) ==
  /\ \A h \in GrantIds : grantStatus[h] = "absent" => g <= h
  /\ Grants!Issue(g)
  /\ emailOf' = [emailOf EXCEPT ![g] = e]
  /\ UNCHANGED <<otps, phase, ask, held, charges>>

(* handleAdminVerify: the request is read, or refused by the limiter. *)
Submit(r, e, code) ==
  /\ phase[r] = "new"
  /\ ask' = [ask EXCEPT ![r] = [email |-> e, code |-> code]]
  /\ phase' \in { [phase EXCEPT ![r] = IF Eight(code) THEN "received"
                                                       ELSE "otp"],
                  [phase EXCEPT ![r] = "rejected"] }
  /\ UNCHANGED <<grants, otps, emailOf, held, charges>>

(* Eight digits: ErrGrantNotFound goes on to the challenges ... *)
GrantNotFound(r) ==
  /\ phase[r] = "received"
  /\ UsableGrants(ask[r].email) = {}
  /\ phase' = [phase EXCEPT ![r] = "otp"]
  /\ UNCHANGED <<grants, otps, emailOf, ask, held, charges>>

ChargeGrant(r) ==
  /\ phase[r] = "received"
  /\ \A q \in Requests : phase[q] # "grantCharged"
  /\ UsableGrants(ask[r].email) # {}
  /\ LET g == Newest(UsableGrants(ask[r].email)) IN
       /\ Grants!Charge(g)
       /\ held' = [held EXCEPT ![r] = g]
       /\ charges' = [charges EXCEPT ![r] = @ \union {g}]
  /\ phase' = [phase EXCEPT ![r] = "grantCharged"]
  /\ UNCHANGED <<otps, emailOf, ask>>

(* Mutant: a code that is not the grant's is tried as a challenge too. *)
GrantRefusedGoesOn(r) ==
  /\ phase[r] = "grantCharged"
  /\ ask[r].code # held[r] \/ grantStatus[held[r]] # "live"
  /\ phase' = [phase EXCEPT ![r] = "otp"]
  /\ UNCHANGED <<grants, otps, emailOf, ask, held, charges>>

(* ... every other error is the answer. *)
GrantRefused(r) ==
  /\ phase[r] = "grantCharged"
  /\ ask[r].code # held[r] \/ grantStatus[held[r]] # "live"
  /\ phase' = [phase EXCEPT ![r] = "rejected"]
  /\ UNCHANGED <<grants, otps, emailOf, ask, held, charges>>

(* Mutant: the grant is looked at and left as it is. *)
RedeemGrantKeeps(r) ==
  /\ phase[r] = "grantCharged"
  /\ ask[r].code = held[r]
  /\ phase' = [phase EXCEPT ![r] = "consumed"]
  /\ UNCHANGED <<grants, otps, emailOf, ask, held, charges>>

RedeemGrant(r) ==
  /\ phase[r] = "grantCharged"
  /\ ask[r].code = held[r]
  /\ Grants!Redeem(held[r])
  /\ phase' = [phase EXCEPT ![r] = "consumed"]
  /\ UNCHANGED <<otps, emailOf, ask, held, charges>>

(* The challenges: none, no guess left, a store error, or a guess. *)
OtpRefused(r) ==
  /\ phase[r] = "otp"
  /\ phase' = [phase EXCEPT ![r] = "rejected"]
  /\ UNCHANGED <<grants, otps, emailOf, ask, held, charges>>

ChargeOtp(r) ==
  /\ phase[r] = "otp"
  /\ \A q \in Requests : phase[q] # "otpCharged"
  /\ UsableOtps(ask[r].email) # {}
  /\ LET c == Newest(UsableOtps(ask[r].email)) IN
       /\ Otps!Charge(c)
       /\ held' = [held EXCEPT ![r] = c]
       /\ charges' = [charges EXCEPT ![r] = @ \union {c}]
  /\ phase' = [phase EXCEPT ![r] = "otpCharged"]
  /\ UNCHANGED <<grants, emailOf, ask>>

OtpMismatch(r) ==
  /\ phase[r] = "otpCharged"
  /\ ask[r].code # held[r] \/ otpStatus[held[r]] # "live"
  /\ phase' = [phase EXCEPT ![r] = "rejected"]
  /\ UNCHANGED <<grants, otps, emailOf, ask, held, charges>>

RedeemOtp(r) ==
  /\ phase[r] = "otpCharged"
  /\ ask[r].code = held[r]
  /\ Otps!Redeem(held[r])
  /\ phase' = [phase EXCEPT ![r] = "consumed"]
  /\ UNCHANGED <<grants, emailOf, ask, held, charges>>

Answer(r) ==
  /\ phase[r] = "consumed"
  /\ phase' = [phase EXCEPT ![r] = "verified"]
  /\ UNCHANGED <<grants, otps, emailOf, ask, held, charges>>

(* Codes expire while requests are handled. *)
Expire ==
  /\ \/ \E g \in GrantIds : Grants!Die({g}) /\ UNCHANGED otps
     \/ \E c \in OtpIds : Otps!Die({c}) /\ UNCHANGED grants
  /\ UNCHANGED <<emailOf, phase, ask, held, charges>>

(* The daemon is killed: the ledgers are on disk, the requests are cut. *)
InFlight == {"received", "otp", "grantCharged", "otpCharged", "consumed"}

Restart ==
  /\ \E r \in Requests : phase[r] \in InFlight
  /\ phase' = [r \in Requests |->
                 IF phase[r] \in InFlight THEN "cut" ELSE phase[r]]
  /\ UNCHANGED <<grants, otps, emailOf, ask, held, charges>>

Verify(r) ==
  \/ GrantNotFound(r)
  \/ ChargeGrant(r)
  \/ GrantRefused(r)
  \/ RedeemGrant(r)
  \/ OtpRefused(r)
  \/ ChargeOtp(r)
  \/ OtpMismatch(r)
  \/ RedeemOtp(r)
  \/ Answer(r)

Next ==
  \/ \E e \in Emails, c \in OtpIds : handleAdminChallenge(e, c)
  \/ \E e \in Emails, g \in GrantIds : handleAdminGrantCreate(e, g)
  \/ \E r \in Requests, e \in Emails, code \in Codes \union {WrongSix, WrongEight} :
       Submit(r, e, code)
  \/ \E r \in Requests : Verify(r)
  \/ Expire
  \/ Restart

Spec == Init /\ [][Next]_vars

-----------------------------------------------------------------------------
(* The ledgers and the requests have their types. *)
TypeOK ==
  /\ grantStatus \in [GrantIds -> {"absent", "live", "redeemed", "dead"}]
  /\ otpStatus \in [OtpIds -> {"absent", "live", "redeemed", "dead"}]
  /\ grantGuesses \in [GrantIds -> 0..MaxGuesses]
  /\ otpGuesses \in [OtpIds -> 0..MaxGuesses]
  /\ emailOf \in [Codes -> Emails]
  /\ phase \in [Requests -> Phases]
  /\ ask \in [Requests -> [ email : Emails,
                            code  : Codes \union {WrongSix, WrongEight} ]]
  /\ held \in [Requests -> Codes \union {0}]
  /\ charges \in [Requests -> SUBSET Codes]

(* Whoever is told "verified" has spent a code of the address, alone:      *)
(* handlers that run side by side never both answer for one code.          *)
VerifiedHasSpentACode ==
  \A r \in Requests :
    phase[r] \in {"consumed", "verified"} =>
      /\ ask[r].code \in Codes
      /\ emailOf[ask[r].code] = ask[r].email
      /\ ask[r].code \in GrantIds => grantStatus[ask[r].code] = "redeemed"
      /\ ask[r].code \in OtpIds => otpStatus[ask[r].code] = "redeemed"
      /\ \A q \in Requests \ {r} :
           phase[q] \in {"consumed", "verified"} => ask[q].code # ask[r].code

(* One submission is one guess: it costs at most one code of one ledger an *)
(* attempt, although it may be shown to both.                              *)
OneLedgerPays == \A r \in Requests : \A c, d \in charges[r] : c = d

=============================================================================
