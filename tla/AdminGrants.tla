---------------------------- MODULE AdminGrants ----------------------------
(***************************************************************************)
(* The owner-issued admin grants of orbit-server: owner/domain.GrantManager *)
(* over the SQLite table "admin_grants".  As with challenges the mutex     *)
(* serialises saving, verifying and revoking, the creation instant is      *)
(* taken before it, and any store call may fail or be cut off by a crash.  *)
(* Unlike challenges the request chooses how long a grant lives, so a      *)
(* newer grant may expire first, and failed attempts are counted on the    *)
(* record that was read, not in the table.                                 *)
(*                                                                         *)
(* A submitted code is the id of the grant it belongs to, or NoGrant.      *)
(* With a store the manager's in-memory map decides nothing but the answer *)
(* of RevokeGrant, which no caller reads; it is left out.                  *)
(***************************************************************************)
EXTENDS Naturals

CONSTANTS
  Emails,           \* normalised addresses
  GrantIds,         \* rows that may ever be created, in order of created_at
  NoGrant,          \* no row; a code that belongs to no grant
  MaxAttempts,      \* DefaultGrantMaxAttempts
  TTLs,             \* lifetimes a request may ask for, in ticks
  MaxTime,          \* bound: the clock stops here
  MaxComparisons    \* bound: comparisons explored per grant

ASSUME GrantIdsAssumption == GrantIds \subseteq Nat
ASSUME NoGrantAssumption == NoGrant \notin GrantIds
ASSUME GrantBoundsAssumption ==
  /\ MaxAttempts \in Nat \ {0}
  /\ TTLs \subseteq Nat \ {0}
  /\ MaxTime \in Nat
  /\ MaxComparisons \in Nat \ {0}

VARIABLES
  now,              \* the server's clock
  grants,           \* the table, and the rows still on their way to it
  verifier,         \* the VerifyGrant call that holds the mutex
  compared,         \* history: comparisons made with each grant
  wrong,            \* history: comparisons that failed
  redeemed,         \* history: calls that answered "verified" with it
  revoked           \* history: grants a RevokeGrant call withdrew

vars == <<now, grants, verifier, compared, wrong, redeemed, revoked>>

-----------------------------------------------------------------------------
GrantRecord == [ where   : {"unused", "drawn", "lost", "saved"},
                 email   : Emails,
                 used    : BOOLEAN,
                 expires : Nat ]

Verifier == [ phase : {"idle", "fetched", "compared", "consumed"},
              email : Emails,
              code  : GrantIds \union {NoGrant},
              grant : GrantIds \union {NoGrant} ]

Idle == verifier.phase = "idle"

(* Mutant: an expired grant has a tick of grace. *)
IsExpiredLate(g) == now > grants[g].expires + 1

(* GrantRecord.IsExpired: strictly past the expiry. *)
IsExpired(g) == now > grants[g].expires

(* Rows that GetGrant selects from, and the one it returns. *)
Candidates(e) ==
  { g \in GrantIds : /\ grants[g].where = "saved"
                     /\ grants[g].email = e
                     /\ ~grants[g].used
                     /\ grants[g].expires > now }

GetGrant(g, e) ==
  /\ g \in Candidates(e)
  /\ \A h \in Candidates(e) : h <= g

(* The table has no column for attempts: every record is read with none. *)
AttemptsRead == 0

(* Mutant: a grant is withdrawn by dating its expiry back. *)
MarkPast(g) == [grants EXCEPT ![g].expires = now - 1]

SaveGrant(g) == [grants EXCEPT ![g].where = "saved"]
MarkUsed(g) == [grants EXCEPT ![g].used = TRUE]

Release ==
  verifier' = [verifier EXCEPT !.phase = "idle", !.code = NoGrant,
                               !.grant = NoGrant]

-----------------------------------------------------------------------------
Init ==
  /\ now = 0
  /\ \E e \in Emails :
       /\ grants = [g \in GrantIds |->
                      [where |-> "unused", email |-> e, used |-> FALSE,
                       expires |-> 0]]
       /\ verifier = [phase |-> "idle", email |-> e,
                      code |-> NoGrant, grant |-> NoGrant]
  /\ compared = [g \in GrantIds |-> 0]
  /\ wrong = [g \in GrantIds |-> 0]
  /\ redeemed = [g \in GrantIds |-> 0]
  /\ revoked = {}

(* CreateGrant and RegisterGrantWithCode up to the mutex. *)
CreateGrant(g, e, ttl) ==
  /\ grants[g].where = "unused"
  /\ \A h \in GrantIds : grants[h].where # "unused" => h < g
  /\ now + ttl <= MaxTime
  /\ grants' = [grants EXCEPT ![g] =
                  [where |-> "drawn", email |-> e, used |-> FALSE,
                   expires |-> now + ttl]]
  /\ UNCHANGED <<now, verifier, compared, wrong, redeemed, revoked>>

(* Mutant: the insert does not wait for the mutex. *)
StoreGrantUnlocked(g) ==
  /\ grants[g].where = "drawn"
  /\ grants' = SaveGrant(g)
  /\ UNCHANGED <<now, verifier, compared, wrong, redeemed, revoked>>

(* ... and under the mutex. *)
StoreGrant(g) ==
  /\ Idle
  /\ grants[g].where = "drawn"
  /\ \/ grants' = SaveGrant(g)
     \/ grants' = [grants EXCEPT ![g].where = "lost"]
  /\ UNCHANGED <<now, verifier, compared, wrong, redeemed, revoked>>

(* VerifyGrant takes the mutex and fetches the newest usable grant. *)
VerifyFetch(e, code, g) ==
  /\ Idle
  /\ GetGrant(g, e)
  /\ compared[g] < MaxComparisons
  /\ verifier' = [phase |-> "fetched", email |-> e, code |-> code, grant |-> g]
  /\ UNCHANGED <<now, grants, compared, wrong, redeemed, revoked>>

(* It expired since it was fetched: ErrGrantExpired. *)
VerifyExpired ==
  /\ verifier.phase = "fetched"
  /\ IsExpired(verifier.grant)
  /\ Release
  /\ UNCHANGED <<now, grants, compared, wrong, redeemed, revoked>>

(* The submitted code is compared with the grant's hash. *)
VerifyCompare ==
  /\ verifier.phase = "fetched"
  /\ ~IsExpired(verifier.grant)
  /\ compared' = [compared EXCEPT ![verifier.grant] = @ + 1]
  /\ verifier' = [verifier EXCEPT !.phase = "compared"]
  /\ UNCHANGED <<now, grants, wrong, redeemed, revoked>>

(* It is wrong.  The attempt is counted on the record in memory, and only  *)
(* a count that reaches the maximum there is written to the table, whether *)
(* or not that write succeeds.                                             *)
VerifyWrong ==
  /\ verifier.phase = "compared"
  /\ verifier.code # verifier.grant
  /\ wrong' = [wrong EXCEPT ![verifier.grant] = @ + 1]
  /\ IF AttemptsRead + 1 >= MaxAttempts
     THEN grants' \in {grants, MarkUsed(verifier.grant)}
     ELSE UNCHANGED grants
  /\ Release
  /\ UNCHANGED <<now, compared, redeemed, revoked>>

(* It is right: the grant is burned in the table ... *)
VerifyConsume ==
  /\ verifier.phase = "compared"
  /\ verifier.code = verifier.grant
  /\ grants' = MarkUsed(verifier.grant)
  /\ verifier' = [verifier EXCEPT !.phase = "consumed"]
  /\ UNCHANGED <<now, compared, wrong, redeemed, revoked>>

(* Mutant: the error of MarkUsed is ignored. *)
VerifyConsumeUnnoticed ==
  /\ verifier.phase = "compared"
  /\ verifier.code = verifier.grant
  /\ verifier' = [verifier EXCEPT !.phase = "consumed"]
  /\ UNCHANGED <<now, grants, compared, wrong, redeemed, revoked>>

(* ... or the store fails, and the caller gets the error. *)
VerifyConsumeFails ==
  /\ verifier.phase = "compared"
  /\ verifier.code = verifier.grant
  /\ Release
  /\ UNCHANGED <<now, grants, compared, wrong, redeemed, revoked>>

VerifyAnswer ==
  /\ verifier.phase = "consumed"
  /\ redeemed' = [redeemed EXCEPT ![verifier.grant] = @ + 1]
  /\ Release
  /\ UNCHANGED <<now, grants, compared, wrong, revoked>>

(* RevokeGrant marks the newest usable grant, if the store lets it. *)
RevokeGrant(e, g) ==
  /\ Idle
  /\ GetGrant(g, e)
  /\ grants' = MarkUsed(g)
  /\ revoked' = revoked \union {g}
  /\ UNCHANGED <<now, verifier, compared, wrong, redeemed>>

(* The daemon is killed and started again. *)
Restart ==
  /\ grants' = [g \in GrantIds |->
                  IF grants[g].where = "drawn"
                  THEN [grants[g] EXCEPT !.where = "lost"]
                  ELSE grants[g]]
  /\ Release
  /\ UNCHANGED <<now, compared, wrong, redeemed, revoked>>

Tick ==
  /\ now < MaxTime
  /\ now' = now + 1
  /\ UNCHANGED <<grants, verifier, compared, wrong, redeemed, revoked>>

Next ==
  \/ \E g \in GrantIds, e \in Emails, ttl \in TTLs : CreateGrant(g, e, ttl)
  \/ \E g \in GrantIds : StoreGrant(g)
  \/ \E e \in Emails, g \in GrantIds,
        code \in GrantIds \union {NoGrant} : VerifyFetch(e, code, g)
  \/ VerifyExpired
  \/ VerifyCompare
  \/ VerifyWrong
  \/ VerifyConsume
  \/ VerifyConsumeFails
  \/ VerifyAnswer
  \/ \E e \in Emails, g \in GrantIds : RevokeGrant(e, g)
  \/ Restart
  \/ Tick

Spec == Init /\ [][Next]_vars

-----------------------------------------------------------------------------
(* Types, for every size of the table. *)
TypeOK ==
  /\ now \in Nat
  /\ grants \in [GrantIds -> GrantRecord]
  /\ verifier \in Verifier
  /\ compared \in [GrantIds -> Nat]
  /\ wrong \in [GrantIds -> Nat]
  /\ redeemed \in [GrantIds -> Nat]
  /\ revoked \subseteq GrantIds

(* The grant compared is the newest of its address that can be redeemed,   *)
(* although grants of one address may expire in either order.  Once the    *)
(* newer one has expired, was used or was revoked, an older one that lives *)
(* longer is good again.                                                   *)
NewestUsableIsCompared ==
  verifier.phase \in {"fetched", "compared"} =>
    \A g \in GrantIds :
      ( /\ grants[g].where = "saved"
        /\ grants[g].email = verifier.email
        /\ ~grants[g].used
        /\ grants[g].expires > now ) => g <= verifier.grant

(* No grant is redeemed twice, also when the store fails to record it.     *)
SingleUse == \A g \in GrantIds : redeemed[g] <= 1

(* A grant is good once, and is compared only while no newer grant of its  *)
(* address is in the table unused and unexpired.                           *)
GoodOnceNewestFirst == SingleUse /\ NewestUsableIsCompared

(* A grant is never compared once a newer one of its address was stored.   *)
(* (TLC refutes it: issuing a grant does not withdraw the ones before it.) *)
SupersededIsDead ==
  verifier.phase \in {"fetched", "compared"} =>
    \A g \in GrantIds :
      grants[g].where = "saved" /\ grants[g].email = verifier.email =>
        g <= verifier.grant

(* Three failed attempts burn the grant in the table. *)
ThreeStrikes ==
  \A g \in GrantIds :
    wrong[g] >= MaxAttempts /\ grants[g].where = "saved" => grants[g].used

-----------------------------------------------------------------------------
HeldPastCheck(g) == verifier.phase = "compared" /\ verifier.grant = g

HeldAtExpiry(g) ==
  verifier.phase = "fetched" /\ verifier.grant = g /\ grants[g].expires = now

(* What the abstract ledger sees of a grant. *)
Status(g) ==
  IF grants[g].where # "saved" THEN "absent"
  ELSE IF grants[g].used
       THEN IF g \in revoked THEN "dead" ELSE "redeemed"
  ELSE IF grants[g].expires > now \/ HeldPastCheck(g) \/ HeldAtExpiry(g)
       THEN "live"
  ELSE "dead"

(* But for the budget the table is a ledger of one-time codes: the guesses *)
(* allowed are whatever bound the model puts on comparisons.               *)
Codes == INSTANCE OneTimeCodes WITH
           CodeId <- GrantIds,
           MaxGuesses <- MaxComparisons,
           status <- [g \in GrantIds |-> Status(g)],
           guesses <- compared

ImplementsUnlimitedCodes == Codes!Spec

=============================================================================
