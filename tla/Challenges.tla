----------------------------- MODULE Challenges -----------------------------
(***************************************************************************)
(* The e-mail challenges of orbit-server: owner/domain.ChallengeManager    *)
(* over the SQLite table "challenges".  The manager's mutex serialises     *)
(* saving and verifying; the creation instant is taken BEFORE the mutex,   *)
(* every store call may fail, time passes inside the mutex, and the        *)
(* process may be killed between two store calls.                          *)
(*                                                                         *)
(* A submitted code is the id of the challenge whose mailed code was       *)
(* typed, or NoChallenge for any other text.  Ids are ordered like the     *)
(* created_at column.  With a store, the manager's in-memory map is        *)
(* written and never read, so it is left out.                              *)
(***************************************************************************)
EXTENDS Naturals

CONSTANTS
  Emails,         \* normalised addresses
  ChallengeIds,   \* rows that may ever be created, in order of created_at
  NoChallenge,    \* no row; a code nobody was sent
  MaxAttempts,    \* DefaultMaxAttempts
  TTL,            \* DefaultChallengeTTL, in ticks
  MaxTime         \* bound: the clock stops here

ASSUME ChallengeIdsAssumption == ChallengeIds \subseteq Nat
ASSUME NoChallengeAssumption == NoChallenge \notin ChallengeIds
ASSUME MaxAttemptsAssumption == MaxAttempts \in Nat \ {0}
ASSUME TimeAssumption == TTL \in Nat \ {0} /\ MaxTime \in Nat

VARIABLES
  now,            \* the server's clock
  rows,           \* the table, and the rows still on their way to it
  verifier,       \* the VerifyCode call that holds the mutex
  compared,       \* history: comparisons made with each row's hash
  redeemed        \* history: calls that answered "verified" for each row

vars == <<now, rows, verifier, compared, redeemed>>

-----------------------------------------------------------------------------
(* A row is drawn (its code, salt and created_at exist), then saved.  A    *)
(* row whose insert failed or was cut off by a crash is lost.              *)
Row == [ where    : {"unused", "drawn", "lost", "saved", "pruned"},
         email    : Emails,
         attempts : Nat,
         verified : BOOLEAN,
         expires  : Nat ]

Verifier == [ phase : {"idle", "fetched", "counted", "consumed"},
              email : Emails,
              code  : ChallengeIds \union {NoChallenge},
              row   : ChallengeIds \union {NoChallenge} ]

Idle == verifier.phase = "idle"

(* What Challenge.IsExpired asks of the clock: strictly past the expiry. *)
IsExpired(c) == now > rows[c].expires

(* Mutant: a query that skips challenges without attempts left. *)
CandidatesWithAttempts(e) ==
  { c \in ChallengeIds : /\ rows[c].where = "saved"
                         /\ rows[c].email = e
                         /\ ~rows[c].verified
                         /\ rows[c].expires > now
                         /\ rows[c].attempts < MaxAttempts }

(* The rows GetActiveChallenge selects from. *)
Candidates(e) ==
  { c \in ChallengeIds : /\ rows[c].where = "saved"
                         /\ rows[c].email = e
                         /\ ~rows[c].verified
                         /\ rows[c].expires > now }

(* ORDER BY created_at DESC LIMIT 1 *)
IsActive(c, e) ==
  /\ c \in Candidates(e)
  /\ \A d \in Candidates(e) : d <= c

(* Mutants: attempts counted down from zero; a challenge never consumed. *)
DecrementAttempts(c) == [rows EXCEPT ![c].attempts = @ - 1]
MarkNothing(c) == rows

(* The table after each of the store's statements. *)
SaveChallenge(c) == [rows EXCEPT ![c].where = "saved"]
IncrementAttempts(c) == [rows EXCEPT ![c].attempts = @ + 1]
MarkVerified(c) == [rows EXCEPT ![c].verified = TRUE]
PruneExpired ==
  [c \in ChallengeIds |->
     IF rows[c].where = "saved" /\ ~rows[c].verified /\ rows[c].expires <= now
     THEN [rows[c] EXCEPT !.where = "pruned"]
     ELSE rows[c]]

-----------------------------------------------------------------------------
Init ==
  /\ now = 0
  /\ \E e \in Emails :
       /\ rows = [c \in ChallengeIds |->
                    [where |-> "unused", email |-> e, attempts |-> 0,
                     verified |-> FALSE, expires |-> 0]]
       /\ verifier = [phase |-> "idle", email |-> e,
                      code |-> NoChallenge, row |-> NoChallenge]
  /\ compared = [c \in ChallengeIds |-> 0]
  /\ redeemed = [c \in ChallengeIds |-> 0]

(* CreateChallenge up to the mutex: the newest created_at so far. *)
Draw(c, e) ==
  /\ rows[c].where = "unused"
  /\ \A d \in ChallengeIds : rows[d].where # "unused" => d < c
  /\ now + TTL <= MaxTime
  /\ rows' = [rows EXCEPT ![c] =
                 [where |-> "drawn", email |-> e, attempts |-> 0,
                  verified |-> FALSE, expires |-> now + TTL]]
  /\ UNCHANGED <<now, verifier, compared, redeemed>>

(* Mutant: the insert does not wait for the mutex. *)
SaveUnlocked(c) ==
  /\ rows[c].where = "drawn"
  /\ rows' = SaveChallenge(c)
  /\ UNCHANGED <<now, verifier, compared, redeemed>>

(* CreateChallenge under the mutex: the insert succeeds or fails. *)
Save(c) ==
  /\ Idle
  /\ rows[c].where = "drawn"
  /\ \/ rows' = SaveChallenge(c)
     \/ rows' = [rows EXCEPT ![c].where = "lost"]
  /\ UNCHANGED <<now, verifier, compared, redeemed>>

(* VerifyCode takes the mutex and fetches the active row.  With none it    *)
(* answers ErrChallengeNotFound and changes nothing.                       *)
VerifyFetch(e, code, c) ==
  /\ Idle
  /\ IsActive(c, e)
  /\ verifier' = [phase |-> "fetched", email |-> e, code |-> code, row |-> c]
  /\ UNCHANGED <<now, rows, compared, redeemed>>

Release ==
  verifier' = [verifier EXCEPT !.phase = "idle", !.code = NoChallenge,
                               !.row = NoChallenge]

(* The row expired since it was fetched: every expired row is deleted. *)
VerifyExpired ==
  /\ verifier.phase = "fetched"
  /\ IsExpired(verifier.row)
  /\ rows' = PruneExpired
  /\ Release
  /\ UNCHANGED <<now, compared, redeemed>>

(* Mutant: being refused renews the challenge, and with it the lockout. *)
VerifyRefuseRenews ==
  /\ verifier.phase = "fetched"
  /\ ~IsExpired(verifier.row)
  /\ rows[verifier.row].attempts >= MaxAttempts
  /\ rows' = [rows EXCEPT ![verifier.row].expires = now + TTL]
  /\ Release
  /\ UNCHANGED <<now, compared, redeemed>>

(* ErrMaxAttemptsExceeded before any comparison. *)
VerifyRefuse ==
  /\ verifier.phase = "fetched"
  /\ ~IsExpired(verifier.row)
  /\ rows[verifier.row].attempts >= MaxAttempts
  /\ Release
  /\ UNCHANGED <<now, rows, compared, redeemed>>

(* Mutant: the attempts left are not checked. *)
VerifyCountUnchecked ==
  /\ verifier.phase = "fetched"
  /\ ~IsExpired(verifier.row)
  /\ rows' = IncrementAttempts(verifier.row)
  /\ verifier' = [verifier EXCEPT !.phase = "counted"]
  /\ UNCHANGED <<now, compared, redeemed>>

(* The attempt is charged in the table before the code is looked at. *)
VerifyCount ==
  /\ verifier.phase = "fetched"
  /\ ~IsExpired(verifier.row)
  /\ rows[verifier.row].attempts < MaxAttempts
  /\ rows' = IncrementAttempts(verifier.row)
  /\ verifier' = [verifier EXCEPT !.phase = "counted"]
  /\ UNCHANGED <<now, compared, redeemed>>

(* The code is compared with the row's hash, and it is not the mailed one. *)
VerifyWrong ==
  /\ verifier.phase = "counted"
  /\ verifier.code # verifier.row
  /\ compared' = [compared EXCEPT ![verifier.row] = @ + 1]
  /\ Release
  /\ UNCHANGED <<now, rows, redeemed>>

(* The right code consumes the row in the table ... *)
VerifyConsume ==
  /\ verifier.phase = "counted"
  /\ verifier.code = verifier.row
  /\ compared' = [compared EXCEPT ![verifier.row] = @ + 1]
  /\ rows' = MarkVerified(verifier.row)
  /\ verifier' = [verifier EXCEPT !.phase = "consumed"]
  /\ UNCHANGED <<now, redeemed>>

(* ... and then answers "verified", unless the daemon dies in between. *)
VerifyAnswer ==
  /\ verifier.phase = "consumed"
  /\ redeemed' = [redeemed EXCEPT ![verifier.row] = @ + 1]
  /\ Release
  /\ UNCHANGED <<now, rows, compared>>

(* Mutant: the error of IncrementAttempts is ignored. *)
CountFailsUnnoticed ==
  /\ verifier.phase = "fetched"
  /\ ~IsExpired(verifier.row)
  /\ rows[verifier.row].attempts < MaxAttempts
  /\ verifier' = [verifier EXCEPT !.phase = "counted"]
  /\ UNCHANGED <<now, rows, compared, redeemed>>

(* IncrementAttempts failed: the caller gets the error, nothing is charged. *)
CountFails ==
  /\ verifier.phase = "fetched"
  /\ ~IsExpired(verifier.row)
  /\ rows[verifier.row].attempts < MaxAttempts
  /\ Release
  /\ UNCHANGED <<now, rows, compared, redeemed>>

(* MarkVerified failed: the right code was compared and is not consumed.   *)
MarkFails ==
  /\ verifier.phase = "counted"
  /\ verifier.code = verifier.row
  /\ compared' = [compared EXCEPT ![verifier.row] = @ + 1]
  /\ Release
  /\ UNCHANGED <<now, rows, redeemed>>

(* ChallengeManager.Clear takes the mutex and prunes the table. *)
Clear ==
  /\ Idle
  /\ rows' = PruneExpired
  /\ UNCHANGED <<now, verifier, compared, redeemed>>

(* The daemon is killed and started again: only the table survives. *)
Restart ==
  /\ rows' = [c \in ChallengeIds |->
                IF rows[c].where = "drawn"
                THEN [rows[c] EXCEPT !.where = "lost"]
                ELSE rows[c]]
  /\ Release
  /\ UNCHANGED <<now, compared, redeemed>>

Tick ==
  /\ now < MaxTime
  /\ now' = now + 1
  /\ UNCHANGED <<rows, verifier, compared, redeemed>>

VerifyStep ==
  \/ VerifyExpired \/ VerifyRefuse \/ VerifyCount
  \/ VerifyWrong \/ VerifyConsume \/ VerifyAnswer

Next ==
  \/ \E c \in ChallengeIds, e \in Emails : Draw(c, e)
  \/ \E c \in ChallengeIds : Save(c)
  \/ \E e \in Emails, c \in ChallengeIds,
        code \in ChallengeIds \union {NoChallenge} : VerifyFetch(e, code, c)
  \/ VerifyStep
  \/ CountFails
  \/ MarkFails
  \/ Clear
  \/ Restart
  \/ Tick

Spec == Init /\ [][Next]_vars

(* A goroutine that holds the mutex keeps running, and the clock moves.    *)
(* Nobody has to ask for a code or submit one.                             *)
FairSpec == Spec /\ WF_vars(VerifyStep) /\ WF_vars(Tick)

-----------------------------------------------------------------------------
(* Types, for every size of the table. *)
TypeOK ==
  /\ now \in Nat
  /\ rows \in [ChallengeIds -> Row]
  /\ verifier \in Verifier
  /\ compared \in [ChallengeIds -> Nat]
  /\ redeemed \in [ChallengeIds -> Nat]

(* A mailed code is compared with at most MaxAttempts submissions in its   *)
(* life, across store failures, crashes and restarts, because VerifyCode   *)
(* charges the table before it compares.                                   *)
GuessBudget == \A c \in ChallengeIds : compared[c] <= MaxAttempts

(* A mailed code answers "verified" at most once, even when the store      *)
(* fails or the daemon dies between the comparison and MarkVerified.       *)
SingleRedemption == \A c \in ChallengeIds : redeemed[c] <= 1

(* While VerifyCode looks at a row, no newer challenge of that address is  *)
(* waiting in the table: the code in the latest mail is the one that works. *)
NewestIsCompared ==
  verifier.phase \in {"fetched", "counted"} =>
    \A d \in ChallengeIds :
      ( /\ rows[d].where = "saved"
        /\ rows[d].email = verifier.email
        /\ ~rows[d].verified
        /\ rows[d].expires > now ) => d <= verifier.row

(* The latest unexpired challenge of e has no attempts left, and no call    *)
(* that charged an attempt for e is still on its way to an answer.         *)
LockedOut(e) ==
  /\ verifier.email = e => verifier.phase \in {"idle", "fetched"}
  /\ \E c \in ChallengeIds :
       /\ rows[c].where = "saved" /\ rows[c].email = e /\ ~rows[c].verified
       /\ rows[c].expires > now
       /\ rows[c].attempts >= MaxAttempts
       /\ \A d \in ChallengeIds :
            rows[d].where = "saved" /\ rows[d].email = e /\ ~rows[d].verified
              => d <= c

(* Three wrong codes lock the address, not only the row: until the latest  *)
(* challenge expires, an older code that was never guessed at is neither   *)
(* charged nor consumed.                                                   *)
LockoutCoversOlderCodes ==
  [][\A e \in Emails, c \in ChallengeIds :
       LockedOut(e) /\ rows[c].email = e
         => /\ rows'[c].attempts = rows[c].attempts
            /\ rows'[c].verified = rows[c].verified]_vars

(* ... and the lockout ends: it lasts no longer than the challenge.        *)
LockoutEnds == \A e \in Emails : LockedOut(e) ~> ~LockedOut(e)

-----------------------------------------------------------------------------
(* A row still counts for what it was while a VerifyCode call that found   *)
(* it valid is between its check and its answer.                           *)
HeldPastCheck(c) == verifier.phase = "counted" /\ verifier.row = c

HeldAtExpiry(c) ==
  verifier.phase = "fetched" /\ verifier.row = c /\ rows[c].expires = now

Redeemable(c) ==
  \/ HeldPastCheck(c)
  \/ /\ rows[c].attempts < MaxAttempts
     /\ rows[c].expires > now \/ HeldAtExpiry(c)

Status(c) ==
  IF rows[c].where \in {"unused", "drawn", "lost"} THEN "absent"
  ELSE IF rows[c].verified THEN "redeemed"
  ELSE IF rows[c].where = "saved" /\ Redeemable(c) THEN "live"
  ELSE "dead"

Codes == INSTANCE OneTimeCodes WITH
           CodeId <- ChallengeIds,
           MaxGuesses <- MaxAttempts,
           status <- [c \in ChallengeIds |-> Status(c)],
           guesses <- [c \in ChallengeIds |-> rows[c].attempts]

(* The table and its mutex implement the one-time codes of OneTimeCodes.   *)
ImplementsOneTimeCodes == Codes!Spec

=============================================================================
