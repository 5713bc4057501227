---------------------------- MODULE ClaimServer ----------------------------
(***************************************************************************)
(* Concurrent claims of invitations at the onboarding edge: the goroutines *)
(* of server.handleClaim, the idempotency cache they share, and the        *)
(* directory of accounts behind them.  Provision is one step here; that    *)
(* the real provisioner behaves so is what Provisioner shows.              *)
(*                                                                         *)
(* A client may send a claim again before, while or after an earlier copy  *)
(* is handled (it timed out, its answer was lost, the user ran the command *)
(* again), from the same machine or another.  It may name an idempotency   *)
(* key of its own in a header; nothing ties that key to its token, and the *)
(* cache is asked for it before the token is looked at.  Cache and         *)
(* directory are in memory and do not survive a restart.                   *)
(***************************************************************************)
EXTENDS Naturals, FiniteSets

CONSTANTS
  Requests,       \* claims that may ever be sent
  Invites,        \* invitation tokens
  Machines,       \* machine fingerprints
  Headers,        \* keys a client may name: [X-]Idempotency-Key
  Uids, Emails,
  EmailOf,        \* the address a token was signed for
  UidOf,          \* the uid its owner asks for (--uid, or the local part)
  Credentials,    \* random tokens, one per account ever created
  NoAccount,      \* nothing: no account, no response, nothing asked
  MaxRevoked      \* bound: revocations explored

ASSUME ClaimAssumption ==
  /\ EmailOf \in [Invites -> Emails]
  /\ UidOf \in [Invites -> Uids]
  /\ MaxRevoked \in Nat
  /\ NoAccount \notin [email : Emails, cred : Credentials]

VARIABLES
  accounts,       \* the directory
  spent,          \* history: credentials that were ever drawn
  cache,          \* idempotency key -> response
  phase,          \* where the handler of each request is, or its outcome
  ask,            \* token and idempotency key of each request
  answer,         \* the response the handler has in hand or sent
  revoked,        \* tokens an administrator revoked with the CLI
  late            \* history: requests sent after their token was revoked

vars == <<accounts, spent, cache, phase, ask, answer, revoked, late>>

Directory == INSTANCE AccountDirectory

Response == [uid : Uids, cred : Credentials]
Keys == (Invites \X Machines) \union Headers
Ask == [token : Invites, key : Keys]
Phases == {"new", "received", "missed", "valid", "authorized",
           "provisioned", "answered", "refused", "cut"}

Token(r) == ask[r].token
Key(r) == ask[r].key

(* The keys a claim of token t may come with: the one computed from token  *)
(* and machine, or the one a header names, which takes precedence.         *)
KeysOf(t) == ({t} \X Machines) \union Headers

(* The tokens revoked in the server's own invites table.  Nothing writes   *)
(* that table: orbit invite revoke edits a file on the administrator's     *)
(* machine.                                                                *)
RevokedOnServer == {}

-----------------------------------------------------------------------------
Init ==
  /\ Directory!Init
  /\ spent = {}
  /\ cache = [k \in Keys |-> NoAccount]
  /\ phase = [r \in Requests |-> "new"]
  /\ ask = [r \in Requests |-> NoAccount]
  /\ answer = [r \in Requests |-> NoAccount]
  /\ revoked = {}
  /\ late = {}

Move(r, p) == phase' = [phase EXCEPT ![r] = p]

Receive(r, t, k) ==
  /\ phase[r] = "new"
  /\ k \in KeysOf(t)
  /\ Move(r, "received")
  /\ ask' = [ask EXCEPT ![r] = [token |-> t, key |-> k]]
  /\ late' = IF t \in revoked THEN late \union {r} ELSE late
  /\ UNCHANGED <<accounts, spent, cache, answer, revoked>>

(* 429: over the limit of the address or of the token. *)
Limited(r) ==
  /\ phase[r] = "received"
  /\ Move(r, "refused")
  /\ UNCHANGED <<accounts, spent, cache, ask, answer, revoked, late>>

(* The idempotency cache answers before the token is looked at: with what  *)
(* the last claim under this key was answered, of whichever token.         *)
Replay(r) ==
  /\ phase[r] = "received"
  /\ cache[Key(r)] # NoAccount
  /\ answer' = [answer EXCEPT ![r] = cache[Key(r)]]
  /\ Move(r, "answered")
  /\ UNCHANGED <<accounts, spent, cache, ask, revoked, late>>

Miss(r) ==
  /\ phase[r] = "received"
  /\ cache[Key(r)] = NoAccount
  /\ Move(r, "missed")
  /\ UNCHANGED <<accounts, spent, cache, ask, answer, revoked, late>>

(* ValidateToken: 401 if it has expired by now. *)
Validate(r) ==
  /\ phase[r] = "missed"
  /\ Move(r, "valid") \/ Move(r, "refused")
  /\ UNCHANGED <<accounts, spent, cache, ask, answer, revoked, late>>

(* A record that is missing, or cannot be read, is not a revoked one. *)
CheckRevocation(r) ==
  /\ phase[r] = "valid"
  /\ Token(r) \notin RevokedOnServer
  /\ Move(r, "authorized")
  /\ UNCHANGED <<accounts, spent, cache, ask, answer, revoked, late>>

(* Mutant: an account is found again without its credential. *)
ReconnectEmpty(r, v) ==
  /\ phase[r] = "authorized"
  /\ Directory!Matches(UidOf[Token(r)], v, EmailOf[Token(r)])
  /\ answer' = [answer EXCEPT ![r] = [uid |-> v, cred |-> NoAccount]]
  /\ Move(r, "provisioned")
  /\ UNCHANGED <<accounts, spent, cache, ask, revoked, late>>

(* The provisioner knows the person: the stored account is the answer. *)
Reconnect(r, v) ==
  /\ phase[r] = "authorized"
  /\ Directory!Matches(UidOf[Token(r)], v, EmailOf[Token(r)])
  /\ answer' = [answer EXCEPT ![r] = [uid |-> v, cred |-> accounts[v].cred]]
  /\ Move(r, "provisioned")
  /\ UNCHANGED <<accounts, spent, cache, ask, revoked, late>>

(* Mutant: the provisioner does not look whether it knows the person. *)
ProvisionAnyway(r, k) ==
  /\ phase[r] = "authorized"
  /\ k \notin spent
  /\ spent' = spent \union {k}
  /\ accounts' = [accounts EXCEPT ![UidOf[Token(r)]] =
                    [email |-> EmailOf[Token(r)], cred |-> k]]
  /\ answer' = [answer EXCEPT ![r] = [uid |-> UidOf[Token(r)], cred |-> k]]
  /\ Move(r, "provisioned")
  /\ UNCHANGED <<cache, ask, revoked, late>>

(* The provisioner creates the account ... *)
Provision(r, k) ==
  /\ phase[r] = "authorized"
  /\ k \notin spent
  /\ Directory!Create(UidOf[Token(r)], EmailOf[Token(r)], k)
  /\ spent' = spent \union {k}
  /\ answer' = [answer EXCEPT ![r] = [uid |-> UidOf[Token(r)], cred |-> k]]
  /\ Move(r, "provisioned")
  /\ UNCHANGED <<cache, ask, revoked, late>>

(* ... or one of its stages fails for somebody new: 500, nothing is left.  *)
ProvisionFails(r) ==
  /\ phase[r] = "authorized"
  /\ \A v \in Uids : ~Directory!Matches(UidOf[Token(r)], v, EmailOf[Token(r)])
  /\ Move(r, "refused")
  /\ UNCHANGED <<accounts, spent, cache, ask, answer, revoked, late>>

(* The response is cached under the key of the request, and sent. *)
Answer(r) ==
  /\ phase[r] = "provisioned"
  /\ cache' = [cache EXCEPT ![Key(r)] = answer[r]]
  /\ Move(r, "answered")
  /\ UNCHANGED <<accounts, spent, ask, answer, revoked, late>>

(* IdempotencyTTL passes for one entry. *)
CacheExpires(k) ==
  /\ cache[k] # NoAccount
  /\ cache' = [cache EXCEPT ![k] = NoAccount]
  /\ UNCHANGED <<accounts, spent, phase, ask, answer, revoked, late>>

(* orbit invite revoke, on the administrator's machine. *)
RevokeInvite(t) ==
  /\ t \notin revoked
  /\ Cardinality(revoked) < MaxRevoked
  /\ revoked' = revoked \union {t}
  /\ UNCHANGED <<accounts, spent, cache, phase, ask, answer, late>>

(* Mutant: the cache is kept on disk, the directory is not. *)
RestartKeepsCache ==
  /\ Directory!Lose
  /\ phase' = [r \in Requests |-> IF phase[r] = "new" THEN "new" ELSE "cut"]
  /\ UNCHANGED <<spent, cache, ask, answer, revoked, late>>

(* The daemon is killed and started again.  What earlier requests were     *)
(* answered is of no concern to the new process.                           *)
Restart ==
  /\ Directory!Lose
  /\ cache' = [k \in Keys |-> NoAccount]
  /\ phase' = [r \in Requests |-> IF phase[r] = "new" THEN "new" ELSE "cut"]
  /\ UNCHANGED <<spent, ask, answer, revoked, late>>

Next ==
  \/ \E r \in Requests :
       \/ \E t \in Invites, k \in Keys : Receive(r, t, k)
       \/ Limited(r) \/ Replay(r) \/ Miss(r) \/ Validate(r)
       \/ CheckRevocation(r)
       \/ \E v \in Uids : Reconnect(r, v)
       \/ \E k \in Credentials : Provision(r, k)
       \/ ProvisionFails(r) \/ Answer(r)
  \/ \E k \in Keys : CacheExpires(k)
  \/ \E t \in Invites : RevokeInvite(t)
  \/ Restart

Spec == Init /\ [][Next]_vars

-----------------------------------------------------------------------------
(* Types, for any number of requests. *)
TypeOK ==
  /\ accounts \in [Uids -> Directory!Account \union {NoAccount}]
  /\ spent \subseteq Credentials
  /\ cache \in [Keys -> Response \union {NoAccount}]
  /\ phase \in [Requests -> Phases]
  /\ ask \in [Requests -> Ask \union {NoAccount}]
  /\ \A r \in Requests : phase[r] # "new" => ask[r] \in Ask
  /\ answer \in [Requests -> Response \union {NoAccount}]
  /\ revoked \subseteq Invites
  /\ late \subseteq Requests

(* Nobody with another address asks for the uid of this token. *)
OwnUid(t) == \A s \in Invites : UidOf[s] = UidOf[t] => EmailOf[s] = EmailOf[t]

Answered(r) == phase[r] \in {"provisioned", "answered"}

(* Everybody who was answered under the key of r has the address of r, and *)
(* a uid that nobody with another address asks for.                        *)
OwnKey(r) ==
  \A s \in Requests :
    Answered(s) /\ Key(s) = Key(r) =>
      EmailOf[Token(s)] = EmailOf[Token(r)] /\ OwnUid(Token(s))

(* However claims of one person interleave, from whichever machine, with   *)
(* whichever of their invitations and under whichever keys, every answer   *)
(* one process gives carries the same account and credential, as long as   *)
(* they share no idempotency key with anybody else.                        *)
OneCredentialPerPerson ==
  \A q, r \in Requests :
    ( /\ Answered(q) /\ Answered(r)
      /\ EmailOf[Token(q)] = EmailOf[Token(r)]
      /\ OwnKey(q) /\ OwnKey(r) ) => answer[q] = answer[r]

(* An answer names the account of the address that the token was signed    *)
(* for, where nobody else asks for that uid.  (TLC refutes it: a key that  *)
(* a header names is tied to no token, and two people may name one.)       *)
AnswersOwnAccount ==
  \A r \in Requests :
    phase[r] = "answered" /\ OwnUid(Token(r)) =>
      accounts[answer[r].uid].email = EmailOf[Token(r)]

(* The cache never replays a credential that the directory does not hold.  *)
CacheIsLive ==
  \A k \in Keys :
    cache[k] # NoAccount =>
      /\ accounts[cache[k].uid] # NoAccount
      /\ accounts[cache[k].uid].cred = cache[k].cred

(* A claim sent after its invitation was revoked is rejected.              *)
RevokedIsRejected == \A r \in late : phase[r] # "answered"

=============================================================================
