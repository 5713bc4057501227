---------------------------- MODULE ClaimProofs ----------------------------
(***************************************************************************)
(* Proofs about ClaimServer for every set of requests, invitations,        *)
(* machines, header keys, people and credentials: its types, that the      *)
(* cache is live, and that one process gives a person who shares no        *)
(* idempotency key with others one credential.                             *)
(***************************************************************************)
EXTENDS ClaimServer, TLAPS

Exists(u) == Directory!Exists(u)

(* An account was made for somebody with an invitation for its uid, and    *)
(* no two accounts have one address.                                       *)
AccountsOK ==
  /\ \A u \in Uids : Exists(u) =>
       \E t \in Invites : UidOf[t] = u /\ EmailOf[t] = accounts[u].email
  /\ \A u, v \in Uids :
       Exists(u) /\ Exists(v) /\ accounts[u].email = accounts[v].email => u = v

(* The response a names an account that the holder of t is entitled to: it *)
(* has the uid the holder asks for, or the holder's address.               *)
Serves(t, a) ==
  /\ a \in Response
  /\ Exists(a.uid)
  /\ accounts[a.uid].cred = a.cred
  /\ a.uid = UidOf[t] \/ accounts[a.uid].email = EmailOf[t]

(* An entry of the cache was made for a claim answered under its key, and  *)
(* so was every answer: for r itself, or for somebody with the same key.   *)
CacheOK ==
  \A k \in Keys : cache[k] # NoAccount =>
    \E q \in Requests : Answered(q) /\ Key(q) = k /\ Serves(Token(q), cache[k])

AnswersOK ==
  \A r \in Requests : Answered(r) =>
    \E q \in Requests :
      Answered(q) /\ Key(q) = Key(r) /\ Serves(Token(q), answer[r])

IInv == TypeOK /\ AccountsOK /\ CacheOK /\ AnswersOK

-----------------------------------------------------------------------------
LEMMA InitEstablishesIInv == Init => IInv
<1> SUFFICES ASSUME Init PROVE IInv
  OBVIOUS
<1>1. TypeOK
  BY DEF Init, TypeOK, Directory!Init, Phases
<1>2. AccountsOK
  BY DEF Init, AccountsOK, Exists, Directory!Init, Directory!Exists
<1>3. CacheOK /\ AnswersOK
  BY DEF Init, CacheOK, AnswersOK, Answered
<1> QED BY <1>1, <1>2, <1>3 DEF IInv

(* What a request that was received asks for.                              *)
LEMMA AskIsTyped ==
  ASSUME TypeOK, NEW r \in Requests, phase[r] # "new"
  PROVE  /\ Token(r) \in Invites /\ Key(r) \in Keys
         /\ UidOf[Token(r)] \in Uids /\ EmailOf[Token(r)] \in Emails
<1>1. ask[r] \in Ask
  BY DEF TypeOK
<1> QED BY <1>1, ClaimAssumption DEF Token, Key, Ask

(* Steps that leave the accounts alone leave what is said of them alone.   *)
LEMMA AccountsStay ==
  ASSUME AccountsOK, UNCHANGED accounts
  PROVE  AccountsOK'
BY DEF AccountsOK, Exists, Directory!Exists

(* Requests that were answered stay what they are, and so does what they   *)
(* vouch for.                                                              *)
LEMMA VoucherStays ==
  ASSUME \A u \in Uids : Exists(u) => accounts'[u] = accounts[u],
         NEW q \in Requests, NEW k, NEW a,
         Answered(q), Answered(q)', ask'[q] = ask[q],
         Key(q) = k, Serves(Token(q), a)
  PROVE  (Answered(q) /\ Key(q) = k /\ Serves(Token(q), a))'
<1>1. accounts'[a.uid] = accounts[a.uid]
  BY DEF Serves, Response
<1> QED BY <1>1 DEF Serves, Exists, Directory!Exists, Token, Key

(* Entries of the cache that stay keep their vouchers.                     *)
LEMMA CacheStays ==
  ASSUME CacheOK,
         \A u \in Uids : Exists(u) => accounts'[u] = accounts[u],
         \A q \in Requests : Answered(q) => Answered(q)' /\ ask'[q] = ask[q],
         \A k \in Keys : cache'[k] \in {cache[k], NoAccount}
  PROVE  CacheOK'
<1> SUFFICES ASSUME NEW k \in Keys, cache'[k] # NoAccount
             PROVE  \E q \in Requests :
                      (Answered(q) /\ Key(q) = k /\ Serves(Token(q), cache[k]))'
  BY DEF CacheOK
<1>1. PICK q \in Requests :
        Answered(q) /\ Key(q) = k /\ Serves(Token(q), cache[k])
  BY DEF CacheOK
<1>2. cache'[k] = cache[k]
  OBVIOUS
<1>3. (Answered(q) /\ Key(q) = k)' /\ Serves(Token(q), cache[k])'
  BY <1>1, <1>2, VoucherStays DEF Answered, Key, Token, Serves, Exists, Directory!Exists, Response
<1> QED BY <1>3

(* So do the answers that requests already had.                            *)
LEMMA AnswersStay ==
  ASSUME AnswersOK,
         \A u \in Uids : Exists(u) => accounts'[u] = accounts[u],
         \A q \in Requests : Answered(q) => Answered(q)' /\ ask'[q] = ask[q],
         NEW r \in Requests, Answered(r), answer'[r] = answer[r]
  PROVE  \E q \in Requests :
           (Answered(q) /\ Key(q) = Key(r) /\ Serves(Token(q), answer[r]))'
<1>1. PICK q \in Requests :
        Answered(q) /\ Key(q) = Key(r) /\ Serves(Token(q), answer[r])
  BY DEF AnswersOK
<1>2. /\ Answered(q)' /\ ask'[q] = ask[q] /\ ask'[r] = ask[r]
      /\ accounts'[answer[r].uid] = accounts[answer[r].uid]
  BY <1>1 DEF Serves, Response
<1> QED BY <1>1, <1>2 DEF Serves, Exists, Directory!Exists, Token, Key

(* A step of one request that gives it no answer. *)
LEMMA NoAnswer ==
  ASSUME TypeOK, AnswersOK, UNCHANGED <<accounts, answer>>,
         NEW r \in Requests, ~Answered(r),
         NEW p \in Phases \ {"provisioned", "answered"},
         Move(r, p),
         \A q \in Requests \ {r} : ask'[q] = ask[q]
  PROVE  /\ AnswersOK'
         /\ \A q \in Requests : Answered(q) => Answered(q)' /\ ask'[q] = ask[q]
<1>1. \A q \in Requests : Answered(q)' <=> Answered(q)
  BY DEF Move, TypeOK, Answered
<1>2. \A q \in Requests : Answered(q) => Answered(q)' /\ ask'[q] = ask[q]
  BY <1>1
<1>3. \A u \in Uids : Exists(u) => accounts'[u] = accounts[u]
  OBVIOUS
<1>4. ASSUME NEW q \in Requests, Answered(q)'
      PROVE  \E x \in Requests :
               (Answered(x) /\ Key(x) = Key(q) /\ Serves(Token(x), answer[q]))'
  BY <1>1, <1>2, <1>3, <1>4, AnswersStay
<1> QED BY <1>2, <1>4 DEF AnswersOK

(* A step that gives request r the answer it has by then. *)
LEMMA GivesAnswer ==
  ASSUME TypeOK, AnswersOK, UNCHANGED ask,
         \A u \in Uids : Exists(u) => accounts'[u] = accounts[u],
         NEW r \in Requests, Answered(r)',
         \A q \in Requests \ {r} : phase'[q] = phase[q] /\ answer'[q] = answer[q],
         NEW s \in Requests,
         (Answered(s) /\ Key(s) = Key(r) /\ Serves(Token(s), answer[r]))'
  PROVE  AnswersOK'
<1>1. \A q \in Requests : Answered(q) => Answered(q)' /\ ask'[q] = ask[q]
  BY DEF Answered
<1>2. ASSUME NEW q \in Requests \ {r}, Answered(q)'
      PROVE  \E x \in Requests :
               (Answered(x) /\ Key(x) = Key(q) /\ Serves(Token(x), answer[q]))'
  <2>1. Answered(q) /\ answer'[q] = answer[q]
    BY <1>2 DEF Answered
  <2> QED BY <1>1, <2>1, AnswersStay
<1> QED BY <1>2 DEF AnswersOK

-----------------------------------------------------------------------------
(* The steps of a request that change only where its handler is. *)
Quiet(r) ==
  \/ \E t \in Invites, k \in Keys : Receive(r, t, k)
  \/ Limited(r) \/ Miss(r) \/ Validate(r) \/ CheckRevocation(r) \/ ProvisionFails(r)

LEMMA QuietKeepsIInv ==
  ASSUME IInv, NEW r \in Requests, Quiet(r)
  PROVE  IInv'
<1> USE DEF IInv
<1>1. PICK p \in {"received", "missed", "valid", "authorized", "refused"} :
        /\ Move(r, p)
        /\ \/ UNCHANGED ask /\ phase[r] # "new"
           \/ \E a \in Ask : ask' = [ask EXCEPT ![r] = a]
        /\ ~Answered(r)
        /\ late' \in {late, late \union {r}}
        /\ UNCHANGED <<accounts, spent, cache, answer, revoked>>
  BY DEF Quiet, Receive, Limited, Miss, Validate, CheckRevocation, ProvisionFails,
     Answered, Ask
<1>2. TypeOK'
  <2>1. ask' \in [Requests -> Ask \union {NoAccount}]
    BY <1>1 DEF TypeOK
  <2>2. phase' \in [Requests -> Phases]
    BY <1>1 DEF TypeOK, Move, Phases
  <2>3. \A q \in Requests : phase'[q] # "new" => ask'[q] \in Ask
    BY <1>1 DEF TypeOK, Move
  <2> QED BY <1>1, <2>1, <2>2, <2>3 DEF TypeOK
<1>3. AnswersOK' /\ \A q \in Requests : Answered(q) => Answered(q)' /\ ask'[q] = ask[q]
  <2>1. \A q \in Requests \ {r} : ask'[q] = ask[q]
    BY <1>1 DEF TypeOK
  <2>2. p \in Phases \ {"provisioned", "answered"}
    BY DEF Phases
  <2> QED BY <1>1, <2>1, <2>2, NoAnswer
<1>4. AccountsOK' /\ CacheOK'
  BY <1>1, <1>3, AccountsStay, CacheStays
<1> QED BY <1>2, <1>3, <1>4

(* The answer replayed is that of the request that vouches for the entry.  *)
LEMMA ReplayKeepsIInv ==
  ASSUME IInv, NEW r \in Requests, Replay(r)
  PROVE  IInv'
<1> USE DEF IInv
<1>1. phase[r] # "new" /\ Key(r) \in Keys
  BY AskIsTyped DEF Replay
<1>2. PICK s \in Requests :
        Answered(s) /\ Key(s) = Key(r) /\ Serves(Token(s), cache[Key(r)])
  BY <1>1 DEF Replay, CacheOK
<1>3. TypeOK'
  BY <1>1, <1>2 DEF Replay, TypeOK, Move, Phases, Serves
<1>4. \A q \in Requests : Answered(q) => Answered(q)' /\ ask'[q] = ask[q]
  BY DEF Replay, Move, TypeOK, Answered
<1>5. AccountsOK' /\ CacheOK'
  BY <1>4, AccountsStay, CacheStays DEF Replay
<1>6. AnswersOK'
  <2>1. answer'[r] = cache[Key(r)] /\ Answered(r)'
    BY DEF Replay, TypeOK, Move, Answered
  <2>2. (Answered(s) /\ Key(s) = Key(r) /\ Serves(Token(s), answer[r]))'
    BY <1>2, <1>4, <2>1 DEF Replay, Serves, Token, Key, Exists, Directory!Exists
  <2>3. \A q \in Requests \ {r} : phase'[q] = phase[q] /\ answer'[q] = answer[q]
    BY DEF Replay, Move, TypeOK
  <2> QED BY <2>1, <2>2, <2>3, GivesAnswer DEF Replay
<1> QED BY <1>3, <1>5, <1>6

LEMMA ReconnectKeepsIInv ==
  ASSUME IInv, NEW r \in Requests, NEW v \in Uids, Reconnect(r, v)
  PROVE  IInv'
<1> USE DEF IInv
<1>1. Exists(v) /\ (v = UidOf[Token(r)] \/ accounts[v].email = EmailOf[Token(r)])
  BY DEF Reconnect, Directory!Matches, Exists
<1>0. \A q \in Requests : Answered(q) => Answered(q)' /\ ask'[q] = ask[q]
  BY DEF Reconnect, Move, TypeOK, Answered
<1>2. accounts[v] \in Directory!Account
  BY <1>1 DEF TypeOK, Exists, Directory!Exists
<1>3. [uid |-> v, cred |-> accounts[v].cred] \in Response
  BY <1>2 DEF Directory!Account, Response
<1>4. TypeOK'
  BY <1>3 DEF Reconnect, TypeOK, Move, Phases
<1>5. AccountsOK' /\ CacheOK'
  BY <1>0, AccountsStay, CacheStays DEF Reconnect
<1>6. AnswersOK'
  <2>1. answer'[r] = [uid |-> v, cred |-> accounts[v].cred] /\ Answered(r)'
    BY DEF Reconnect, TypeOK, Move, Answered
  <2>2. Serves(Token(r), answer[r])'
    BY <1>1, <1>3, <2>1 DEF Reconnect, Serves, Token, Exists, Directory!Exists
  <2>3. \A q \in Requests \ {r} : phase'[q] = phase[q] /\ answer'[q] = answer[q]
    BY DEF Reconnect, Move, TypeOK
  <2> QED BY <2>1, <2>2, <2>3, GivesAnswer DEF Reconnect
<1> QED BY <1>4, <1>5, <1>6

(* What is cached is what the request that fills the entry is answered.    *)
LEMMA AnswerKeepsIInv ==
  ASSUME IInv, NEW r \in Requests, Answer(r)
  PROVE  IInv'
<1> USE DEF IInv
<1>1. phase[r] # "new" /\ Key(r) \in Keys /\ Answered(r)
  BY AskIsTyped DEF Answer, Answered
<1>2. PICK s \in Requests :
        Answered(s) /\ Key(s) = Key(r) /\ Serves(Token(s), answer[r])
  BY <1>1 DEF AnswersOK
<1>3. TypeOK'
  BY DEF Answer, TypeOK, Move, Phases
<1>4. \A q \in Requests : Answered(q) => Answered(q)' /\ ask'[q] = ask[q]
  BY DEF Answer, Move, TypeOK, Answered
<1>5. (Answered(s) /\ Key(s) = Key(r) /\ Serves(Token(s), answer[r]))'
  BY <1>2, <1>4 DEF Answer, Serves, Token, Key, Exists, Directory!Exists
<1>6. CacheOK'
  <2> SUFFICES ASSUME NEW k \in Keys, cache'[k] # NoAccount
               PROVE  \E q \in Requests :
                        (Answered(q) /\ Key(q) = k /\ Serves(Token(q), cache[k]))'
    BY DEF CacheOK
  <2>1. CASE k = Key(r)
    <3>1. cache'[k] = answer'[r] /\ Key(r)' = k
      BY <2>1 DEF Answer, TypeOK, Key
    <3> QED BY <1>5, <3>1
  <2>2. CASE k # Key(r)
    <3>1. cache'[k] = cache[k]
      BY <2>2 DEF Answer, TypeOK
    <3>2. PICK q \in Requests :
            Answered(q) /\ Key(q) = k /\ Serves(Token(q), cache[k])
      BY <3>1 DEF CacheOK
    <3> QED BY <1>4, <3>1, <3>2 DEF Answer, Serves, Token, Key, Exists, Directory!Exists
  <2> QED BY <2>1, <2>2
<1>7. AnswersOK'
  <2>1. \A q \in Requests \ {r} : phase'[q] = phase[q] /\ answer'[q] = answer[q]
    BY DEF Answer, Move, TypeOK
  <2> QED BY <1>1, <1>4, <1>5, <2>1, GivesAnswer DEF Answer
<1>8. AccountsOK'
  BY AccountsStay DEF Answer
<1> QED BY <1>3, <1>6, <1>7, <1>8

(* A new account is for a uid that has none and an address that has none.  *)
LEMMA ProvisionKeepsIInv ==
  ASSUME IInv, NEW r \in Requests, NEW k \in Credentials, Provision(r, k)
  PROVE  IInv'
<1> USE DEF IInv
<1> DEFINE u == UidOf[Token(r)]
           e == EmailOf[Token(r)]
<1>1. u \in Uids /\ e \in Emails /\ Token(r) \in Invites
  BY AskIsTyped DEF Provision
<1>2. /\ ~Exists(u)
      /\ \A v \in Uids : Exists(v) => accounts[v].email # e
      /\ accounts' = [accounts EXCEPT ![u] = [email |-> e, cred |-> k]]
  BY <1>1 DEF Provision, Directory!Create, Directory!Matches, Exists, Directory!Exists
<1>3. [email |-> e, cred |-> k] \in Directory!Account \ {NoAccount}
  BY <1>1, ClaimAssumption DEF Directory!Account
<1>4. [uid |-> u, cred |-> k] \in Response
  BY <1>1 DEF Response
<1>5. \A v \in Uids : Exists(v) => accounts'[v] = accounts[v]
  BY <1>2, <1>1 DEF TypeOK
<1>6. accounts'[u] = [email |-> e, cred |-> k]
  BY <1>2, <1>1 DEF TypeOK
<1>7. TypeOK'
  BY <1>1, <1>2, <1>3, <1>4 DEF Provision, TypeOK, Move, Phases
<1>8. AccountsOK'
  <2>1. \A v \in Uids : Exists(v)' <=> v = u \/ Exists(v)
    BY <1>1, <1>2, <1>3, <1>6 DEF Exists, Directory!Exists, TypeOK
  <2>2. accounts'[u].email = e
    BY <1>6
  <2> QED BY <2>1, <2>2, <1>1, <1>2, <1>5 DEF AccountsOK
<1>9. \A q \in Requests : Answered(q) => Answered(q)' /\ ask'[q] = ask[q]
  BY DEF Provision, Move, TypeOK, Answered
<1>10. CacheOK'
  BY <1>5, <1>9, CacheStays DEF Provision
<1>11. AnswersOK'
  <2>1. answer'[r] = [uid |-> u, cred |-> k] /\ Answered(r)'
    BY DEF Provision, TypeOK, Move, Answered
  <2>2. Serves(Token(r), answer[r])'
    BY <1>3, <1>4, <1>6, <2>1 DEF Provision, Serves, Token, Exists, Directory!Exists
  <2>3. \A q \in Requests \ {r} : phase'[q] = phase[q] /\ answer'[q] = answer[q]
    BY DEF Provision, Move, TypeOK
  <2> QED BY <1>5, <2>1, <2>2, <2>3, GivesAnswer DEF Provision
<1> QED BY <1>7, <1>8, <1>10, <1>11

(* The clock and the administrator take nothing away but entries. *)
LEMMA OthersKeepIInv ==
  ASSUME IInv, (\E k \in Keys : CacheExpires(k)) \/ (\E t \in Invites : RevokeInvite(t))
  PROVE  IInv'
<1> USE DEF IInv
<1>1. /\ UNCHANGED <<accounts, spent, phase, ask, answer, late>>
      /\ cache' \in [Keys -> Response \union {NoAccount}]
      /\ \A k \in Keys : cache'[k] \in {cache[k], NoAccount}
      /\ revoked' \subseteq Invites
  BY DEF CacheExpires, RevokeInvite, TypeOK
<1>2. TypeOK'
  BY <1>1 DEF TypeOK
<1>3. \A q \in Requests : Answered(q) => Answered(q)' /\ ask'[q] = ask[q]
  BY <1>1 DEF Answered
<1>4. AccountsOK' /\ CacheOK' /\ AnswersOK'
  BY <1>1, <1>3, AccountsStay, CacheStays DEF AnswersOK, Answered, Serves, Token, Key,
     Exists, Directory!Exists
<1> QED BY <1>2, <1>4

(* A restart forgets the accounts, and everything that was said of them.   *)
LEMMA RestartKeepsIInv == IInv /\ Restart => IInv'
<1> SUFFICES ASSUME IInv, Restart PROVE IInv'
  OBVIOUS
<1> USE DEF IInv
<1>1. TypeOK'
  BY DEF Restart, TypeOK, Directory!Lose, Phases
<1>2. AccountsOK'
  BY DEF Restart, AccountsOK, Exists, Directory!Exists, Directory!Lose
<1>3. CacheOK'
  BY DEF Restart, CacheOK
<1>4. \A r \in Requests : phase'[r] \in {"new", "cut"}
  BY DEF Restart
<1>5. AnswersOK'
  BY <1>4 DEF AnswersOK, Answered
<1> QED BY <1>1, <1>2, <1>3, <1>5

LEMMA StepKeepsIInv == IInv /\ [Next]_vars => IInv'
<1> SUFFICES ASSUME IInv, [Next]_vars PROVE IInv'
  OBVIOUS
<1>1. ASSUME NEW r \in Requests, Quiet(r) PROVE IInv'
  BY <1>1, QuietKeepsIInv
<1>2. ASSUME NEW r \in Requests, Replay(r) PROVE IInv'
  BY <1>2, ReplayKeepsIInv
<1>3. ASSUME NEW r \in Requests, NEW v \in Uids, Reconnect(r, v) PROVE IInv'
  BY <1>3, ReconnectKeepsIInv
<1>4. ASSUME NEW r \in Requests, NEW k \in Credentials, Provision(r, k) PROVE IInv'
  BY <1>4, ProvisionKeepsIInv
<1>5. ASSUME NEW r \in Requests, Answer(r) PROVE IInv'
  BY <1>5, AnswerKeepsIInv
<1>6. CASE Restart
  BY <1>6, RestartKeepsIInv
<1>7. CASE UNCHANGED vars
  BY <1>7 DEF vars, IInv, TypeOK, AccountsOK, CacheOK, AnswersOK, Answered,
     Serves, Token, Key, Exists, Directory!Exists
<1> QED BY <1>1, <1>2, <1>3, <1>4, <1>5, <1>6, <1>7, OthersKeepIInv DEF Next, Quiet

(* The inductive invariant of the claim endpoint: every cached response    *)
(* and every answer of this process serves the holder of a token that was  *)
(* answered under the same idempotency key, and no two accounts have one   *)
(* address (server.go, handleClaim).                                       *)
THEOREM Invariance == Spec => []IInv
BY InitEstablishesIInv, StepKeepsIInv, PTL DEF Spec

(* Every reachable state has its type. *)
THEOREM TypeCorrect == Spec => []TypeOK
<1>1. IInv => TypeOK
  BY DEF IInv
<1> QED BY <1>1, Invariance, PTL

(* The idempotency cache never replays a credential that the directory     *)
(* does not hold.                                                          *)
THEOREM CacheIsLiveHolds == Spec => []CacheIsLive
<1>1. IInv => CacheIsLive
  BY DEF IInv, CacheOK, CacheIsLive, Serves, Exists, Directory!Exists
<1> QED BY <1>1, Invariance, PTL

(* Whoever was answered under a key that only people of one address, and   *)
(* of uids nobody else asks for, were answered under, has their account.   *)
LEMMA OwnAccount ==
  ASSUME IInv, NEW r \in Requests, Answered(r), OwnKey(r)
  PROVE  /\ answer[r].uid \in Uids /\ Exists(answer[r].uid)
         /\ accounts[answer[r].uid].email = EmailOf[Token(r)]
         /\ answer[r] = [uid |-> answer[r].uid, cred |-> accounts[answer[r].uid].cred]
<1>1. PICK s \in Requests :
        Answered(s) /\ Key(s) = Key(r) /\ Serves(Token(s), answer[r])
  BY DEF IInv, AnswersOK
<1>2. /\ answer[r].uid \in Uids /\ Exists(answer[r].uid)
      /\ answer[r] = [uid |-> answer[r].uid, cred |-> accounts[answer[r].uid].cred]
  BY <1>1 DEF Serves, Response
<1>3. EmailOf[Token(s)] = EmailOf[Token(r)] /\ OwnUid(Token(s))
  BY <1>1 DEF OwnKey
<1>4. accounts[answer[r].uid].email = EmailOf[Token(s)]
  <2>1. CASE accounts[answer[r].uid].email = EmailOf[Token(s)]
    BY <2>1
  <2>2. CASE answer[r].uid = UidOf[Token(s)]
    <3>1. PICK t \in Invites : /\ UidOf[t] = answer[r].uid
                               /\ EmailOf[t] = accounts[answer[r].uid].email
      BY <1>2 DEF IInv, AccountsOK
    <3> QED BY <1>3, <2>2, <3>1 DEF OwnUid
  <2> QED BY <1>1, <2>1, <2>2 DEF Serves
<1> QED BY <1>2, <1>3, <1>4

(* However claims of one person interleave, under whichever keys, every    *)
(* answer one process gives carries the same account and credential, as    *)
(* long as the keys are shared with nobody else (server.go, handleClaim).  *)
THEOREM OneCredentialPerPersonHolds == Spec => []OneCredentialPerPerson
<1>1. IInv => OneCredentialPerPerson
  <2> SUFFICES ASSUME IInv, NEW q \in Requests, NEW r \in Requests,
                      Answered(q), Answered(r),
                      EmailOf[Token(q)] = EmailOf[Token(r)],
                      OwnKey(q), OwnKey(r)
               PROVE  answer[q] = answer[r]
    BY DEF OneCredentialPerPerson
  <2> DEFINE Own(x) ==
        /\ answer[x].uid \in Uids /\ Exists(answer[x].uid)
        /\ accounts[answer[x].uid].email = EmailOf[Token(x)]
        /\ answer[x] = [uid |-> answer[x].uid, cred |-> accounts[answer[x].uid].cred]
  <2>1. Own(q) /\ Own(r)
    BY OwnAccount
  <2>2. AccountsOK
    BY DEF IInv
  <2>3. answer[q].uid = answer[r].uid
    BY <2>1, <2>2 DEF AccountsOK
  <2> QED BY <2>1, <2>3
<1> QED BY <1>1, Invariance, PTL

=============================================================================
