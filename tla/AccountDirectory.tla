-------------------------- MODULE AccountDirectory --------------------------
(***************************************************************************)
(* What the onboarding edge expects of a Provisioner: a directory in which *)
(* an account appears with its credential in one step or not at all, is    *)
(* found again by uid or else by e-mail address, and whose credential never *)
(* changes while it exists.                                                *)
(***************************************************************************)
EXTENDS Naturals

CONSTANTS
  Uids,           \* directory user ids
  Emails,         \* addresses
  Credentials,    \* values a fresh credential may have
  NoAccount       \* what a uid without an account maps to

VARIABLE accounts

Account == [email : Emails, cred : Credentials]

Init == accounts = [u \in Uids |-> NoAccount]

Exists(u) == accounts[u] # NoAccount

(* An account is looked for by uid first, then by address. *)
Matches(u, v, e) == Exists(v) /\ (v = u \/ (~Exists(u) /\ accounts[v].email = e))

Create(u, e, k) ==
  /\ \A v \in Uids : ~Matches(u, v, e)
  /\ \A v \in Uids : Exists(v) => accounts[v].cred # k
  /\ accounts' = [accounts EXCEPT ![u] = [email |-> e, cred |-> k]]

Remove(u) ==
  /\ Exists(u)
  /\ accounts' = [accounts EXCEPT ![u] = NoAccount]

(* The process that keeps the directory is replaced by an empty one. *)
Lose == accounts' = [u \in Uids |-> NoAccount]

Next ==
  \/ \E u \in Uids, e \in Emails, k \in Credentials : Create(u, e, k)
  \/ \E u \in Uids : Remove(u)
  \/ Lose

Spec == Init /\ [][Next]_accounts

=============================================================================
