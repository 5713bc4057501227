----------------------------- MODULE Provisioner -----------------------------
(***************************************************************************)
(* devprovisioner.DevProvisioner, the identity, git and VPN provisioner of *)
(* the onboarding edge.  Provision runs under the provisioner's mutex in   *)
(* three stages, each of which may fail; what the earlier stages did is    *)
(* then undone, last first.  A VPN address is the lowest free offset, and  *)
(* when none is free everybody shares the one past the pool.               *)
(*                                                                         *)
(* The registries live in memory: a restart empties all of them.           *)
(***************************************************************************)
EXTENDS Naturals, Sequences

CONSTANTS
  Uids, Emails,
  Credentials,    \* random tokens, one per account ever created
  First, Last,    \* the pool of offsets, 10 and 253 in the code
  None            \* a key a map does not have

ASSUME PoolAssumption == First \in Nat /\ Last \in Nat /\ First <= Last
ASSUME NoneAssumption ==
  /\ None \notin Nat /\ None \notin Uids /\ None \notin Credentials
  /\ None \notin [email : Emails, cred : Credentials]

Overflow == Last + 1
Offsets == First .. Overflow

VARIABLES
  users,          \* uid -> the response that was assembled for it
  userByEmail,    \* address -> uid
  lldap,          \* uids in the directory service
  forgejo,        \* uid -> token
  peers,          \* uid -> VPN offset
  allocated,      \* offset -> uid
  call,           \* the Provision call that holds the mutex
  spent           \* history: tokens that were ever drawn

vars == <<users, userByEmail, lldap, forgejo, peers, allocated, call, spent>>

Stages == {"lldap", "forgejo", "wireguard"}

Call == [ phase : {"idle"} \union Stages \union {"assemble", "undo"},
          uid   : Uids,
          email : Emails,
          undo  : Seq(Stages) ]

Idle == call.phase = "idle"

-----------------------------------------------------------------------------
Init ==
  /\ users = [u \in Uids |-> None]
  /\ userByEmail = [e \in Emails |-> None]
  /\ lldap = {}
  /\ forgejo = [u \in Uids |-> None]
  /\ peers = [u \in Uids |-> None]
  /\ allocated = [i \in Offsets |-> None]
  /\ call \in [phase : {"idle"}, uid : Uids, email : Emails, undo : {<< >>}]
  /\ spent = {}

(* Mutant: somebody is looked for by uid only. *)
KnownByUid(u, e) == users[u] # None

(* The account a request is answered with, if there is one already. *)
Known(u, e) ==
  \/ users[u] # None
  \/ userByEmail[e] # None /\ users[userByEmail[e]] # None

(* Provision takes the mutex for somebody it does not know.  For a known   *)
(* request it answers with the stored response and changes nothing.        *)
Begin(u, e) ==
  /\ Idle
  /\ ~Known(u, e)
  /\ call' = [phase |-> "lldap", uid |-> u, email |-> e, undo |-> << >>]
  /\ UNCHANGED <<users, userByEmail, lldap, forgejo, peers, allocated, spent>>

Push(stage) == Append(call.undo, stage)

(* The call proceeds with this undo stack. *)
GoTo(phase, undo) ==
  call' = [phase |-> phase, uid |-> call.uid, email |-> call.email, undo |-> undo]

StageLldap ==
  /\ call.phase = "lldap"
  /\ lldap' = lldap \union {call.uid}
  /\ GoTo("forgejo", Push("lldap"))
  /\ UNCHANGED <<users, userByEmail, forgejo, peers, allocated, spent>>

StageForgejo(k) ==
  /\ call.phase = "forgejo"
  /\ k \notin spent
  /\ forgejo' = [forgejo EXCEPT ![call.uid] = k]
  /\ spent' = spent \union {k}
  /\ GoTo("wireguard", Push("forgejo"))
  /\ UNCHANGED <<users, userByEmail, lldap, peers, allocated>>

(* Mutant: the first offset is always free. *)
IsFirstOffset(i) == i = First

(* allocateFreeIPOffset *)
IsFreeOffset(i) ==
  /\ i \in Offsets
  /\ i = Overflow \/ allocated[i] = None
  /\ \A j \in First .. Last : j < i => allocated[j] # None

StageWireGuard(i) ==
  /\ call.phase = "wireguard"
  /\ IsFreeOffset(i)
  /\ allocated' = [allocated EXCEPT ![i] = call.uid]
  /\ peers' = [peers EXCEPT ![call.uid] = i]
  /\ GoTo("assemble", Push("wireguard"))
  /\ UNCHANGED <<users, userByEmail, lldap, forgejo, spent>>

(* The response is assembled and the account becomes known. *)
Assemble ==
  /\ call.phase = "assemble"
  /\ users' = [users EXCEPT ![call.uid] =
                 [email |-> call.email, cred |-> forgejo[call.uid]]]
  /\ userByEmail' = [userByEmail EXCEPT ![call.email] = call.uid]
  /\ GoTo("idle", << >>)
  /\ UNCHANGED <<lldap, forgejo, peers, allocated, spent>>

(* A stage fails before it changed anything. *)
StageFails ==
  /\ call.phase \in Stages
  /\ GoTo(IF call.undo = << >> THEN "idle" ELSE "undo", call.undo)
  /\ UNCHANGED <<users, userByEmail, lldap, forgejo, peers, allocated, spent>>

(* Mutant: only the latest stage that succeeded is undone. *)
UndoOne ==
  /\ call.phase = "undo"
  /\ LET stage == call.undo[Len(call.undo)]
     IN  /\ lldap' = IF stage = "lldap" THEN lldap \ {call.uid} ELSE lldap
         /\ forgejo' = IF stage = "forgejo"
                       THEN [forgejo EXCEPT ![call.uid] = None] ELSE forgejo
  /\ GoTo("idle", << >>)
  /\ UNCHANGED <<users, userByEmail, peers, allocated, spent>>

(* The deferred undo of the latest stage that had succeeded.  Nothing can  *)
(* fail after the wireguard stage, so that stage is never undone.          *)
Undo ==
  /\ call.phase = "undo"
  /\ LET stage == call.undo[Len(call.undo)]
         rest  == SubSeq(call.undo, 1, Len(call.undo) - 1)
     IN  /\ lldap' = IF stage = "lldap" THEN lldap \ {call.uid} ELSE lldap
         /\ forgejo' = IF stage = "forgejo"
                       THEN [forgejo EXCEPT ![call.uid] = None] ELSE forgejo
         /\ GoTo(IF rest = << >> THEN "idle" ELSE "undo", rest)
  /\ UNCHANGED <<users, userByEmail, peers, allocated, spent>>

(* Rollback deletes one entry of every registry; the two indexes lose the  *)
(* first entry that names the uid.                                         *)
DropOne(index, u) ==
  IF \E x \in DOMAIN index : index[x] = u
  THEN { [index EXCEPT ![x] = None] : x \in { y \in DOMAIN index : index[y] = u } }
  ELSE {index}

(* Mutant: the address index is not cleaned. *)
RollbackKeepsIndex(u) ==
  /\ Idle
  /\ users' = [users EXCEPT ![u] = None]
  /\ lldap' = lldap \ {u}
  /\ forgejo' = [forgejo EXCEPT ![u] = None]
  /\ peers' = [peers EXCEPT ![u] = None]
  /\ allocated' \in DropOne(allocated, u)
  /\ UNCHANGED <<userByEmail, call, spent>>

Rollback(u) ==
  /\ Idle
  /\ users' = [users EXCEPT ![u] = None]
  /\ lldap' = lldap \ {u}
  /\ forgejo' = [forgejo EXCEPT ![u] = None]
  /\ peers' = [peers EXCEPT ![u] = None]
  /\ userByEmail' \in DropOne(userByEmail, u)
  /\ allocated' \in DropOne(allocated, u)
  /\ UNCHANGED <<call, spent>>

(* The daemon is killed and started again. *)
Restart ==
  /\ users' = [u \in Uids |-> None]
  /\ userByEmail' = [e \in Emails |-> None]
  /\ lldap' = {}
  /\ forgejo' = [u \in Uids |-> None]
  /\ peers' = [u \in Uids |-> None]
  /\ allocated' = [i \in Offsets |-> None]
  /\ GoTo("idle", << >>)
  /\ UNCHANGED spent

Next ==
  \/ \E u \in Uids, e \in Emails : Begin(u, e)
  \/ StageLldap
  \/ \E k \in Credentials : StageForgejo(k)
  \/ \E i \in Offsets : StageWireGuard(i)
  \/ Assemble
  \/ StageFails
  \/ Undo
  \/ \E u \in Uids : Rollback(u)
  \/ Restart

Spec == Init /\ [][Next]_vars

-----------------------------------------------------------------------------
(* Types, for any number of accounts. *)
TypeOK ==
  /\ users \in [Uids -> [email : Emails, cred : Credentials] \union {None}]
  /\ userByEmail \in [Emails -> Uids \union {None}]
  /\ lldap \subseteq Uids
  /\ forgejo \in [Uids -> Credentials \union {None}]
  /\ peers \in [Uids -> Offsets \union {None}]
  /\ allocated \in [Offsets -> Uids \union {None}]
  /\ call \in Call
  /\ spent \subseteq Credentials

(* All or nothing: whenever the mutex is free each registry knows exactly  *)
(* the people who have an account, whatever stage failed before.           *)
NoResidue ==
  Idle => \A u \in Uids :
            /\ users[u] # None <=> u \in lldap
            /\ users[u] # None <=> forgejo[u] # None
            /\ users[u] # None <=> peers[u] # None

(* Two people share a VPN address only when the pool is exhausted, even    *)
(* after accounts were rolled back and their addresses handed out again.   *)
AddressesDistinct ==
  \A u, v \in Uids :
    u # v /\ peers[u] # None /\ peers[u] = peers[v] => peers[u] = Overflow

(* The address index finds every account, and only accounts that exist:    *)
(* nobody who has an account is provisioned again under another uid.       *)
IndexSound ==
  \A e \in Emails, u \in Uids :
    userByEmail[e] = u <=> users[u] # None /\ users[u].email = e

Directory == INSTANCE AccountDirectory WITH
               accounts <- users, NoAccount <- None

(* Stages and undo implement the directory's single step. *)
ImplementsDirectory == Directory!Spec

=============================================================================
