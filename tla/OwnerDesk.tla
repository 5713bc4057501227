----------------------------- MODULE OwnerDesk -----------------------------
(***************************************************************************)
(* The operator's machine and the secret that ties it to the edge: the     *)
(* owner's vault (orbit admin init, verify, rotate-secret), the file of    *)
(* invitations (orbit invite create, revoke), and the daemon, which reads  *)
(* the secret from the vault when it starts.                               *)
(*                                                                         *)
(* Commands are processes of their own.  Both files are replaced by a      *)
(* rename, so each read and each write is one step and a kill leaves the   *)
(* old file or the new one; but a command reads, thinks or prompts, and    *)
(* writes back what it read, and the mutex of a store ends at its process. *)
(***************************************************************************)
EXTENDS Naturals

CONSTANTS
  Procs,            \* commands that may ever run
  Emails,           \* owners; the first one to be proven takes the vault
  InviteIds,        \* invitations, numbered as they are signed
  MaxSecrets,       \* bound: root secrets that may be drawn
  NoOwner

VARIABLES
  vault,            \* the owner record
  drawn,            \* root secrets drawn so far
  file,             \* the invitations file
  signedBy,         \* the secret each invitation was signed with
  server,           \* the secret the daemon loaded; 0 is its fallback
  cmd,              \* the commands
  retired,          \* history: secrets that a finished rotation replaced
  sealed,           \* history: owner of the last finished init or verify
  answered,         \* history: what create and revoke have reported
  stale,            \* history: commands whose copy is older than the file
  clashed           \* history: a stale command has written

vars == <<vault, drawn, file, signedBy, server, cmd,
          retired, sealed, answered, stale, clashed>>

-----------------------------------------------------------------------------
Secrets == 0..MaxSecrets
Statuses == {"absent", "active", "revoked"}
Files == [InviteIds -> Statuses]
OwnerRecord == [owner : Emails \union {NoOwner}, secret : Secrets]

Phases == {"new", "prove", "confirm", "sign", "load", "write", "done",
           "failed"}

Cmd == [ phase  : Phases,
         name   : {"seal", "rotate", "create", "revoke", "revokeAll"},
         email  : Emails,
         rec    : OwnerRecord,               \* the vault as it was read
         invite : InviteIds,
         copy   : Files ]                    \* the file as it was read

IsVerified(rec) == rec.owner # NoOwner

NoInvites == [i \in InviteIds |-> "absent"]

history == <<retired, sealed, answered, stale, clashed>>

Put(p, c) == cmd' = [cmd EXCEPT ![p] = c]
GoTo(p, phase) == cmd' = [cmd EXCEPT ![p].phase = phase]

(* Who else holds a copy of a file that p is about to replace. *)
Holders(p, phases) == { q \in Procs \ {p} : cmd[q].phase \in phases }

-----------------------------------------------------------------------------
Init ==
  /\ vault = [owner |-> NoOwner, secret |-> 0]
  /\ drawn = 0
  /\ file = NoInvites
  /\ signedBy = [i \in InviteIds |-> 0]
  /\ server = 0
  /\ \E e \in Emails, i \in InviteIds :
       cmd = [p \in Procs |->
                [phase |-> "new", name |-> "seal", email |-> e,
                 rec |-> [owner |-> NoOwner, secret |-> 0],
                 invite |-> i, copy |-> NoInvites]]
  /\ retired = {}
  /\ sealed = NoOwner
  /\ answered = {}
  /\ stale = {}
  /\ clashed = FALSE

(* admin init and admin verify: an owner that is verified stays, without   *)
(* --force; otherwise the address has to be proven.                        *)
SealBegin(p, e, force) ==
  /\ cmd[p].phase = "new"
  /\ IF IsVerified(vault) /\ ~force
     THEN GoTo(p, "done")
     ELSE Put(p, [cmd[p] EXCEPT !.phase = "prove", !.email = e])
  /\ UNCHANGED <<vault, drawn, file, signedBy, server, history>>

(* ... then a new secret is drawn and the vault is replaced. *)
SealSave(p) ==
  /\ cmd[p].phase = "prove"
  /\ drawn < MaxSecrets
  /\ drawn' = drawn + 1
  /\ vault' = [owner |-> cmd[p].email, secret |-> drawn + 1]
  /\ sealed' = cmd[p].email
  /\ stale' = stale \union Holders(p, {"confirm"})
  /\ GoTo(p, "done")
  /\ UNCHANGED <<file, signedBy, server, retired, answered, clashed>>

(* admin rotate-secret reads the record and asks for a confirmation ... *)
RotateLoad(p) ==
  /\ cmd[p].phase = "new"
  /\ IsVerified(vault)
  /\ Put(p, [cmd[p] EXCEPT !.phase = "confirm", !.name = "rotate",
                           !.rec = vault])
  /\ UNCHANGED <<vault, drawn, file, signedBy, server, history>>

(* ... and writes the record it read with a new secret in it. *)
RotateSave(p) ==
  /\ cmd[p].phase = "confirm"
  /\ drawn < MaxSecrets
  /\ drawn' = drawn + 1
  /\ vault' = [cmd[p].rec EXCEPT !.secret = drawn + 1]
  /\ retired' = retired \union {cmd[p].rec.secret}
  /\ clashed' = (clashed \/ p \in stale)
  /\ stale' = stale \union Holders(p, {"confirm"})
  /\ GoTo(p, "done")
  /\ UNCHANGED <<file, signedBy, server, sealed, answered>>

(* invite create: signed with the owner's secret, or with the development  *)
(* one when no owner is verified and the caller insists.                   *)
CreateBegin(p, insecure) ==
  /\ cmd[p].phase = "new"
  /\ IsVerified(vault) \/ insecure
  /\ Put(p, [cmd[p] EXCEPT !.phase = "sign", !.name = "create",
                           !.rec = vault])
  /\ UNCHANGED <<vault, drawn, file, signedBy, server, history>>

InHand(i) == \E p \in Procs : cmd[p].name = "create" /\ cmd[p].invite = i
                              /\ cmd[p].phase \notin {"new", "sign"}

GenerateToken(p, i) ==
  /\ cmd[p].phase = "sign"
  /\ ~InHand(i)
  /\ \A j \in InviteIds : j < i => InHand(j)
  /\ signedBy' = [signedBy EXCEPT ![i] = cmd[p].rec.secret]
  /\ Put(p, [cmd[p] EXCEPT !.phase = "load", !.invite = i])
  /\ UNCHANGED <<vault, drawn, file, server, history>>

RevokeBegin(p, i) ==
  /\ cmd[p].phase = "new"
  /\ Put(p, [cmd[p] EXCEPT !.phase = "load", !.name = "revoke", !.invite = i])
  /\ UNCHANGED <<vault, drawn, file, signedBy, server, history>>

RevokeAllBegin(p) ==
  /\ cmd[p].phase = "new"
  /\ Put(p, [cmd[p] EXCEPT !.phase = "load", !.name = "revokeAll"])
  /\ UNCHANGED <<vault, drawn, file, signedBy, server, history>>

(* SaveInvite, RevokeInvite and RevokeAllInvites read the whole file: an   *)
(* unknown invitation is an error, nothing to revoke an answer.            *)
loadRecords(p) ==
  /\ cmd[p].phase = "load"
  /\ Put(p, [cmd[p] EXCEPT
       !.copy = file,
       !.phase =
         IF cmd[p].name = "revoke" /\ file[cmd[p].invite] = "absent"
         THEN "failed"
         ELSE IF cmd[p].name = "revokeAll"
                 /\ \A i \in InviteIds : file[i] # "active"
         THEN "done"
         ELSE "write"])
  /\ stale' = stale \ {p}
  /\ UNCHANGED <<vault, drawn, file, signedBy, server,
                 retired, sealed, answered, clashed>>

(* Mutant: a saved invitation is the only one in the file. *)
ChangedAlone(c) ==
  [i \in InviteIds |->
     IF c.name = "create" THEN IF i = c.invite THEN "active" ELSE "absent"
     ELSE IF c.name = "revoke" /\ i = c.invite THEN "revoked"
     ELSE IF c.name = "revokeAll" /\ c.copy[i] = "active" THEN "revoked"
     ELSE c.copy[i]]

Changed(c) ==
  [i \in InviteIds |->
     IF c.name = "create" /\ i = c.invite THEN "active"
     ELSE IF c.name = "revoke" /\ i = c.invite THEN "revoked"
     ELSE IF c.name = "revokeAll" /\ c.copy[i] = "active" THEN "revoked"
     ELSE c.copy[i]]

Reported(c) ==
  IF c.name = "create" THEN {<<"issued", c.invite>>}
  ELSE { <<"revoked", i>> : i \in { j \in InviteIds :
           Changed(c)[j] = "revoked" /\ (c.name = "revoke" => j = c.invite) } }

(* ... and write the whole file back. *)
saveRecords(p) ==
  /\ cmd[p].phase = "write"
  /\ file' = Changed(cmd[p])
  /\ answered' = answered \union Reported(cmd[p])
  /\ clashed' = (clashed \/ p \in stale)
  /\ stale' = stale \union Holders(p, {"write"})
  /\ GoTo(p, "done")
  /\ UNCHANGED <<vault, drawn, signedBy, server, retired, sealed>>

(* A command is cancelled, fails at a prompt, a read or a write, or is     *)
(* killed: the files are as they were.                                     *)
Fail(p) ==
  /\ cmd[p].phase \in {"prove", "confirm", "sign", "load", "write"}
  /\ GoTo(p, "failed")
  /\ UNCHANGED <<vault, drawn, file, signedBy, server, history>>

(* resolveSigningSecret, with neither flag nor environment. *)
ServerStart ==
  /\ server # vault.secret
  /\ server' = vault.secret
  /\ UNCHANGED <<vault, drawn, file, signedBy, cmd, history>>

Next ==
  \/ \E p \in Procs :
       \/ \E e \in Emails, force \in BOOLEAN : SealBegin(p, e, force)
       \/ SealSave(p)
       \/ RotateLoad(p)
       \/ RotateSave(p)
       \/ \E insecure \in BOOLEAN : CreateBegin(p, insecure)
       \/ \E i \in InviteIds : GenerateToken(p, i) \/ RevokeBegin(p, i)
       \/ RevokeAllBegin(p)
       \/ loadRecords(p)
       \/ saveRecords(p)
       \/ Fail(p)
  \/ ServerStart

Spec == Init /\ [][Next]_vars

-----------------------------------------------------------------------------
(* Files, secrets and commands have their types. *)
TypeOK ==
  /\ vault \in OwnerRecord
  /\ drawn \in Secrets
  /\ file \in Files
  /\ signedBy \in [InviteIds -> Secrets]
  /\ server \in Secrets
  /\ cmd \in [Procs -> Cmd]
  /\ retired \subseteq Secrets
  /\ sealed \in Emails \union {NoOwner}
  /\ answered \subseteq {"issued", "revoked"} \X InviteIds
  /\ stale \subseteq Procs
  /\ clashed \in BOOLEAN

(* As long as no command writes over what another one has changed since it *)
(* read, every invitation that was reported issued is on file, every one   *)
(* reported revoked is revoked there, and the vault belongs to the owner   *)
(* who was proven last -- whatever fails or is killed in between.          *)
ReportsHoldWithoutClash ==
  ~clashed =>
    /\ \A i \in InviteIds :
         /\ <<"issued", i>> \in answered => file[i] # "absent"
         /\ <<"revoked", i>> \in answered => file[i] = "revoked"
    /\ vault.owner = sealed

(* "All onboarding invite tokens signed with the previous secret are now   *)
(* invalidated", rotate-secret reports.  The edge accepts what was signed  *)
(* with the secret it loaded.                                              *)
RotationInvalidates ==
  \A i \in InviteIds :
    (file[i] = "active" /\ signedBy[i] \in retired) => signedBy[i] # server

=============================================================================
