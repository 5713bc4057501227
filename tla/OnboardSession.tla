--------------------------- MODULE OnboardSession ---------------------------
(***************************************************************************)
(* orbit onboard on one developer's machine: the headless step flow of     *)
(* onboard/application.Service, its checkpoint file, and the edge that     *)
(* provisions the account.  Invocations follow one another; each may be    *)
(* killed anywhere, so an effect may be there without the checkpoint that  *)
(* records it.  Of the machine only the parts rollback deals with are      *)
(* kept: repositories, the VPN profile and mcp.env.                        *)
(*                                                                         *)
(* git clone and the diagnostics are external: they succeed or fail.  Every *)
(* invocation names the same workspace and manifest.                       *)
(***************************************************************************)
EXTENDS Naturals

CONSTANTS
  Targets,        \* the core repositories of the manifest, {} without one
  Credentials,    \* random tokens, one per account ever created
  None,
  MaxSessions     \* bound: checkpoints created

ASSUME SessionAssumption == MaxSessions \in Nat /\ None \notin Credentials

VARIABLES
  file,           \* the checkpoint file
  run,            \* the invocation that is running
  present,        \* target repositories on disk
  wg,             \* credential in wg0.conf
  mcp,            \* credential in .cursor/mcp.env
  account,        \* credential of the developer's account at the edge
  spent,          \* history: credentials that were ever drawn
  created,        \* history: checkpoints created
  cloner,         \* history: the session that cloned each repository
  lost,           \* history: credentials that a restart of the edge wiped
  flaws           \* history: what went wrong in which session, see Flaws

vars == <<file, run, present, wg, mcp, account, spent, created, cloner,
          lost, flaws>>

machine == <<present, wg, mcp, cloner>>
edge == <<account, spent, lost>>

-----------------------------------------------------------------------------
(* The stages of stageOrder, and the step that reaches each. *)
Init0 == 0
DoctorPassed == 1
KeypairReady == 2
TokenClaimed == 3
NetworkConfigured == 4
ReposCloned == 5
MCPConfigured == 6
DevStackReady == 7
Completed == 8

Stages == Init0 .. Completed

Session == [ id    : Nat,
             stage : Stages,
             token : BOOLEAN,
             cred  : Credentials \union {None},
             repos : SUBSET Targets ]

(* A missing checkpoint is not mistaken for one. *)
ASSUME NoneAssumption == None \notin Session

(* A write that failed unnoticed; a rollback that may not reach its end.   *)
Flaws == {"wg", "mcp", "rollback"}

Flawed(sess) == \E x \in Flaws : <<sess.id, x>> \in flaws

Pending == file # None /\ file.stage # Completed

NoRun == [phase |-> "off", sess |-> None, step |-> DoctorPassed,
          token |-> FALSE, dry |-> FALSE, todo |-> {}]

Off == run.phase = "off"

(* Mutant: a stage counts as completed once the one behind it is. *)
IsStagePassed(target) == run.sess.stage > target

IsStageCompleted(target) == run.sess.stage >= target

Init ==
  /\ file = None
  /\ run = NoRun
  /\ present \in SUBSET Targets
  /\ wg = None /\ mcp = None
  /\ account = None
  /\ spent = {}
  /\ created = 0
  /\ cloner = [r \in Targets |-> 0]
  /\ lost = {}
  /\ flaws = {}

-----------------------------------------------------------------------------
(* inception: a pending checkpoint is resumed when asked for (--resume, or *)
(* "yes" at the prompt) ...                                                *)
Resume(token, dry) ==
  /\ Off
  /\ Pending
  /\ run' = [phase |-> "step", sess |-> file, step |-> DoctorPassed,
             token |-> token, dry |-> dry, todo |-> Targets]
  /\ UNCHANGED <<file, created, flaws, machine, edge>>

(* ... and otherwise discarded, in a headless run without a token to lose  *)
(* or after "no" at the prompt; that this failed is not noticed ...        *)
Discard(token, dry) ==
  /\ Off
  /\ Pending
  /\ file' \in {None, file}
  /\ run' = [NoRun EXCEPT !.phase = "create", !.token = token, !.dry = dry,
                          !.todo = Targets]
  /\ UNCHANGED <<created, flaws, machine, edge>>

(* ... or there is none to resume. *)
StartFresh(token, dry) ==
  /\ Off
  /\ ~Pending
  /\ run' = [NoRun EXCEPT !.phase = "create", !.token = token, !.dry = dry,
                          !.todo = Targets]
  /\ UNCHANGED <<file, created, flaws, machine, edge>>

(* A new checkpoint is written over whatever is there; a failed write is   *)
(* ignored.                                                                *)
Create ==
  /\ run.phase = "create"
  /\ created < MaxSessions
  /\ created' = created + 1
  /\ LET sess == [id |-> created + 1, stage |-> Init0, token |-> FALSE,
                  cred |-> None, repos |-> {}]
     IN  /\ file' \in {file, sess}
         /\ run' = [run EXCEPT !.phase = "step", !.sess = sess]
  /\ UNCHANGED <<flaws, machine, edge>>

Exit == run' = NoRun

(* Mutant: steps are skipped beyond the last. *)
SkipForever ==
  /\ run.phase = "step"
  /\ IsStageCompleted(run.step)
  /\ run' = [run EXCEPT !.step = @ + 1]
  /\ UNCHANGED <<file, created, flaws, machine, edge>>

(* A step whose stage the checkpoint has reached is skipped. *)
SkipStep ==
  /\ run.phase = "step"
  /\ run.step <= DevStackReady
  /\ IsStageCompleted(run.step)
  /\ run' = [run EXCEPT !.step = @ + 1]
  /\ UNCHANGED <<file, created, flaws, machine, edge>>

At(step) ==
  /\ run.phase = "step"
  /\ run.step = step
  /\ ~IsStageCompleted(step)

(* A dry run stops behind the diagnostics. *)
StopDryRun ==
  /\ run.phase = "step"
  /\ run.dry
  /\ run.step > DoctorPassed \/ At(DoctorPassed)
  /\ Exit
  /\ UNCHANGED <<file, created, flaws, machine, edge>>

Reach(sess, stage) ==
  run' = [run EXCEPT !.phase = "save", !.sess = [sess EXCEPT !.stage = stage]]

Diagnose ==
  /\ ~run.dry
  /\ At(DoctorPassed)
  /\ Reach(run.sess, DoctorPassed) \/ Exit
  /\ UNCHANGED <<file, created, flaws, machine, edge>>

EnsureKey ==
  /\ ~run.dry
  /\ At(KeypairReady)
  /\ Reach(run.sess, KeypairReady) \/ Exit
  /\ UNCHANGED <<file, created, flaws, machine, edge>>

(* The claim is refused, does not arrive, or has no token to send. *)
ClaimFails ==
  /\ ~run.dry
  /\ At(TokenClaimed)
  /\ Exit
  /\ UNCHANGED <<file, created, flaws, machine, edge>>

(* Mutant: a claim always makes a new account. *)
ClaimAnew(k) ==
  /\ ~run.dry
  /\ At(TokenClaimed)
  /\ run.token \/ run.sess.token
  /\ k \notin spent /\ account' = k /\ spent' = spent \union {k}
  /\ \/ Reach([run.sess EXCEPT !.token = TRUE, !.cred = k], TokenClaimed)
     \/ Exit
  /\ UNCHANGED <<file, created, flaws, machine, lost>>

(* The edge serves the claim of a known developer, or of a new one.        *)
(* Whether the answer arrives is another matter.  The token is the one     *)
(* given to this run, or else the one the checkpoint holds.                *)
Claim(k) ==
  /\ ~run.dry
  /\ At(TokenClaimed)
  /\ run.token \/ run.sess.token
  /\ IF account # None
     THEN k = account /\ UNCHANGED edge
     ELSE k \notin spent /\ account' = k /\ spent' = spent \union {k} /\ UNCHANGED lost
  /\ \/ Reach([run.sess EXCEPT !.token = TRUE, !.cred = k], TokenClaimed)
     \/ Exit
  /\ UNCHANGED <<file, created, flaws, machine>>

(* The VPN profile is written; an error is not noticed. *)
ConfigureNetwork ==
  /\ ~run.dry
  /\ At(NetworkConfigured)
  /\ \/ wg' = run.sess.cred /\ UNCHANGED flaws
     \/ UNCHANGED wg /\ flaws' = flaws \union {<<run.sess.id, "wg">>}
  /\ Reach(run.sess, NetworkConfigured)
  /\ UNCHANGED <<file, created, present, mcp, cloner, edge>>

(* One worker takes one target: it is a repository already, or is cloned,  *)
(* and either way the session records it ...                               *)
CloneStep(r) ==
  /\ ~run.dry
  /\ At(ReposCloned)
  /\ r \in run.todo

Record(r) ==
  run' = [run EXCEPT !.todo = @ \ {r}, !.sess.repos = @ \union {r}]

(* Mutant: a repository that is there already is not recorded. *)
CloneTargetIfAbsent(r) ==
  /\ CloneStep(r)
  /\ present' = present \union {r}
  /\ cloner' = [cloner EXCEPT ![r] = IF r \in present THEN @ ELSE run.sess.id]
  /\ IF r \in present THEN run' = [run EXCEPT !.todo = @ \ {r}] ELSE Record(r)
  /\ UNCHANGED <<file, created, flaws, wg, mcp, edge>>

CloneTarget(r) ==
  /\ CloneStep(r)
  /\ present' = present \union {r}
  /\ cloner' = [cloner EXCEPT ![r] = IF r \in present THEN @ ELSE run.sess.id]
  /\ Record(r)
  /\ UNCHANGED <<file, created, flaws, wg, mcp, edge>>

(* ... or it cannot be cloned, which does not stop the run. *)
CloneFails(r) ==
  /\ CloneStep(r)
  /\ r \notin present
  /\ run' = [run EXCEPT !.todo = @ \ {r}]
  /\ UNCHANGED <<file, created, flaws, machine, edge>>

(* All workers are done. *)
CloneEnds ==
  /\ ~run.dry
  /\ At(ReposCloned)
  /\ run.todo = {}
  /\ Reach(run.sess, ReposCloned)
  /\ UNCHANGED <<file, created, flaws, machine, edge>>

(* Mutant: mcp.env is written once and then left alone. *)
ConfigureMCPOnce ==
  /\ ~run.dry
  /\ At(MCPConfigured)
  /\ mcp' = IF mcp = None THEN run.sess.cred ELSE mcp
  /\ Reach(run.sess, MCPConfigured)
  /\ UNCHANGED <<file, created, flaws, present, wg, cloner, edge>>

ConfigureMCP ==
  /\ ~run.dry
  /\ At(MCPConfigured)
  /\ \/ mcp' = run.sess.cred /\ UNCHANGED flaws
     \/ UNCHANGED mcp /\ flaws' = flaws \union {<<run.sess.id, "mcp">>}
  /\ Reach(run.sess, MCPConfigured)
  /\ UNCHANGED <<file, created, present, wg, cloner, edge>>

StartStack ==
  /\ ~run.dry
  /\ At(DevStackReady)
  /\ Reach(run.sess, Completed)
  /\ UNCHANGED <<file, created, flaws, machine, edge>>

(* The checkpoint replaces the file by a rename, or the run gives up. *)
Save ==
  /\ run.phase = "save"
  /\ \/ file' = run.sess /\ run' = [run EXCEPT !.phase = "step", !.step = @ + 1]
     \/ UNCHANGED file /\ Exit
  /\ UNCHANGED <<created, flaws, machine, edge>>

Finish ==
  /\ run.phase = "step"
  /\ run.step > DevStackReady
  /\ Exit
  /\ UNCHANGED <<file, created, flaws, machine, edge>>

-----------------------------------------------------------------------------
(* --ignore-and-remove-checkpoint *)
Reset ==
  /\ Off
  /\ file # None
  /\ file' = None
  /\ UNCHANGED <<run, created, flaws, machine, edge>>

(* --rollback.  The edge is asked to remove the account, if an edge was    *)
(* named, and has no route for it; the answer is ignored.                  *)
Rollback ==
  /\ Off
  /\ file # None
  /\ run' = [NoRun EXCEPT !.phase = "rollback", !.sess = file]
  /\ flaws' = flaws \union {<<file.id, "rollback">>}
  /\ UNCHANGED <<file, created, machine, edge>>

(* Every recorded repository is removed, unless that fails. *)
RemoveRepo(r) ==
  /\ run.phase = "rollback"
  /\ r \in run.sess.repos
  /\ present' \in {present, present \ {r}}
  /\ run' = [run EXCEPT !.sess.repos = @ \ {r}]
  /\ UNCHANGED <<file, created, flaws, wg, mcp, cloner, edge>>

RemoveProfile ==
  /\ run.phase = "rollback"
  /\ run.sess.repos = {}
  /\ wg' \in {wg, None}
  /\ run' = [run EXCEPT !.phase = "rollback mcp"]
  /\ UNCHANGED <<file, created, flaws, present, mcp, cloner, edge>>

RemoveMCPEnv ==
  /\ run.phase = "rollback mcp"
  /\ mcp' \in {mcp, None}
  /\ run' = [run EXCEPT !.phase = "rollback clear"]
  /\ UNCHANGED <<file, created, flaws, present, wg, cloner, edge>>

(* Last of all the checkpoint goes, or the command fails. *)
RollbackEnds ==
  /\ run.phase = "rollback clear"
  /\ file' \in {None, file}
  /\ Exit
  /\ UNCHANGED <<created, flaws, machine, edge>>

Killed ==
  /\ ~Off
  /\ Exit
  /\ UNCHANGED <<file, created, flaws, machine, edge>>

(* The edge keeps accounts in memory only. *)
EdgeRestarts ==
  /\ account # None
  /\ account' = None
  /\ lost' = lost \union {account}
  /\ UNCHANGED <<file, run, created, spent, flaws, machine>>

Steps ==
  \/ SkipStep \/ StopDryRun \/ Diagnose \/ EnsureKey
  \/ ClaimFails \/ \E k \in Credentials : Claim(k)
  \/ ConfigureNetwork
  \/ \E r \in Targets : CloneTarget(r) \/ CloneFails(r)
  \/ CloneEnds \/ ConfigureMCP \/ StartStack \/ Save \/ Finish

Next ==
  \/ \E token, dry \in BOOLEAN :
       Resume(token, dry) \/ Discard(token, dry) \/ StartFresh(token, dry)
  \/ Create
  \/ Steps
  \/ Reset
  \/ Rollback
  \/ \E r \in Targets : RemoveRepo(r)
  \/ RemoveProfile \/ RemoveMCPEnv \/ RollbackEnds
  \/ Killed
  \/ EdgeRestarts

Spec == Init /\ [][Next]_vars

-----------------------------------------------------------------------------
(* Types, for any number of invocations. *)
TypeOK ==
  /\ file \in Session \union {None}
  /\ run \in [ phase : {"off", "create", "step", "save", "rollback",
                        "rollback mcp", "rollback clear"},
               sess  : Session \union {None},
               step  : DoctorPassed .. Completed,
               token : BOOLEAN,
               dry   : BOOLEAN,
               todo  : SUBSET Targets ]
  /\ present \subseteq Targets
  /\ {wg, mcp, account} \subseteq Credentials \union {None}
  /\ spent \subseteq Credentials /\ lost \subseteq spent
  /\ created \in Nat
  /\ cloner \in [Targets -> Nat]
  /\ flaws \subseteq Nat \X Flaws

(* Once the checkpoint says that a session claimed its token, no run of    *)
(* that session, however often killed and resumed, sends a claim again.    *)
NeverClaimsAgain ==
  [][ (At(TokenClaimed) /\ run' # run /\ file # None /\ file.id = run.sess.id)
        => file.stage < TokenClaimed ]_vars

(* Checkpoint, VPN profile and mcp.env hold the credential the edge holds: *)
(* a claim whose answer was lost, whose checkpoint was never written, or   *)
(* that a later session made anew is repeated without a second account,    *)
(* so it does not invalidate what an earlier one left behind, unless a     *)
(* restart of the edge wiped the account.                                  *)
CredentialIsCurrent ==
  \A k \in {wg, mcp} \union (IF file = None THEN {} ELSE {file.cred}) :
    k = None \/ k = account \/ k \in lost

(* A session completes with both profiles holding the credential that its  *)
(* checkpoint holds, in however many runs it got there, unless a write     *)
(* failed unnoticed or a rollback of it was cut short.                     *)
CompletesTogether ==
  [][ (file' # file /\ file' # None /\ file'.stage = Completed /\ ~Flawed(file'))
        => wg = file'.cred /\ mcp = file'.cred /\ file'.cred # None ]_vars

(* Behind the workspace stage the checkpoint lists every repository on     *)
(* disk that a run of this session cloned, those included that were cloned *)
(* by a run killed before it could save: rollback will find them.          *)
RollbackFindsClones ==
  file # None /\ file.stage >= ReposCloned =>
    \A r \in present : cloner[r] = file.id => r \in file.repos

(* A rollback that ends well has reverted the provisioned credential. *)
RollbackRevertsCredentials ==
  [][ run.phase = "rollback clear" /\ file # None /\ file' = None
        => account = None ]_vars

(* Rollback removes what the onboarding cloned, and nothing else. *)
RollbackRemovesOnlyClones ==
  [][ \A r \in present \ present' : cloner[r] # 0 ]_vars

=============================================================================
