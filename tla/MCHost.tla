------------------------------ MODULE MCHost ------------------------------
(***************************************************************************)
(* Small instances for TLC of the parts that run on a developer's machine: *)
(* the search for a port, the onboarding wizard, the HTTP clients, the     *)
(* migrations, the configuration file, the self-update and its opposite,   *)
(* the switch of the CI runners, the local release tier and the dev stack. *)
(* They do not interact.  One of them runs, chosen at the start; the       *)
(* others stay in one initial state.                                       *)
(***************************************************************************)
EXTENDS PortBlocks, Sequences

CONSTANTS
  None,
  Repos, MaxIssued,                   \* of Wizard
  MaxRetries, MaxCalls,               \* of EdgeCalls
  Terminals,                          \* of Migrations and ConfigFile
  Count, MaxRuns,                     \* of Migrations
  MaxRelease,                         \* of Updater
  CIRepos, CISecrets, DeployKeySecret, MaxTurns,      \* of CIPool
  Servers, Main, MaxRepos, MaxEdits,  \* of LocalTier
  CoreServices, WithFallback, MaxChanges              \* of DevStack

ASSUME HostAssumption ==
  /\ MaxIssued \in Nat
  /\ MaxRetries \in Nat /\ MaxCalls \in Nat
  /\ Count \in Nat /\ MaxRuns \in Nat
  /\ MaxRelease \in Nat \ {0}
  /\ CIRepos \in Seq(STRING) /\ CIRepos # <<>>
  /\ \A i, j \in DOMAIN CIRepos : CIRepos[i] = CIRepos[j] => i = j
  /\ CISecrets \in [{CIRepos[i] : i \in DOMAIN CIRepos} -> Seq(STRING)]
  /\ MaxTurns \in Nat
  /\ MaxRepos \in Nat /\ Main \notin 1..MaxRepos
  /\ MaxEdits \in Nat
  /\ WithFallback \subseteq CoreServices
  /\ MaxChanges \in Nat

VARIABLES
  part,
  file, ui, jobs, issued, onDisk,
  call, wire, late, served, member, invited, calls,
  state, ran, job,
  yaml, edit, told,
  latest, binary, cache, task, notice,
  disk, flags, removal,
  owner, hub, online, source, keys, switch, turns,
  conf, databases, written, alive, check, edits,
  infra, who, up, since, changes

wizardVars == <<file, ui, jobs, issued, onDisk>>
callVars == <<call, wire, late, served, member, invited, calls>>
migrateVars == <<state, ran, job>>
configVars == <<yaml, edit, told>>
updateVars == <<latest, binary, cache, task, notice>>
uninstallVars == <<disk, flags, removal>>
ciVars == <<owner, hub, online, source, keys, switch, turns>>
tierVars == <<conf, databases, written, alive, check, edits>>
devVars == <<infra, who, up, since, changes>>

Wiz == INSTANCE Wizard

Edge == INSTANCE EdgeCalls

Migrate == INSTANCE Migrations

Config == INSTANCE ConfigFile

(* None is told apart from what it stands beside: a checkpoint, a display, *)
(* a configuration file or a value in it, a name, and a number.            *)
ASSUME NoneAssumption ==
  /\ None \notin Wiz!Session
  /\ None \notin Wiz!Display
  /\ None \notin Config!Config
  /\ None \notin Config!Values \cup {Config!Unknown}
  /\ None \notin {"orbit", "other", "vps", "stack", "sync"}
  /\ None \notin Nat

Update == INSTANCE Updater

Remove == INSTANCE Uninstall WITH task <- removal

CI == INSTANCE CIPool WITH
        Repos <- CIRepos, MaxChanges <- MaxTurns,
        job <- switch, changes <- turns

Tier == INSTANCE LocalTier WITH Dev <- Main

Dev == INSTANCE DevStack

-----------------------------------------------------------------------------
(* For CIPool, either the files of secrets vary, or what GitHub has does.  *)
FirstRepo == CIRepos[1]

LastRepo == CIRepos[Len(CIRepos)]

Files ==
  /\ owner[LastRepo] # "other" /\ hub[FirstRepo].private
  /\ \A r \in DOMAIN owner : hub[r].runner = None
  /\ part = "ci" \/ owner[LastRepo] = "orbit"

Runners ==
  /\ source.mode = 384 /\ source.value = 1 /\ keys[FirstRepo] = None
  /\ hub[FirstRepo].runner = hub[LastRepo].runner

(* The instances of CIPool. *)
MCRepos == <<"a", "b">>

MCSecrets == [a |-> <<"TOKEN", "DEPLOY_SSH_KEY">>, b |-> <<"TOKEN">>]

Init10 ==
  /\ part \in {"ports", "wizard", "calls", "migrate", "config", "update",
               "uninstall", "ci", "tier", "dev"}
  /\ Init
  /\ Wiz!Init
  /\ Edge!Init
  /\ Migrate!Init
  /\ Config!Init
  /\ find.project = 0
  /\ part # "wizard" => onDisk = {}
  /\ part # "config" => yaml = None
  /\ Update!Init
  /\ part # "update" => binary.version = 0
  /\ Remove!Init
  /\ part # "uninstall" => \A p \in Remove!Binaries : disk[p] = "none"
  /\ Tier!Init
  /\ part # "tier" => conf = None
  /\ Dev!Init
  /\ part # "dev" => infra = {} /\ \A p \in Dev!Ports : who[p] = None
  /\ CI!Init
  /\ IF part = "ci" THEN Files \/ Runners
     ELSE Files /\ Runners /\ online = {} /\ ~hub[LastRepo].private

Others(p) ==
  /\ UNCHANGED part
  /\ p # "ports" => UNCHANGED vars
  /\ p # "wizard" => UNCHANGED wizardVars
  /\ p # "calls" => UNCHANGED callVars
  /\ p # "migrate" => UNCHANGED migrateVars
  /\ p # "config" => UNCHANGED configVars
  /\ p # "update" => UNCHANGED updateVars
  /\ p # "uninstall" => UNCHANGED uninstallVars
  /\ p # "ci" => UNCHANGED ciVars
  /\ p # "tier" => UNCHANGED tierVars
  /\ p # "dev" => UNCHANGED devVars

On(p) == part = p /\ Others(p)

Next10 ==
  \/ On("ports") /\ Next
  \/ On("wizard") /\ Wiz!Next
  \/ On("calls") /\ Edge!Next
  \/ On("migrate") /\ Migrate!Next
  \/ On("config") /\ Config!Next
  \/ On("update") /\ Update!Next
  \/ On("uninstall") /\ Remove!Next
  \/ On("ci") /\ CI!Next
  \/ On("tier") /\ Tier!Next
  \/ On("dev") /\ Dev!Next

all ==
  <<part, vars, wizardVars, callVars, migrateVars, configVars, updateVars,
    uninstallVars, ciVars, tierVars, devVars>>

(* The fairness of EdgeCalls. *)
Advance == On("calls") /\ Edge!Step

Transport == On("calls") /\ Edge!Network

HostSpec == Init10 /\ [][Next10]_all /\ WF_all(Advance) /\ WF_all(Transport)

-----------------------------------------------------------------------------
(* Every part keeps its types. *)
HostTypeOK ==
  CASE part = "ports" -> TypeOK
    [] part = "wizard" -> Wiz!TypeOK
    [] part = "calls" -> Edge!TypeOK
    [] part = "migrate" -> Migrate!TypeOK
    [] part = "config" -> Config!TypeOK
    [] part = "update" -> Update!TypeOK
    [] part = "uninstall" -> Remove!TypeOK
    [] part = "ci" -> CI!TypeOK
    [] part = "tier" -> Tier!TypeOK
    [] part = "dev" -> Dev!TypeOK

(* The wizard runs one background command, for the screen that is shown    *)
(* (Wizard).                                                               *)
OneCommandAtATime == Wiz!OneCommandAtATime

(* What is shown or written behind the claim carries a credential, and an  *)
(* unfinished checkpoint does not lose it (Wizard).                        *)
CredentialKept == Wiz!CredentialKept

(* A command ends, whatever the network does (EdgeCalls). *)
CallsEnd == Edge!CallsEnd

(* What was answered or is on record is so: a success of an HTTP call      *)
(* stands for an effect on the server (EdgeCalls), the migrations recorded *)
(* as applied have run (Migrations), and what orbit config reported is     *)
(* what is resolved (ConfigFile).                                          *)
RecordIsSo ==
  /\ Edge!SuccessIsServed
  /\ Migrate!RecordedHasRun
  /\ Migrate!DoneHasRun
  /\ Config!ReportedResolves

(* So is what a command reported that works through a list: what uninstall *)
(* removed (Uninstall), where CI runs and which secrets were pushed        *)
(* (CIPool), the release tier that passed and left nothing behind          *)
(* (LocalTier), and which services are ready (DevStack).                   *)
SuccessIsSo ==
  CASE part = "uninstall" -> Remove!GoneAsReported
    [] part = "ci" -> CI!SwitchIsSo /\ CI!PushIsSo
    [] part = "tier" -> Tier!LeavesNoTrace
    [] part = "dev" -> Dev!ReadinessIsSo
    [] OTHER -> RecordIsSo

(* A notice from the cached check offers a newer release than the binary   *)
(* (Updater), uninstall removes what was agreed (Uninstall), and a         *)
(* repository is pinned to runners that could take its jobs (CIPool).      *)
DoneForAReason ==
  /\ Update!NoticeIsAnUpgrade
  /\ Remove!RemovedAsAgreed
  /\ CI!PinnedForAReason

=============================================================================
