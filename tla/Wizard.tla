------------------------------- MODULE Wizard -------------------------------
(***************************************************************************)
(* The onboarding wizard (pkg/tui/onboard): a loop that handles one        *)
(* message at a time (key, tick, result of a background command) and       *)
(* hands it to the screen that is shown, and the checkpoint file it shares *)
(* with the headless flow of OnboardSession.                               *)
(*                                                                         *)
(* The edge, the diagnostics, the healers and git are external: they       *)
(* succeed or fail.  The environment screen handles R and S only after a   *)
(* failed automation, and only R starts one: no key leaves it but ctrl+c.  *)
(***************************************************************************)
EXTENDS Naturals

CONSTANTS
  Repos,          \* repositories offered, all of them optional
  None,
  MaxIssued       \* bound: credentials the edge issues

VARIABLES
  file,           \* the checkpoint file
  ui,             \* the wizard, None when it does not run
  jobs,           \* background commands whose result is still to come
  issued,         \* credentials issued: the newest one is the account's
  onDisk          \* repositories of the workspace

vars == <<file, ui, jobs, issued, onDisk>>

Kinds == {"diagnose", "heal", "claim", "clone"}

ScreenOf == [diagnose |-> "doctor", heal |-> "doctor",
             claim |-> "identity", clone |-> "workspace"]

(* Stages with a screen, and checkpoints between two of them.  token_claimed *)
(* stands for every checkpoint of the headless flow behind its claim.      *)
Screens == {"welcome", "doctor", "identity", "workspace", "environment",
            "completed"}
Between == {"doctor_passed", "claim_submitted", "repos_cloned",
            "token_claimed"}
PastClaim == {"claim_submitted", "workspace", "repos_cloned", "environment",
              "token_claimed", "completed"}

Session == [ stage : Screens \union Between \union {"init"},
             cred  : 0..MaxIssued,      \* 0: none
             repos : SUBSET Repos ]

Display == [ screen : Screens \union Between, sess : Session,
             offered : Session \union {None},
             report : {"none", "clean", "healable", "errors"},
             running : BOOLEAN, healing : BOOLEAN,
             submitting : BOOLEAN, banner : BOOLEAN,
             cloning : BOOLEAN, cloneError : BOOLEAN,
             selected : SUBSET Repos,
             status : [Repos -> {"pending", "cloning", "cloned", "exists", "failed"}] ]

Fresh == [stage |-> "init", cred |-> 0, repos |-> {}]

Pending(f) == f # None /\ f.stage # "completed"

NoJobs == [k \in Kinds |-> 0]

On(screen) == ui # None /\ ui.screen = screen

-----------------------------------------------------------------------------
Init ==
  /\ file = None
  /\ ui = None
  /\ jobs = NoJobs
  /\ issued = 0
  /\ onDisk \in SUBSET Repos

(* Mutant: a start without --resume begins a new session file. *)
StartAnew(resume, reset) ==
  /\ ui = None
  /\ file' = IF resume /\ ~reset THEN file ELSE None
  /\ ui' = [ screen |-> "welcome", sess |-> [Fresh EXCEPT !.stage = "welcome"],
             offered |-> None, report |-> "none",
             running |-> FALSE, healing |-> FALSE,
             submitting |-> FALSE, banner |-> FALSE,
             cloning |-> FALSE, cloneError |-> FALSE,
             selected |-> {}, status |-> [r \in Repos |-> "pending"] ]
  /\ UNCHANGED <<jobs, issued, onDisk>>

(* NewWizardModel and NewWelcomeModel.  Without --resume the first screen  *)
(* is welcome, which offers a checkpoint that is worth it.                 *)
Start(resume, reset) ==
  LET kept == IF reset THEN None ELSE file
      found == kept # None /\ (resume \/ Pending(kept))
      loaded == IF found THEN kept ELSE Fresh
      screen == IF ~resume \/ loaded.stage = "init"
                THEN "welcome" ELSE loaded.stage
      offered == IF /\ Pending(kept)
                    /\ ~resume
                    /\ kept.stage \notin {"init", "welcome"}
                 THEN kept ELSE None
  IN /\ ui = None
     /\ file' = kept
     /\ ui' = [ screen |-> screen, sess |-> [loaded EXCEPT !.stage = screen],
                offered |-> offered, report |-> "none",
                running |-> FALSE, healing |-> FALSE,
                submitting |-> FALSE, banner |-> FALSE,
                cloning |-> FALSE, cloneError |-> FALSE,
                selected |-> {}, status |-> [r \in Repos |-> "pending"] ]
     /\ UNCHANGED <<jobs, issued, onDisk>>

(* SetStage: show a screen and write the checkpoint. *)
SetStage(w, sess, stage) ==
  /\ ui' = [w EXCEPT !.screen = stage, !.sess = [sess EXCEPT !.stage = stage],
                     !.banner = FALSE]
  /\ file' = [sess EXCEPT !.stage = stage]

(* A screen that ends writes a checkpoint of its own before SetStage: a    *)
(* kill falls before the first, between the two or behind them.            *)
Leave(w, sess, checkpoint, stage) ==
  \/ SetStage(w, sess, stage)
  \/ file' = [sess EXCEPT !.stage = checkpoint] /\ ui' = None

Run(kind) == jobs' = [jobs EXCEPT ![kind] = @ + 1]

-----------------------------------------------------------------------------
(* The welcome screen.                                                     *)

ResumeOffered ==
  /\ On("welcome") /\ ui.offered # None
  /\ SetStage([ui EXCEPT !.offered = None], ui.offered, ui.offered.stage)
  /\ UNCHANGED <<jobs, issued, onDisk>>

DiscardOffered ==
  /\ On("welcome") /\ ui.offered # None
  /\ file' = None
  /\ ui' = [ui EXCEPT !.offered = None, !.sess = Fresh]
  /\ UNCHANGED <<jobs, issued, onDisk>>

EnterToken ==
  /\ On("welcome") /\ ui.offered = None
  /\ Leave(ui, ui.sess, ui.sess.stage, "doctor")
  /\ UNCHANGED <<jobs, issued, onDisk>>

-----------------------------------------------------------------------------
(* The diagnostics screen.  Ticks start the first scan.                    *)

Idle == ~ui.running /\ ~ui.healing

Diagnose ==
  /\ On("doctor") /\ Idle
  /\ ui' = [ui EXCEPT !.running = TRUE]
  /\ Run("diagnose")
  /\ UNCHANGED <<file, issued, onDisk>>

Heal ==
  /\ On("doctor") /\ Idle
  /\ ui.report = "healable"
  /\ ui' = [ui EXCEPT !.healing = TRUE]
  /\ Run("heal")
  /\ UNCHANGED <<file, issued, onDisk>>

PassDoctor ==
  /\ On("doctor") /\ Idle
  /\ ui.report = "clean"
  /\ Leave(ui, ui.sess, "doctor_passed", "identity")
  /\ UNCHANGED <<jobs, issued, onDisk>>

-----------------------------------------------------------------------------
(* The identity screen: Enter submits, R does after an error.              *)

(* Mutant: Enter submits whether or not a claim is under way. *)
RunClaimAgain ==
  /\ On("identity")
  /\ ui' = [ui EXCEPT !.submitting = TRUE, !.banner = FALSE]
  /\ Run("claim")
  /\ UNCHANGED <<file, issued, onDisk>>

RunClaim ==
  /\ On("identity")
  /\ ~ui.submitting \/ ui.banner
  /\ \/ /\ ui' = [ui EXCEPT !.submitting = TRUE, !.banner = FALSE]
        /\ Run("claim")
     \/ /\ ui' = [ui EXCEPT !.submitting = FALSE, !.banner = TRUE] \* no keypair
        /\ UNCHANGED jobs
  /\ UNCHANGED <<file, issued, onDisk>>

-----------------------------------------------------------------------------
(* The workspace screen: Space and A select, Enter clones, R tries again.  *)

Toggle(r) ==
  /\ On("workspace") /\ ~ui.cloning
  /\ ui' = [ui EXCEPT !.selected = IF r \in @ THEN @ \ {r} ELSE @ \union {r}]
  /\ UNCHANGED <<file, jobs, issued, onDisk>>

RunCloner ==
  /\ On("workspace")
  /\ \/ ~ui.cloning /\ ui.selected # {}
     \/ ui.cloneError
  /\ IF ui.selected = {}
     THEN /\ SetStage([ui EXCEPT !.cloneError = FALSE], ui.sess, "environment")
          /\ UNCHANGED jobs
     ELSE /\ ui' = [ui EXCEPT !.cloning = TRUE, !.cloneError = FALSE,
                              !.status = [r \in Repos |->
                                IF r \in ui.selected THEN "cloning" ELSE @[r]]]
          /\ Run("clone")
          /\ UNCHANGED file
  /\ UNCHANGED <<issued, onDisk>>

(* A worker clones one repository; its result comes as CloneProgressMsg.   *)
Clone(r) ==
  /\ On("workspace") /\ jobs["clone"] > 0
  /\ ui.status[r] = "cloning"
  /\ \/ /\ ui' = [ui EXCEPT !.status[r] =
                    IF r \in onDisk THEN "exists" ELSE "cloned"]
        /\ onDisk' = onDisk \union {r}
     \/ ui' = [ui EXCEPT !.status[r] = "failed"] /\ UNCHANGED onDisk
  /\ UNCHANGED <<file, jobs, issued>>

-----------------------------------------------------------------------------
(* The edge accepts a claim; its answer may never be read.                 *)
EdgeClaims ==
  /\ jobs["claim"] > 0
  /\ issued < MaxIssued
  /\ issued' = issued + 1
  /\ UNCHANGED <<file, ui, jobs, onDisk>>

HandleDiagnostics ==
  /\ \E report \in {"clean", "healable", "errors"} :
       ui' = [ui EXCEPT !.running = FALSE, !.report = report]
  /\ UNCHANGED file

(* A scan follows every attempt at healing. *)
HandleHeal ==
  /\ ui' = [ui EXCEPT !.healing = FALSE, !.running = TRUE]
  /\ UNCHANGED file

HandleClaim ==
  \/ /\ issued > 0
     /\ Leave([ui EXCEPT !.submitting = FALSE],
              [ui.sess EXCEPT !.cred = issued],
              "claim_submitted", "workspace")
  \/ /\ ui' = [ui EXCEPT !.submitting = FALSE, !.banner = TRUE]
     /\ UNCHANGED file

HandleCloned ==
  LET done == [ui EXCEPT !.cloning = FALSE]
      cloned == {r \in ui.selected : ui.status[r] \in {"cloned", "exists"}}
  IN /\ \A r \in Repos : ui.status[r] # "cloning"
     /\ IF \E r \in ui.selected : ui.status[r] = "failed"
        THEN /\ ui' = [done EXCEPT !.cloneError = TRUE]
             /\ UNCHANGED file
        ELSE Leave([done EXCEPT !.cloneError = FALSE],
                   [ui.sess EXCEPT !.repos = cloned],
                   "repos_cloned", "environment")

(* Update hands the result to the screen that is shown; any other screen   *)
(* than the one that asked drops it.                                       *)
Result(kind) ==
  /\ ui # None /\ jobs[kind] > 0
  /\ IF ui.screen = ScreenOf[kind]
     THEN /\ CASE kind = "diagnose" -> HandleDiagnostics
               [] kind = "heal" -> HandleHeal
               [] kind = "claim" -> HandleClaim
               [] kind = "clone" -> HandleCloned
     ELSE UNCHANGED <<file, ui>>
  /\ LET left == [jobs EXCEPT ![kind] = @ - 1]
     IN jobs' = CASE ui' = None -> NoJobs
                  [] kind = "heal" /\ ui.screen = "doctor" ->
                       [left EXCEPT !["diagnose"] = @ + 1]
                  [] OTHER -> left
  /\ UNCHANGED <<issued, onDisk>>

-----------------------------------------------------------------------------
(* ctrl+c writes the checkpoint, a kill does not. *)
Quit ==
  /\ ui # None
  /\ file' = ui.sess
  /\ ui' = None
  /\ jobs' = NoJobs
  /\ UNCHANGED <<issued, onDisk>>

Kill ==
  /\ ui # None
  /\ ui' = None
  /\ jobs' = NoJobs
  /\ UNCHANGED <<file, issued, onDisk>>

(* The headless flow, with --resume, runs between two wizards and stops    *)
(* after one of its checkpoints.  Of the wizard's stages it ranks          *)
(* doctor_passed, repos_cloned and completed: from any other it claims     *)
(* again.                                                                  *)
Headless ==
  /\ ui = None
  /\ LET old == IF Pending(file) THEN file ELSE Fresh
         claimed == old.stage \in {"token_claimed", "repos_cloned"}
     IN \/ /\ ~claimed
           /\ file' = [old EXCEPT !.stage = "doctor_passed"]
           /\ UNCHANGED issued
        \/ \E stage \in {"token_claimed", "completed"} :
             /\ claimed => stage # "token_claimed"
             /\ issued' \in (IF claimed THEN {issued}
                             ELSE (issued..(issued + 1)) \ {0})
             /\ issued' <= MaxIssued
             /\ file' = [old EXCEPT !.stage = stage,
                           !.cred = IF claimed THEN @ ELSE issued']
  /\ UNCHANGED <<ui, jobs, onDisk>>

Next ==
  \/ \E resume, reset \in BOOLEAN : Start(resume, reset)
  \/ ResumeOffered \/ DiscardOffered \/ EnterToken
  \/ Diagnose \/ Heal \/ PassDoctor
  \/ RunClaim
  \/ RunCloner
  \/ \E r \in Repos : Toggle(r) \/ Clone(r)
  \/ EdgeClaims
  \/ \E kind \in Kinds : Result(kind)
  \/ Quit \/ Kill
  \/ Headless

Spec == Init /\ [][Next]_vars

-----------------------------------------------------------------------------
TypeOK ==
  /\ file \in Session \union {None}
  /\ ui \in Display \union {None}
  /\ jobs \in [Kinds -> Nat]
  /\ issued \in 0..MaxIssued
  /\ onDisk \subseteq Repos

(* At most one command runs in the background, for the screen that is      *)
(* shown, and that screen knows it is waiting: no result is dropped, none  *)
(* comes twice, and no key starts a second command beside the first.       *)
OneCommandAtATime ==
  /\ \A k, l \in Kinds : jobs[k] > 0 /\ jobs[l] > 0 => k = l
  /\ \A k \in Kinds : jobs[k] > 0 =>
       /\ jobs[k] = 1
       /\ ui # None /\ ui.screen = ScreenOf[k]
       /\ CASE k = "diagnose" -> ui.running [] k = "heal" -> ui.healing
            [] k = "claim" -> ui.submitting [] k = "clone" -> ui.cloning

(* Whatever the wizard shows or has written behind the claim carries a     *)
(* credential the edge issued, in whichever process it was obtained.       *)
ClaimedHasCredential ==
  /\ file # None /\ file.stage \in PastClaim => file.cred > 0
  /\ ui # None /\ ui.screen \in PastClaim => ui.sess.cred > 0

(* A credential in an unfinished checkpoint is not lost but by discarding  *)
(* the checkpoint (D, --reset): not by ctrl+c on a screen that loaded      *)
(* another copy of it, not by a kill, not by the headless flow.            *)
CredentialSurvives ==
  [][Pending(file) /\ file.cred > 0
       => \/ file' # None /\ file'.cred >= file.cred
          \/ DiscardOffered
          \/ \E resume \in BOOLEAN : Start(resume, TRUE)]_vars

CredentialKept == []ClaimedHasCredential /\ CredentialSurvives

(* The two flows share one set of checkpoints: once the edge has issued    *)
(* the credential of a session, the headless flow that resumes it does not *)
(* claim again.                                                            *)
ClaimsOnce ==
  [][Pending(file) /\ file.cred > 0 /\ file.stage \in PastClaim /\ Headless
       => issued' = issued]_vars

=============================================================================
