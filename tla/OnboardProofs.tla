--------------------------- MODULE OnboardProofs ----------------------------
(***************************************************************************)
(* Proofs about OnboardSession, for any manifest, any credentials and any  *)
(* number of checkpoints.                                                  *)
(***************************************************************************)
EXTENDS OnboardSession, TLAPS

-----------------------------------------------------------------------------
Running == run.phase \in {"step", "save"}

RollingBack == run.phase \in {"rollback", "rollback mcp", "rollback clear"}

Current(k) == k = None \/ k = account \/ k \in lost

(* The stage of the running session that has been saved. *)
SavedStage == IF run.phase = "save" THEN run.step - 1 ELSE run.sess.stage

(* Where a run is: all steps before its own are done, and its own is when  *)
(* it is about to save.                                                    *)
StepOK ==
  /\ run.phase \in {"off", "create"} <=> run.sess = None
  /\ run.phase = "create" => run.step = DoctorPassed
  /\ run.phase = "step" => run.sess.stage >= run.step - 1
  /\ run.phase = "save" =>
       /\ run.step <= DevStackReady
       /\ run.sess.stage = IF run.step = DevStackReady THEN Completed ELSE run.step

(* Sessions are numbered, and one that has claimed holds a credential. *)
NumberOK ==
  /\ file # None => file.id \in 1 .. created
  /\ run.sess # None => run.sess.id \in 1 .. created
  /\ \A r \in Targets : cloner[r] <= created
  /\ file # None /\ file.stage >= TokenClaimed => file.cred # None
  /\ Running /\ run.sess.stage >= TokenClaimed => run.sess.cred # None

(* Nobody else writes the checkpoint while a session runs, and a session   *)
(* goes on only behind a step it has saved.                                *)
FollowsOK ==
  /\ Running =>
       /\ file # None /\ file.id = run.sess.id => file.stage = SavedStage
       /\ SavedStage > Init0 => file # None /\ file.id = run.sess.id
  /\ RollingBack =>
       /\ file # None /\ file.id = run.sess.id
       /\ <<file.id, "rollback">> \in flaws

(* No credential anywhere on the machine is one the edge never issued or   *)
(* has replaced.                                                           *)
CredentialsOK ==
  /\ account # None => account \in spent
  /\ Current(wg) /\ Current(mcp)
  /\ file # None => Current(file.cred)
  /\ Running => Current(run.sess.cred)

(* What is behind a stage of the workspace is recorded, or to be looked at *)
(* in this run.                                                            *)
ClonesOK ==
  /\ RollbackFindsClones
  /\ Running => \A r \in present :
       cloner[r] = run.sess.id =>
         r \in run.sess.repos \/ (run.sess.stage < ReposCloned /\ r \in run.todo)

ProfilesOf(sess) ==
  /\ sess.stage >= NetworkConfigured => wg = sess.cred
  /\ sess.stage >= MCPConfigured => mcp = sess.cred

(* Both profiles hold the credential of a session without flaws. *)
ProfilesOK ==
  /\ file # None /\ ~Flawed(file) => ProfilesOf(file)
  /\ Running /\ ~Flawed(run.sess) => ProfilesOf(run.sess)

IInv ==
  /\ TypeOK /\ StepOK /\ NumberOK /\ FollowsOK /\ CredentialsOK /\ ClonesOK
  /\ ProfilesOK
-----------------------------------------------------------------------------
(* Records whose EXCEPTs are spelled out field by field, once and for all. *)
Phases == {"off", "create", "step", "save", "rollback", "rollback mcp",
           "rollback clear"}

RunSet(S) ==
  [ phase : Phases, sess : S, step : DoctorPassed .. Completed,
    token : BOOLEAN, dry : BOOLEAN, todo : SUBSET Targets ]

Fields(x, p, s, n, t) == x.phase = p /\ x.sess = s /\ x.step = n /\ x.todo = t

(* Nothing below looks into it. *)
MaybeSession == Session \union {None}

Runs == RunSet(MaybeSession)

LEMMA RunStep ==
  ASSUME NEW S, NEW x \in RunSet(S), NEW n \in DoctorPassed .. Completed
  PROVE  /\ [x EXCEPT !.step = n] \in RunSet(S)
         /\ Fields([x EXCEPT !.step = n], x.phase, x.sess, n, x.todo)
BY DEF RunSet, Fields

LEMMA RunPhase ==
  ASSUME NEW S, NEW x \in RunSet(S), NEW p \in Phases
  PROVE  /\ [x EXCEPT !.phase = p] \in RunSet(S)
         /\ Fields([x EXCEPT !.phase = p], p, x.sess, x.step, x.todo)
BY DEF RunSet, Phases, Fields

LEMMA RunPhaseStep ==
  ASSUME NEW S, NEW x \in RunSet(S), NEW p \in Phases, NEW n \in DoctorPassed .. Completed
  PROVE  /\ [x EXCEPT !.phase = p, !.step = n] \in RunSet(S)
         /\ Fields([x EXCEPT !.phase = p, !.step = n], p, x.sess, n, x.todo)
BY DEF RunSet, Phases, Fields

LEMMA RunPhaseSess ==
  ASSUME NEW S, NEW x \in RunSet(S), NEW p \in Phases, NEW s \in S
  PROVE  /\ [x EXCEPT !.phase = p, !.sess = s] \in RunSet(S)
         /\ Fields([x EXCEPT !.phase = p, !.sess = s], p, s, x.step, x.todo)
BY DEF RunSet, Phases, Fields

LEMMA RunTodo ==
  ASSUME NEW S, NEW x \in RunSet(S), NEW t \in SUBSET Targets
  PROVE  /\ [x EXCEPT !.todo = t] \in RunSet(S)
         /\ Fields([x EXCEPT !.todo = t], x.phase, x.sess, x.step, t)
BY DEF RunSet, Fields

LEMMA RunTodoSess ==
  ASSUME NEW S, NEW x \in RunSet(S), NEW t \in SUBSET Targets, NEW s \in S
  PROVE  /\ [x EXCEPT !.todo = t, !.sess = s] \in RunSet(S)
         /\ Fields([x EXCEPT !.todo = t, !.sess = s], x.phase, s, x.step, t)
BY DEF RunSet, Fields

LEMMA RunSess ==
  ASSUME NEW S, NEW x \in RunSet(S), NEW s \in S
  PROVE  /\ [x EXCEPT !.sess = s] \in RunSet(S)
         /\ Fields([x EXCEPT !.sess = s], x.phase, s, x.step, x.todo)
BY DEF RunSet, Fields

LEMMA RunBegins ==
  ASSUME NEW S, NEW x \in RunSet(S), NEW p \in Phases, NEW t \in SUBSET Targets,
         NEW token \in BOOLEAN, NEW dry \in BOOLEAN
  PROVE  /\ [x EXCEPT !.phase = p, !.token = token, !.dry = dry, !.todo = t] \in RunSet(S)
         /\ Fields([x EXCEPT !.phase = p, !.token = token, !.dry = dry, !.todo = t],
                   p, x.sess, x.step, t)
BY DEF RunSet, Phases, Fields

(* s is sess at another stage, with another credential, or with other      *)
(* repositories.                                                           *)
Like(s, sess, stage, cred, repos) ==
  s.id = sess.id /\ s.stage = stage /\ s.cred = cred /\ s.repos = repos

LEMMA SessionStage ==
  ASSUME NEW s \in Session, NEW n \in Stages
  PROVE  /\ [s EXCEPT !.stage = n] \in Session
         /\ Like([s EXCEPT !.stage = n], s, n, s.cred, s.repos)
BY DEF Session, Like

LEMMA SessionClaim ==
  ASSUME NEW s \in Session, NEW n \in Stages, NEW k \in Credentials
  PROVE  /\ [[s EXCEPT !.token = TRUE, !.cred = k] EXCEPT !.stage = n] \in Session
         /\ Like([[s EXCEPT !.token = TRUE, !.cred = k] EXCEPT !.stage = n],
                 s, n, k, s.repos)
BY DEF Session, Like

LEMMA SessionRepos ==
  ASSUME NEW s \in Session, NEW R \in SUBSET Targets
  PROVE  /\ [s EXCEPT !.repos = R] \in Session
         /\ Like([s EXCEPT !.repos = R], s, s.stage, s.cred, R)
BY DEF Session, Like

-----------------------------------------------------------------------------
(* What a step does, in terms of the fields: every step is one of these.   *)
Becomes(p, s, n, t) ==
  run' \in Runs /\ Fields(run', p, s, n, t)

(* The session goes on at the same step. *)
Continues(p, t) == run'.sess \in Session /\ Becomes(p, run'.sess, run.step, t)

Stopped == Becomes("off", None, DoctorPassed, {})

Stops == Stopped /\ UNCHANGED <<file, created, flaws, machine, edge>>

Opens ==
  /\ Off
  /\ file' \in {None, file}
  /\ Becomes("create", None, DoctorPassed, Targets)
  /\ UNCHANGED <<created, flaws, machine, edge>>

Resumes ==
  /\ Off
  /\ file # None
  /\ Becomes("step", file, DoctorPassed, Targets)
  /\ UNCHANGED <<file, created, flaws, machine, edge>>

Creates ==
  /\ run.phase = "create"
  /\ created' = created + 1
  /\ run'.sess.id = created + 1 /\ run'.sess.stage = Init0 /\ run'.sess.cred = None
  /\ file' \in {file, run'.sess}
  /\ Continues("step", run.todo)
  /\ UNCHANGED <<flaws, machine, edge>>

Skips ==
  /\ run.phase = "step"
  /\ run.step <= DevStackReady
  /\ run.sess.stage >= run.step
  /\ Becomes("step", run.sess, run.step + 1, run.todo)
  /\ UNCHANGED <<file, created, flaws, machine, edge>>

(* A step other than the claim is done ... *)
Advances ==
  /\ At(run.step) /\ run.step # TokenClaimed
  /\ Like(run'.sess, run.sess,
          IF run.step = DevStackReady THEN Completed ELSE run.step,
          run.sess.cred, run.sess.repos)
  /\ Continues("save", run.todo)
  /\ run.step <= DevStackReady
  /\ run.step = ReposCloned => run.todo = {}
  /\ wg' \in {wg, run.sess.cred} /\ mcp' \in {mcp, run.sess.cred}
  /\ wg' # wg => run.step = NetworkConfigured
  /\ mcp' # mcp => run.step = MCPConfigured
  /\ run.step = NetworkConfigured => wg' = run.sess.cred \/ <<run.sess.id, "wg">> \in flaws'
  /\ run.step = MCPConfigured => mcp' = run.sess.cred \/ <<run.sess.id, "mcp">> \in flaws'
  /\ flaws \subseteq flaws' /\ flaws' \subseteq Nat \X Flaws
  /\ UNCHANGED <<file, created, present, cloner, edge>>

(* ... or the claim is. *)
Claims ==
  /\ At(TokenClaimed)
  /\ \E k \in Credentials :
       /\ \/ k = account /\ UNCHANGED edge
          \/ account = None /\ account' = k /\ spent' = spent \union {k} /\ UNCHANGED lost
       /\ \/ Stopped
          \/ /\ Like(run'.sess, run.sess, TokenClaimed, k, run.sess.repos)
             /\ Continues("save", run.todo)
  /\ UNCHANGED <<file, created, flaws, machine>>

Clones ==
  /\ At(ReposCloned)
  /\ \E r \in Targets :
       /\ Like(run'.sess, run.sess, run.sess.stage, run.sess.cred, run.sess.repos \union {r})
       /\ Continues("step", run.todo \ {r})
       /\ present' = present \union {r}
       /\ cloner' = [cloner EXCEPT ![r] = IF r \in present THEN @ ELSE run.sess.id]
  /\ UNCHANGED <<file, created, flaws, wg, mcp, edge>>

PassesOver ==
  /\ At(ReposCloned)
  /\ \E r \in Targets \ present : Becomes("step", run.sess, run.step, run.todo \ {r})
  /\ UNCHANGED <<file, created, flaws, machine, edge>>

Saves ==
  /\ run.phase = "save"
  /\ file' = run.sess
  /\ Becomes("step", run.sess, run.step + 1, run.todo)
  /\ UNCHANGED <<created, flaws, machine, edge>>

RollsBack ==
  /\ Off
  /\ file # None
  /\ Becomes("rollback", file, DoctorPassed, {})
  /\ flaws' = flaws \union {<<file.id, "rollback">>}
  /\ UNCHANGED <<file, created, machine, edge>>

Reverts ==
  /\ RollingBack
  /\ run'.sess.id = run.sess.id
  /\ \E p \in {"rollback", "rollback mcp", "rollback clear"} : Continues(p, run.todo)
  /\ present' \subseteq present
  /\ wg' \in {wg, None} /\ mcp' \in {mcp, None}
  /\ UNCHANGED <<file, created, cloner, flaws, edge>>

Clears ==
  /\ RollingBack
  /\ file' \in {None, file}
  /\ Stopped
  /\ UNCHANGED <<created, flaws, machine, edge>>

Kinds ==
  \/ Stops \/ Opens \/ Resumes \/ Creates \/ Skips \/ Advances \/ Claims
  \/ Clones \/ PassesOver \/ Saves \/ Reset \/ RollsBack \/ Reverts \/ Clears
  \/ EdgeRestarts \/ UNCHANGED vars

(* A running session is one. *)
LEMMA RunIsTyped ==
  ASSUME TypeOK, StepOK
  PROVE  /\ run \in RunSet(MaybeSession)
         /\ run.phase \notin {"off", "create"} => run.sess \in Session
BY DEF TypeOK, StepOK, RunSet, Phases, MaybeSession

(* The actions in terms of the fields. *)
LEMMA Exits ==
  ASSUME Exit
  PROVE  Stopped
BY DEF Exit, NoRun, Stopped, Becomes, Runs, RunSet, Phases, Fields, Completed, DoctorPassed, MaybeSession

LEMMA Reaches ==
  ASSUME TypeOK, StepOK, NEW stage \in Stages, run.phase = "step",
         Reach(run.sess, stage)
  PROVE  /\ Like(run'.sess, run.sess, stage, run.sess.cred, run.sess.repos)
         /\ Continues("save", run.todo)
<1> DEFINE s == [run.sess EXCEPT !.stage = stage]
<1>1. s \in Session /\ Like(s, run.sess, stage, run.sess.cred, run.sess.repos)
  BY RunIsTyped, SessionStage
<1>2. Becomes("save", s, run.step, run.todo)
  <2>1. run' = [run EXCEPT !.phase = "save", !.sess = s]
    BY DEF Reach
  <2>2. s \in MaybeSession
    BY <1>1 DEF MaybeSession
  <2> HIDE DEF s
  <2> QED BY <2>1, <2>2, RunIsTyped, RunPhaseSess DEF Becomes, Runs, Phases
<1> HIDE DEF s
<1> QED BY <1>1, <1>2 DEF Becomes, Fields, Continues

LEMMA ReachesClaimed ==
  ASSUME TypeOK, StepOK, NEW k \in Credentials, run.phase = "step",
         Reach([run.sess EXCEPT !.token = TRUE, !.cred = k], TokenClaimed)
  PROVE  /\ Like(run'.sess, run.sess, TokenClaimed, k, run.sess.repos)
         /\ Continues("save", run.todo)
<1> DEFINE s == [[run.sess EXCEPT !.token = TRUE, !.cred = k] EXCEPT !.stage = TokenClaimed]
<1>1. s \in Session /\ Like(s, run.sess, TokenClaimed, k, run.sess.repos)
  <2>1. TokenClaimed \in Stages
    BY DEF TokenClaimed, Stages, Init0, Completed
  <2> QED BY <2>1, RunIsTyped, SessionClaim
<1>2. Becomes("save", s, run.step, run.todo)
  <2>1. run' = [run EXCEPT !.phase = "save", !.sess = s]
    BY DEF Reach
  <2>2. s \in MaybeSession
    BY <1>1 DEF MaybeSession
  <2> HIDE DEF s
  <2> QED BY <2>1, <2>2, RunIsTyped, RunPhaseSess DEF Becomes, Runs, Phases
<1> HIDE DEF s
<1> QED BY <1>1, <1>2 DEF Becomes, Fields, Continues

LEMMA NoRunIsARun ==
  /\ NoRun \in RunSet(MaybeSession)
  /\ Fields(NoRun, "off", None, DoctorPassed, {})
BY DEF NoRun, RunSet, Phases, Fields, Completed, DoctorPassed, MaybeSession

(* A new run begins with all targets to do. *)
LEMMA BeginningIsARun ==
  ASSUME NEW token \in BOOLEAN, NEW dry \in BOOLEAN
  PROVE  LET x == [NoRun EXCEPT !.phase = "create", !.token = token, !.dry = dry,
                              !.todo = Targets]
         IN  x \in RunSet(MaybeSession) /\ Fields(x, "create", None, DoctorPassed, Targets)
<1>1. "create" \in Phases /\ Targets \in SUBSET Targets
  BY DEF Phases
<1>2. PICK x \in RunSet(MaybeSession) :
         x = NoRun /\ Fields(x, "off", None, DoctorPassed, {})
  BY NoRunIsARun
<1>3. LET y == [x EXCEPT !.phase = "create", !.token = token, !.dry = dry, !.todo = Targets]
      IN  y \in RunSet(MaybeSession) /\ Fields(y, "create", x.sess, x.step, Targets)
  BY <1>1, RunBegins
<1> QED BY <1>2, <1>3, Zenon DEF Fields

LEMMA Begins ==
  ASSUME NEW token \in BOOLEAN, NEW dry \in BOOLEAN,
         run' = [NoRun EXCEPT !.phase = "create", !.token = token, !.dry = dry,
                              !.todo = Targets]
  PROVE  Becomes("create", None, DoctorPassed, Targets)
BY BeginningIsARun DEF Becomes, Runs

LEMMA StepsOn ==
  ASSUME NEW S, run \in RunSet(S), run.step <= DevStackReady
  PROVE  run.step + 1 \in DoctorPassed .. Completed
<1>1. run.step \in DoctorPassed .. Completed
  BY DEF RunSet
<1> QED BY <1>1 DEF DoctorPassed, DevStackReady, Completed

(* Every step is of one of the kinds. *)
LEMMA EveryStepIsAKind ==
  ASSUME IInv, [Next]_vars
  PROVE  Kinds
<1>0. TypeOK /\ StepOK /\ run \in RunSet(MaybeSession)
  BY RunIsTyped DEF IInv
<1>1. ASSUME NEW token \in BOOLEAN, NEW dry \in BOOLEAN, Resume(token, dry)
      PROVE  Resumes
  <2>1. file \in MaybeSession /\ file # None
    BY <1>0, <1>1 DEF Resume, Pending, TypeOK, MaybeSession
  <2> HIDE DEF MaybeSession
  <2>2. Becomes("step", file, DoctorPassed, Targets)
    BY <2>1, <1>1 DEF Resume, Becomes, Runs, RunSet, Phases, Fields, DoctorPassed, Completed
  <2> QED BY <2>1, <2>2, <1>1 DEF Resume, Resumes
<1>2. ASSUME NEW token \in BOOLEAN, NEW dry \in BOOLEAN,
             Discard(token, dry) \/ StartFresh(token, dry)
      PROVE  Opens
  <2>1. Becomes("create", None, DoctorPassed, Targets)
    BY <1>2, Begins DEF Discard, StartFresh
  <2> QED BY <2>1, <1>2 DEF Discard, StartFresh, Opens
<1>3. CASE Create
  <2> DEFINE s == [id |-> created + 1, stage |-> Init0, token |-> FALSE,
                   cred |-> None, repos |-> {}]
  <2>1. s \in Session /\ s.id = created + 1 /\ s.stage = Init0 /\ s.cred = None
    <3>1. created \in Nat
      BY <1>0 DEF TypeOK
    <3> QED BY <3>1 DEF Session, Stages, Init0, Completed
  <2>2. s \in MaybeSession
    BY <2>1 DEF MaybeSession
  <2>3. file' \in {file, s} /\ run' = [run EXCEPT !.phase = "step", !.sess = s]
    BY <1>3 DEF Create
  <2> HIDE DEF s
  <2>4. Becomes("step", s, run.step, run.todo)
    BY <1>0, <2>2, <2>3, RunPhaseSess DEF Becomes, Runs, Phases
  <2>5. run'.sess = s
    BY <2>4 DEF Becomes, Fields
  <2> QED BY <1>3, <2>1, <2>3, <2>4, <2>5 DEF Create, Creates, Kinds, Continues
<1>4. CASE SkipStep
  <2>1. Becomes("step", run.sess, run.step + 1, run.todo)
    BY <1>0, <1>4, StepsOn, RunStep DEF SkipStep, Becomes, Runs, Fields
  <2> QED BY <1>4, <2>1 DEF SkipStep, Skips, IsStageCompleted, Kinds
<1>5. CASE StopDryRun \/ ClaimFails \/ Finish \/ Killed
  BY <1>5, Exits DEF StopDryRun, ClaimFails, Finish, Killed, Stops, Kinds
<1>6. CASE Diagnose \/ EnsureKey
  <2>1. CASE Exit
    BY <1>6, <2>1, Exits DEF Diagnose, EnsureKey, Stops, Kinds
  <2>2. CASE ~Exit
    <3>1. /\ At(run.step) /\ run.step \in {DoctorPassed, KeypairReady}
          /\ Reach(run.sess, run.step)
      BY <1>6, <2>2 DEF Diagnose, EnsureKey, At
    <3>2. /\ Like(run'.sess, run.sess, run.step, run.sess.cred, run.sess.repos)
          /\ Continues("save", run.todo)
      <4>1. run.phase = "step" /\ run.step \in Stages
        BY <3>1 DEF At, Stages, Init0, Completed, DoctorPassed, KeypairReady
      <4> QED BY <4>1, <1>0, <3>1, Reaches
    <3>3. UNCHANGED <<file, created, flaws, machine, edge>>
      BY <1>6 DEF Diagnose, EnsureKey
    <3>4. flaws' \subseteq Nat \X Flaws
      BY <1>0, <3>3 DEF TypeOK
    <3> QED BY <3>1, <3>2, <3>3, <3>4 DEF Advances, Kinds, machine, edge, DoctorPassed, KeypairReady,
              TokenClaimed, NetworkConfigured, ReposCloned, MCPConfigured, DevStackReady
  <2> QED BY <2>1, <2>2
<1>7. ASSUME NEW k \in Credentials, Claim(k)
      PROVE  Claims
  <2>1. At(TokenClaimed) /\ run.phase = "step"
    BY <1>7 DEF Claim, At
  <2>2. \/ k = account /\ UNCHANGED edge
        \/ account = None /\ account' = k /\ spent' = spent \union {k} /\ UNCHANGED lost
    BY <1>7 DEF Claim
  <2>3. \/ Stopped
        \/ /\ Like(run'.sess, run.sess, TokenClaimed, k, run.sess.repos)
           /\ Continues("save", run.todo)
    BY <1>0, <1>7, <2>1, Exits, ReachesClaimed DEF Claim
  <2>4. UNCHANGED <<file, created, flaws, machine>>
    BY <1>7 DEF Claim
  <2> QED BY <2>1, <2>2, <2>3, <2>4 DEF Claims
<1>8. CASE ConfigureNetwork \/ CloneEnds \/ ConfigureMCP \/ StartStack
  <2> DEFINE stage == IF run.step = DevStackReady THEN Completed ELSE run.step
  <2> USE DEF DoctorPassed, KeypairReady, TokenClaimed, NetworkConfigured,
              ReposCloned, MCPConfigured, DevStackReady, Completed
  <2>1. /\ At(run.step) /\ run.step \in 4 .. 7 /\ Reach(run.sess, stage)
        /\ run.step = ReposCloned => run.todo = {}
    BY <1>8 DEF ConfigureNetwork, CloneEnds, ConfigureMCP, StartStack, At
  <2>2. /\ Like(run'.sess, run.sess, stage, run.sess.cred, run.sess.repos)
        /\ Continues("save", run.todo)
    <3>1. run.phase = "step" /\ stage \in Stages
      BY <2>1 DEF At, Stages, Init0
    <3> HIDE DEF stage
    <3> QED BY <3>1, <1>0, <2>1, Reaches
  <2>3. /\ wg' \in {wg, run.sess.cred} /\ mcp' \in {mcp, run.sess.cred}
        /\ wg' # wg => run.step = NetworkConfigured
        /\ mcp' # mcp => run.step = MCPConfigured
        /\ run.step = NetworkConfigured => wg' = run.sess.cred \/ <<run.sess.id, "wg">> \in flaws'
        /\ run.step = MCPConfigured => mcp' = run.sess.cred \/ <<run.sess.id, "mcp">> \in flaws'
        /\ flaws \subseteq flaws'
    BY <1>8 DEF ConfigureNetwork, CloneEnds, ConfigureMCP, StartStack, At, machine
  <2>4. flaws' \subseteq flaws \union {<<run.sess.id, "wg">>, <<run.sess.id, "mcp">>}
    BY <1>8 DEF ConfigureNetwork, CloneEnds, ConfigureMCP, StartStack
  <2>5. flaws' \subseteq Nat \X Flaws
    <3>1. run.sess.id \in Nat
      BY <1>0, <2>1, RunIsTyped DEF At, Session
    <3>2. flaws \subseteq Nat \X Flaws
      BY <1>0 DEF TypeOK
    <3> QED BY <2>4, <3>1, <3>2 DEF Flaws
  <2>6. UNCHANGED <<file, created, present, cloner, edge>>
    BY <1>8 DEF ConfigureNetwork, CloneEnds, ConfigureMCP, StartStack, machine
  <2> QED BY <2>1, <2>2, <2>3, <2>5, <2>6 DEF Advances, Kinds
<1>9. ASSUME NEW r \in Targets, CloneTarget(r)
      PROVE  Clones
  <2> DEFINE s == [run.sess EXCEPT !.repos = @ \union {r}]
  <2>1. At(ReposCloned) /\ run.sess \in Session
    BY <1>0, <1>9, RunIsTyped DEF CloneTarget, CloneStep, At
  <2>2. run.sess.repos \union {r} \in SUBSET Targets /\ run.todo \ {r} \in SUBSET Targets
    BY <1>0, <2>1 DEF Session, TypeOK
  <2>3. /\ s \in Session
        /\ Like(s, run.sess, run.sess.stage, run.sess.cred, run.sess.repos \union {r})
    BY <2>1, <2>2, SessionRepos
  <2>4. s \in MaybeSession
    BY <2>3 DEF MaybeSession
  <2>5. run' = [run EXCEPT !.todo = @ \ {r}, !.sess = s]
    BY <1>0, <1>9 DEF CloneTarget, Record, RunSet, Phases
  <2> HIDE DEF s
  <2>6. Becomes("step", s, run.step, run.todo \ {r})
    <3>1. run' \in Runs /\ Fields(run', run.phase, s, run.step, run.todo \ {r})
      BY <1>0, <2>2, <2>4, <2>5, RunTodoSess DEF Runs
    <3>2. run.phase = "step"
      BY <2>1 DEF At
    <3> QED BY <3>1, <3>2 DEF Becomes
  <2>7. run'.sess = s
    BY <2>6 DEF Becomes, Fields
  <2> QED BY <1>9, <2>1, <2>3, <2>6, <2>7 DEF CloneTarget, Clones, Continues
<1>10. ASSUME NEW r \in Targets, CloneFails(r)
       PROVE  PassesOver
  <2>1. At(ReposCloned) /\ run.phase = "step" /\ r \in Targets \ present
        /\ run' = [run EXCEPT !.todo = @ \ {r}]
    BY <1>10 DEF CloneFails, CloneStep, At
  <2>2. run.todo \ {r} \in SUBSET Targets
    BY <1>0 DEF TypeOK
  <2>3. Becomes("step", run.sess, run.step, run.todo \ {r})
    BY <1>0, <2>1, <2>2, RunTodo DEF Becomes, Runs, Fields
  <2> QED BY <1>10, <2>1, <2>3 DEF CloneFails, PassesOver
<1>11. CASE Save
  <2>1. CASE UNCHANGED file /\ Exit
    BY <1>11, <2>1, Exits DEF Save, Stops, Kinds
  <2>2. CASE ~(UNCHANGED file /\ Exit)
    <3>1. run.phase = "save" /\ file' = run.sess
          /\ run' = [run EXCEPT !.phase = "step", !.step = @ + 1]
      BY <1>11, <2>2 DEF Save
    <3>2. run.step + 1 \in DoctorPassed .. Completed
      BY <1>0, <3>1, StepsOn DEF StepOK
    <3>3. Becomes("step", run.sess, run.step + 1, run.todo)
      <4>1. run' \in Runs /\ Fields(run', "step", run.sess, run.step + 1, run.todo)
        BY <1>0, <3>1, <3>2, RunPhaseStep DEF Runs, Phases
      <4> QED BY <4>1 DEF Becomes
    <3> QED BY <1>11, <3>1, <3>3 DEF Save, Saves, Kinds
  <2> QED BY <2>1, <2>2
<1>12. CASE Rollback
  <2>1. file \in MaybeSession
    BY <1>0 DEF TypeOK, MaybeSession
  <2>2. PICK x \in RunSet(MaybeSession) : x = NoRun /\ Fields(x, "off", None, DoctorPassed, {})
    BY NoRunIsARun
  <2>3. Becomes("rollback", file, DoctorPassed, {})
    <3>1. run' = [x EXCEPT !.phase = "rollback", !.sess = file]
      BY <1>12, <2>2 DEF Rollback
    <3>2. run' \in Runs /\ Fields(run', "rollback", file, x.step, x.todo)
      BY <2>1, <3>1, RunPhaseSess DEF Runs, Phases
    <3> QED BY <2>2, <3>2 DEF Becomes, Fields
  <2> QED BY <1>12, <2>3 DEF Rollback, RollsBack, Kinds
<1>13. ASSUME NEW r \in Targets, RemoveRepo(r)
       PROVE  Reverts
  <2> DEFINE s == [run.sess EXCEPT !.repos = @ \ {r}]
  <2>1. run.phase = "rollback" /\ run.sess \in Session
    BY <1>0, <1>13, RunIsTyped DEF RemoveRepo
  <2>2. run.sess.repos \ {r} \in SUBSET Targets
    BY <2>1 DEF Session
  <2>3. s \in Session /\ s.id = run.sess.id
    BY <2>1, <2>2, SessionRepos DEF Like
  <2>4. s \in MaybeSession
    BY <2>3 DEF MaybeSession
  <2>5. run' = [run EXCEPT !.sess = s]
    BY <1>0, <1>13 DEF RemoveRepo, RunSet, Phases
  <2> HIDE DEF s
  <2>6. Becomes("rollback", s, run.step, run.todo)
    BY <1>0, <2>1, <2>4, <2>5, RunSess DEF Becomes, Runs, Fields
  <2>7. run'.sess = s
    BY <2>6 DEF Becomes, Fields
  <2> QED BY <1>13, <2>1, <2>3, <2>6, <2>7 DEF RemoveRepo, Reverts, RollingBack, Continues
<1>14. CASE RemoveProfile \/ RemoveMCPEnv
  <2>1. PICK p \in {"rollback mcp", "rollback clear"} : run' = [run EXCEPT !.phase = p]
    BY <1>14 DEF RemoveProfile, RemoveMCPEnv
  <2>2. Becomes(p, run.sess, run.step, run.todo) /\ RollingBack /\ run.sess \in Session
    BY <1>0, <1>14, <2>1, RunIsTyped, RunPhase
       DEF Becomes, Runs, Phases, RemoveProfile, RemoveMCPEnv, RollingBack
  <2>3. run'.sess = run.sess /\ Continues(p, run.todo)
    BY <2>2 DEF Becomes, Fields, Continues
  <2> QED BY <1>14, <2>1, <2>2, <2>3 DEF RemoveProfile, RemoveMCPEnv, Reverts, Kinds
<1>15. CASE RollbackEnds
  BY <1>15, Exits DEF RollbackEnds, Clears, RollingBack, Kinds
<1> QED BY <1>1, <1>2, <1>3, <1>4, <1>5, <1>6, <1>7, <1>8, <1>9, <1>10, <1>11,
           <1>12, <1>13, <1>14, <1>15 DEF Next, Steps, Kinds

-----------------------------------------------------------------------------
(* What each kind keeps. *)

(* The types that arithmetic and comparisons need. *)
SessionsTyped ==
  /\ file # None => file \in Session
  /\ run.sess # None => run.sess \in Session
  /\ run.step \in 1 .. 8
  /\ created \in Nat
  /\ cloner \in [Targets -> Nat]
  /\ {account, wg, mcp} \subseteq Credentials \union {None}
  /\ present \subseteq Targets
  /\ None \notin Session

LEMMA StateIsTyped ==
  ASSUME IInv
  PROVE  SessionsTyped
<1>1. TypeOK /\ StepOK /\ None \notin Session
  BY NoneAssumption DEF IInv
<1>2. run.step \in 1 .. 8
  <2>1. run.step \in DoctorPassed .. Completed
    BY <1>1, RunIsTyped DEF RunSet
  <2> QED BY <2>1 DEF DoctorPassed, Completed
<1>3. run.sess # None => run.sess \in Session
  BY <1>1, RunIsTyped DEF RunSet, MaybeSession
<1>4. /\ file # None => file \in Session
      /\ created \in Nat /\ cloner \in [Targets -> Nat]
      /\ {account, wg, mcp} \subseteq Credentials \union {None}
      /\ present \subseteq Targets
  BY <1>1 DEF TypeOK
<1> QED BY <1>1, <1>2, <1>3, <1>4 DEF SessionsTyped

LEMMA SessionIsTyped ==
  ASSUME NEW s \in Session
  PROVE  s.stage \in 0 .. 8 /\ s.id \in Nat /\ s.cred \in Credentials \union {None} /\ s.repos \subseteq Targets
BY DEF Session, Stages, Init0, Completed

(* Steps are taken in order, and a stage is reached by its step. *)
LEMMA KeepsStepOK ==
  ASSUME IInv, [Next]_vars
  PROVE  StepOK'
<1>1. Kinds
  BY EveryStepIsAKind
<1>2. StepOK /\ SessionsTyped
  BY StateIsTyped DEF IInv
<1> USE <1>2, SessionIsTyped DEF StepOK, SessionsTyped,
        Becomes, Continues, Fields, Stopped, Like, Running, RollingBack, machine, edge,
        At, Off, IsStageCompleted, Init0, DoctorPassed, KeypairReady, TokenClaimed,
        NetworkConfigured, ReposCloned, MCPConfigured, DevStackReady, Completed
<1>3. CASE Stops
  BY <1>3 DEF Stops
<1>4. CASE Opens
  BY <1>4 DEF Opens
<1>5. CASE Resumes
  BY <1>5 DEF Resumes
<1>6. CASE Creates
  BY <1>6 DEF Creates
<1>7. CASE Skips
  BY <1>7 DEF Skips
<1>8. CASE Advances
  BY <1>8 DEF Advances
<1>9. CASE Claims
  BY <1>9 DEF Claims
<1>10. CASE Clones
  BY <1>10 DEF Clones
<1>11. CASE PassesOver
  BY <1>11 DEF PassesOver
<1>12. CASE Saves
  BY <1>12 DEF Saves
<1>13. CASE Reset
  BY <1>13 DEF Reset
<1>14. CASE RollsBack
  BY <1>14 DEF RollsBack
<1>15. CASE Reverts
  BY <1>15 DEF Reverts
<1>16. CASE Clears
  BY <1>16 DEF Clears
<1>17. CASE EdgeRestarts
  BY <1>17 DEF EdgeRestarts
<1>18. CASE UNCHANGED vars
  BY <1>18 DEF vars
<1> QED BY <1>1, <1>3, <1>4, <1>5, <1>6, <1>7, <1>8, <1>9, <1>10, <1>11,
           <1>12, <1>13, <1>14, <1>15, <1>16, <1>17, <1>18 DEF Kinds

(* A new session has a new number, a claimed one a credential. *)
LEMMA KeepsNumberOK ==
  ASSUME IInv, [Next]_vars
  PROVE  NumberOK'
<1>1. Kinds
  BY EveryStepIsAKind
<1>2. StepOK /\ NumberOK /\ FollowsOK /\ SessionsTyped
  BY StateIsTyped DEF IInv
<1> USE <1>2, SessionIsTyped DEF StepOK, NumberOK, FollowsOK, SessionsTyped,
        Becomes, Continues, Fields, Stopped, Like, Running, RollingBack, machine, edge,
        At, Off, IsStageCompleted, Init0, DoctorPassed, KeypairReady, TokenClaimed,
        NetworkConfigured, ReposCloned, MCPConfigured, DevStackReady, Completed
<1>3. CASE Stops
  BY <1>3 DEF Stops
<1>4. CASE Opens
  BY <1>4 DEF Opens
<1>5. CASE Resumes
  BY <1>5 DEF Resumes
<1>6. CASE Creates
  BY <1>6 DEF Creates
<1>7. CASE Skips
  BY <1>7 DEF Skips
<1>8. CASE Advances
  BY <1>8 DEF Advances
<1>9. CASE Claims
  BY <1>9, SessionAssumption DEF Claims
<1>10. CASE Clones
  BY <1>10 DEF Clones
<1>11. CASE PassesOver
  BY <1>11 DEF PassesOver
<1>12. CASE Saves
  BY <1>12 DEF Saves
<1>13. CASE Reset
  BY <1>13 DEF Reset
<1>14. CASE RollsBack
  BY <1>14 DEF RollsBack
<1>15. CASE Reverts
  BY <1>15 DEF Reverts
<1>16. CASE Clears
  BY <1>16 DEF Clears
<1>17. CASE EdgeRestarts
  BY <1>17 DEF EdgeRestarts
<1>18. CASE UNCHANGED vars
  BY <1>18 DEF vars
<1> QED BY <1>1, <1>3, <1>4, <1>5, <1>6, <1>7, <1>8, <1>9, <1>10, <1>11,
           <1>12, <1>13, <1>14, <1>15, <1>16, <1>17, <1>18 DEF Kinds

(* The file follows the session that runs. *)
LEMMA KeepsFollowsOK ==
  ASSUME IInv, [Next]_vars
  PROVE  FollowsOK'
<1>1. Kinds
  BY EveryStepIsAKind
<1>2. StepOK /\ NumberOK /\ FollowsOK /\ SessionsTyped
  BY StateIsTyped DEF IInv
<1> USE <1>2, SessionIsTyped DEF StepOK, NumberOK, FollowsOK, SessionsTyped, SavedStage,
        Becomes, Continues, Fields, Stopped, Like, Running, RollingBack, machine, edge,
        At, Off, IsStageCompleted, Init0, DoctorPassed, KeypairReady, TokenClaimed,
        NetworkConfigured, ReposCloned, MCPConfigured, DevStackReady, Completed
<1>3. CASE Stops
  BY <1>3 DEF Stops
<1>4. CASE Opens
  BY <1>4 DEF Opens
<1>5. CASE Resumes
  BY <1>5 DEF Resumes
<1>6. CASE Creates
  BY <1>6 DEF Creates
<1>7. CASE Skips
  BY <1>7 DEF Skips
<1>8. CASE Advances
  BY <1>8 DEF Advances
<1>9. CASE Claims
  <2>1. CASE Stopped
    BY <1>9, <2>1 DEF Claims
  <2>2. CASE ~Stopped
    <3>1. /\ run.sess \in Session /\ run.sess.stage = 2 /\ run.step = 3
          /\ run.phase = "step" /\ UNCHANGED file
      BY <1>9 DEF Claims
    <3>2. /\ run'.phase = "save" /\ run'.step = 3 /\ run'.sess.id = run.sess.id
      BY <1>9, <2>2, <3>1 DEF Claims
    <3> QED BY <3>1, <3>2
  <2> QED BY <2>1, <2>2
<1>10. CASE Clones
  BY <1>10 DEF Clones
<1>11. CASE PassesOver
  BY <1>11 DEF PassesOver
<1>12. CASE Saves
  BY <1>12 DEF Saves
<1>13. CASE Reset
  BY <1>13 DEF Reset
<1>14. CASE RollsBack
  BY <1>14 DEF RollsBack
<1>15. CASE Reverts
  BY <1>15 DEF Reverts
<1>16. CASE Clears
  BY <1>16 DEF Clears
<1>17. CASE EdgeRestarts
  BY <1>17 DEF EdgeRestarts
<1>18. CASE UNCHANGED vars
  BY <1>18 DEF vars
<1> QED BY <1>1, <1>3, <1>4, <1>5, <1>6, <1>7, <1>8, <1>9, <1>10, <1>11,
           <1>12, <1>13, <1>14, <1>15, <1>16, <1>17, <1>18 DEF Kinds

(* An account is made only where there is none. *)
LEMMA KeepsCredentialsOK ==
  ASSUME IInv, [Next]_vars
  PROVE  CredentialsOK'
<1>1. Kinds
  BY EveryStepIsAKind
<1>2. StepOK /\ FollowsOK /\ CredentialsOK /\ SessionsTyped
  BY StateIsTyped DEF IInv
<1> USE <1>2, SessionIsTyped DEF StepOK, FollowsOK, CredentialsOK, SessionsTyped, Current,
        Becomes, Continues, Fields, Stopped, Like, Running, RollingBack, machine, edge,
        At, Off, IsStageCompleted, Init0, DoctorPassed, KeypairReady, TokenClaimed,
        NetworkConfigured, ReposCloned, MCPConfigured, DevStackReady, Completed
<1>3. CASE Stops
  BY <1>3 DEF Stops
<1>4. CASE Opens
  BY <1>4 DEF Opens
<1>5. CASE Resumes
  BY <1>5 DEF Resumes
<1>6. CASE Creates
  BY <1>6 DEF Creates
<1>7. CASE Skips
  BY <1>7 DEF Skips
<1>8. CASE Advances
  BY <1>8 DEF Advances
<1>9. CASE Claims
  BY <1>9 DEF Claims
<1>10. CASE Clones
  BY <1>10 DEF Clones
<1>11. CASE PassesOver
  BY <1>11 DEF PassesOver
<1>12. CASE Saves
  BY <1>12 DEF Saves
<1>13. CASE Reset
  BY <1>13 DEF Reset
<1>14. CASE RollsBack
  BY <1>14 DEF RollsBack
<1>15. CASE Reverts
  BY <1>15 DEF Reverts
<1>16. CASE Clears
  BY <1>16 DEF Clears
<1>17. CASE EdgeRestarts
  BY <1>17 DEF EdgeRestarts
<1>18. CASE UNCHANGED vars
  BY <1>18 DEF vars
<1> QED BY <1>1, <1>3, <1>4, <1>5, <1>6, <1>7, <1>8, <1>9, <1>10, <1>11,
           <1>12, <1>13, <1>14, <1>15, <1>16, <1>17, <1>18 DEF Kinds

(* A worker takes what is to do and records what it finds or clones. *)
LEMMA KeepsClonesOK ==
  ASSUME IInv, [Next]_vars
  PROVE  ClonesOK'
<1>1. Kinds
  BY EveryStepIsAKind
<1>2. StepOK /\ NumberOK /\ FollowsOK /\ ClonesOK /\ SessionsTyped
  BY StateIsTyped DEF IInv
<1> USE <1>2, SessionIsTyped DEF StepOK, NumberOK, FollowsOK, ClonesOK, SessionsTyped, SavedStage, RollbackFindsClones,
        Becomes, Continues, Fields, Stopped, Like, Running, RollingBack, machine, edge,
        At, Off, IsStageCompleted, Init0, DoctorPassed, KeypairReady, TokenClaimed,
        NetworkConfigured, ReposCloned, MCPConfigured, DevStackReady, Completed
<1>3. CASE Stops
  BY <1>3 DEF Stops
<1>4. CASE Opens
  BY <1>4 DEF Opens
<1>5. CASE Resumes
  BY <1>5 DEF Resumes
<1>6. CASE Creates
  BY <1>6 DEF Creates
<1>7. CASE Skips
  BY <1>7 DEF Skips
<1>8. CASE Advances
  BY <1>8 DEF Advances
<1>9. CASE Claims
  BY <1>9 DEF Claims
<1>10. CASE Clones
  BY <1>10 DEF Clones
<1>11. CASE PassesOver
  BY <1>11 DEF PassesOver
<1>12. CASE Saves
  BY <1>12 DEF Saves
<1>13. CASE Reset
  BY <1>13 DEF Reset
<1>14. CASE RollsBack
  BY <1>14 DEF RollsBack
<1>15. CASE Reverts
  BY <1>15 DEF Reverts
<1>16. CASE Clears
  BY <1>16 DEF Clears
<1>17. CASE EdgeRestarts
  BY <1>17 DEF EdgeRestarts
<1>18. CASE UNCHANGED vars
  BY <1>18 DEF vars
<1> QED BY <1>1, <1>3, <1>4, <1>5, <1>6, <1>7, <1>8, <1>9, <1>10, <1>11,
           <1>12, <1>13, <1>14, <1>15, <1>16, <1>17, <1>18 DEF Kinds

(* A profile is written at its stage, or the session has a flaw. *)
LEMMA KeepsProfilesOK ==
  ASSUME IInv, [Next]_vars
  PROVE  ProfilesOK'
<1>1. Kinds
  BY EveryStepIsAKind
<1>2. StepOK /\ NumberOK /\ FollowsOK /\ ProfilesOK /\ SessionsTyped
  BY StateIsTyped DEF IInv
<1> USE <1>2, SessionIsTyped DEF StepOK, NumberOK, FollowsOK, ProfilesOK, SessionsTyped, SavedStage, ProfilesOf, Flawed, Flaws,
        Becomes, Continues, Fields, Stopped, Like, Running, RollingBack, machine, edge,
        At, Off, IsStageCompleted, Init0, DoctorPassed, KeypairReady, TokenClaimed,
        NetworkConfigured, ReposCloned, MCPConfigured, DevStackReady, Completed
<1>3. CASE Stops
  BY <1>3 DEF Stops
<1>4. CASE Opens
  BY <1>4 DEF Opens
<1>5. CASE Resumes
  BY <1>5 DEF Resumes
<1>6. CASE Creates
  BY <1>6 DEF Creates
<1>7. CASE Skips
  BY <1>7 DEF Skips
<1>8. CASE Advances
  BY <1>8 DEF Advances
<1>9. CASE Claims
  BY <1>9 DEF Claims
<1>10. CASE Clones
  BY <1>10 DEF Clones
<1>11. CASE PassesOver
  BY <1>11 DEF PassesOver
<1>12. CASE Saves
  BY <1>12 DEF Saves
<1>13. CASE Reset
  BY <1>13 DEF Reset
<1>14. CASE RollsBack
  BY <1>14 DEF RollsBack
<1>15. CASE Reverts
  BY <1>15 DEF Reverts
<1>16. CASE Clears
  BY <1>16 DEF Clears
<1>17. CASE EdgeRestarts
  BY <1>17 DEF EdgeRestarts
<1>18. CASE UNCHANGED vars
  BY <1>18 DEF vars
<1> QED BY <1>1, <1>3, <1>4, <1>5, <1>6, <1>7, <1>8, <1>9, <1>10, <1>11,
           <1>12, <1>13, <1>14, <1>15, <1>16, <1>17, <1>18 DEF Kinds

LEMMA KeepsTypeOK ==
  ASSUME IInv, [Next]_vars
  PROVE  TypeOK'
<1>1. Kinds
  BY EveryStepIsAKind
<1>2. TypeOK /\ StepOK /\ SessionsTyped /\ run \in Runs
  BY StateIsTyped, RunIsTyped DEF IInv, Runs
<1>3. run' \in Runs
  BY <1>1, <1>2 DEF Kinds, Stops, Opens, Resumes, Creates, Skips, Advances, Claims, Clones,
     PassesOver, Saves, Reset, RollsBack, Reverts, Clears, EdgeRestarts, vars, Stopped, Continues, Becomes, machine
<1>4. file' \in Session \union {None}
  <2>1. run.phase = "save" => run.sess \in Session
    BY <1>2 DEF StepOK, SessionsTyped
  <2>2. file \in Session \union {None}
    BY <1>2 DEF SessionsTyped
  <2> QED BY <1>1, <2>1, <2>2 DEF Kinds, Stops, Opens, Resumes, Creates, Skips, Advances, Claims,
     Clones, PassesOver, Saves, Reset, RollsBack, Reverts, Clears, EdgeRestarts, vars, Continues
<1>5. present' \subseteq Targets /\ {wg, mcp}' \subseteq Credentials \union {None}
  <2>1. present \subseteq Targets /\ {wg, mcp} \subseteq Credentials \union {None}
    BY <1>2 DEF SessionsTyped
  <2>2. CASE Advances
    <3>1. run.sess.cred \in Credentials \union {None}
      BY <1>2, <2>2, SessionIsTyped DEF Advances, At, StepOK, SessionsTyped
    <3> QED BY <2>1, <2>2, <3>1 DEF Advances
  <2>3. CASE ~Advances
    BY <1>1, <2>1, <2>3 DEF Kinds, Stops, Opens, Resumes, Creates, Skips, Claims,
       Clones, PassesOver, Saves, Reset, RollsBack, Reverts, Clears, EdgeRestarts, vars, machine
  <2> QED BY <2>2, <2>3
<1>6. /\ account' \in Credentials \union {None}
      /\ spent' \subseteq Credentials /\ lost' \subseteq spent'
  <2>1. /\ account # None => account \in spent
        /\ account \in Credentials \union {None}
        /\ spent \subseteq Credentials /\ lost \subseteq spent
    BY <1>2 DEF IInv, CredentialsOK, SessionsTyped, TypeOK
  <2> QED BY <1>1, <2>1 DEF Kinds, Stops, Opens, Resumes, Creates, Skips, Advances, Claims,
     Clones, PassesOver, Saves, Reset, RollsBack, Reverts, Clears, EdgeRestarts, vars, edge
<1>7. created' \in Nat /\ cloner' \in [Targets -> Nat] /\ flaws' \subseteq Nat \X Flaws
  <2>1. At(run.step) => run.sess.id \in Nat
    BY <1>2, SessionIsTyped DEF At, StepOK, SessionsTyped
  <2>2. file # None => file.id \in Nat
    BY <1>2, SessionIsTyped DEF SessionsTyped
  <2>3. created \in Nat /\ cloner \in [Targets -> Nat] /\ flaws \subseteq Nat \X Flaws
    BY <1>2 DEF TypeOK
  <2>4. CASE Clones
    <3>1. run.sess.id \in Nat
      BY <1>2, <2>4, SessionIsTyped DEF Clones, At, StepOK, SessionsTyped
    <3>2. PICK r \in Targets :
            cloner' = [cloner EXCEPT ![r] = IF r \in present THEN @ ELSE run.sess.id]
      BY <2>4 DEF Clones
    <3>3. cloner' \in [Targets -> Nat]
      BY <2>3, <3>1, <3>2
    <3> QED BY <2>3, <2>4, <3>3 DEF Clones
  <2>5. CASE RollsBack
    <3>1. <<file.id, "rollback">> \in Nat \X Flaws
      BY <2>2, <2>5 DEF RollsBack, Flaws
    <3> QED BY <2>3, <2>5, <3>1 DEF RollsBack, machine
  <2>6. CASE ~Clones /\ ~RollsBack
    <3>1. CASE Creates
      BY <2>3, <3>1 DEF Creates, machine
    <3>2. CASE Advances
      BY <2>3, <3>2 DEF Advances
    <3>3. CASE ~Creates /\ ~Advances
      <4>1. UNCHANGED <<created, cloner, flaws>>
        BY <1>1, <2>6, <3>3 DEF Kinds, Stops, Opens, Resumes, Skips, Claims,
           PassesOver, Saves, Reset, Reverts, Clears, EdgeRestarts, vars, machine
      <4> QED BY <2>3, <4>1
    <3> QED BY <3>1, <3>2, <3>3
  <2> QED BY <2>4, <2>5, <2>6
<1>8. run' \in [ phase : {"off", "create", "step", "save", "rollback",
                        "rollback mcp", "rollback clear"},
               sess  : Session \union {None},
               step  : DoctorPassed .. Completed,
               token : BOOLEAN,
               dry   : BOOLEAN,
               todo  : SUBSET Targets ]
  BY <1>3 DEF Runs, RunSet, Phases, MaybeSession
<1> QED BY <1>4, <1>5, <1>6, <1>7, <1>8 DEF TypeOK

-----------------------------------------------------------------------------
LEMMA InitEstablishesIInv == Init => IInv
<1> SUFFICES ASSUME Init PROVE IInv
  OBVIOUS
<1>1. run \in RunSet(MaybeSession) /\ Fields(run, "off", None, DoctorPassed, {})
  BY NoRunIsARun DEF Init
<1>2. TypeOK
  <2>1. run \in [ phase : {"off", "create", "step", "save", "rollback",
                        "rollback mcp", "rollback clear"},
               sess  : Session \union {None},
               step  : DoctorPassed .. Completed,
               token : BOOLEAN,
               dry   : BOOLEAN,
               todo  : SUBSET Targets ]
    BY <1>1 DEF RunSet, Phases, MaybeSession
  <2> QED BY <2>1 DEF Init, TypeOK
<1>3. StepOK /\ FollowsOK /\ ClonesOK /\ ProfilesOK
  BY <1>1 DEF Init, Fields, StepOK, FollowsOK, Running, RollingBack, ClonesOK,
     RollbackFindsClones, ProfilesOK
<1>4. NumberOK /\ CredentialsOK
  BY <1>1 DEF Init, Fields, NumberOK, CredentialsOK, Running, Current
<1> QED BY <1>2, <1>3, <1>4 DEF IInv

LEMMA NextKeepsIInv == IInv /\ [Next]_vars => IInv'
BY KeepsTypeOK, KeepsStepOK, KeepsNumberOK, KeepsFollowsOK, KeepsCredentialsOK,
   KeepsClonesOK, KeepsProfilesOK DEF IInv

(* The invariant all results below rest on. *)
THEOREM Invariance == Spec => []IInv
<1>1. Init => IInv
  BY InitEstablishesIInv
<1>2. IInv /\ [Next]_vars => IInv'
  BY NextKeepsIInv
<1> QED BY <1>1, <1>2, PTL DEF Spec

(* Checkpoint, run, machine and edge keep their types, for any manifest    *)
(* and any number of invocations.                                          *)
THEOREM TypeCorrect == Spec => []TypeOK
<1>1. IInv => TypeOK
  BY DEF IInv
<1> QED BY <1>1, Invariance, PTL

(* However runs of service.go are killed, resumed and discarded, no        *)
(* profile and no checkpoint holds a credential that is not the edge's,    *)
(* unless a restart of the edge wiped it.                                  *)
THEOREM CredentialIsCurrentHolds == Spec => []CredentialIsCurrent
<1>1. IInv => CredentialIsCurrent
  BY DEF IInv, CredentialsOK, CredentialIsCurrent, Current
<1> QED BY <1>1, Invariance, PTL

(* Behind the workspace stage the checkpoint of service.go lists every     *)
(* repository that a run of its session cloned.                            *)
THEOREM RollbackFindsClonesHolds == Spec => []RollbackFindsClones
<1>1. IInv => RollbackFindsClones
  BY DEF IInv, ClonesOK
<1> QED BY <1>1, Invariance, PTL

(* No run of a session whose checkpoint says that the token was claimed    *)
(* (service.go) sends a claim again.                                       *)
THEOREM NeverClaimsAgainHolds == Spec => NeverClaimsAgain
<1>1. IInv =>
        ((At(TokenClaimed) /\ run' # run /\ file # None /\ file.id = run.sess.id)
           => file.stage < TokenClaimed)
  <2> SUFFICES ASSUME IInv, At(TokenClaimed), file # None, file.id = run.sess.id
               PROVE  file.stage < TokenClaimed
    OBVIOUS
  <2>1. file.stage = run.sess.stage
    BY DEF IInv, FollowsOK, Running, SavedStage, At
  <2>2. run.sess.stage \in 0 .. 8
    BY StateIsTyped, SessionIsTyped DEF IInv, StepOK, SessionsTyped, At
  <2> QED BY <2>1, <2>2 DEF At, IsStageCompleted, TokenClaimed
<1> QED BY <1>1, Invariance, PTL DEF NeverClaimsAgain

(* A checkpoint that says completed finds both profiles with the           *)
(* credential it holds, unless a write failed unnoticed or a rollback of   *)
(* the session was cut short (service.go).                                 *)
THEOREM CompletesTogetherHolds == Spec => CompletesTogether
<1>1. IInv /\ [Next]_vars =>
        ((file' # file /\ file' # None /\ file'.stage = Completed /\ ~Flawed(file'))
           => wg = file'.cred /\ mcp = file'.cred /\ file'.cred # None)
  <2> SUFFICES ASSUME IInv, [Next]_vars, file' # file, file' # None,
                      file'.stage = Completed, ~Flawed(file')
               PROVE  wg = file'.cred /\ mcp = file'.cred /\ file'.cred # None
    OBVIOUS
  <2>1. Kinds
    BY EveryStepIsAKind
  <2>2. Saves
    <3>1. ~Creates
      BY DEF Creates, Init0, Completed
    <3> QED BY <2>1, <3>1 DEF Kinds, Stops, Opens, Resumes, Skips, Advances, Claims, Clones,
       PassesOver, Saves, Reset, RollsBack, Reverts, Clears, EdgeRestarts, vars
  <2>3. file' = run.sess /\ Running
    BY <2>2 DEF Saves, Running
  <2>4. ~Flawed(run.sess) /\ run.sess.stage = Completed
    BY <2>3
  <2>5. ProfilesOf(run.sess) /\ run.sess.cred # None
    BY <2>3, <2>4 DEF IInv, ProfilesOK, NumberOK, TokenClaimed, Completed
  <2> QED BY <2>3, <2>4, <2>5 DEF ProfilesOf, NetworkConfigured, MCPConfigured, Completed
<1> QED BY <1>1, Invariance, PTL DEF Spec, CompletesTogether
=============================================================================
