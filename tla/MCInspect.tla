----------------------------- MODULE MCInspect -----------------------------
(***************************************************************************)
(* Small instances for TLC of what answers about a changing world: the    *)
(* grants of an administrator, the audit of a workspace, the doctor of a   *)
(* machine, and the commands that set up and check the files of a          *)
(* workspace.  They do not interact.  One of them runs, chosen at the      *)
(* start; the others stay in one initial state.                            *)
(***************************************************************************)
EXTENDS AdminGrants, Sequences, FiniteSets
LOCAL INSTANCE TLC

CONSTANTS
  AuditRepos, Shared, RuleSets, AuditChanges,         \* of Audit
  Runs, DoctorChanges,                                \* of Doctor
  Terminals, Dirs, Scope, Handbook, Links, MaxEdits   \* of Bootstrap

Switches == [fix : BOOLEAN, remote : BOOLEAN, accept : BOOLEAN, json : BOOLEAN]

ASSUME InspectAssumption ==
  /\ Shared \notin AuditRepos
  /\ AuditChanges \in Nat
  /\ Runs \subseteq Switches
  /\ DoctorChanges \in Nat
  /\ "" \notin Terminals
  /\ IsFiniteSet(Dirs) /\ IsFiniteSet(Scope) /\ IsFiniteSet(Links)
  /\ Handbook \in Scope
  /\ MaxEdits \in Nat

VARIABLES
  part,
  tree, world, rules, audit, page, report, auditSteady, auditEver, auditChanges,
  machine, visit, steady, ever, seen, changes,
  item, private, contract, cloned, hooksDir, setup, edits

auditVars == <<tree, world, rules, audit, page, report, auditSteady, auditEver,
               auditChanges>>
doctorVars == <<machine, visit, steady, ever, seen, changes>>
bootVars == <<item, private, contract, cloned, hooksDir, setup, edits>>

Aud == INSTANCE Audit WITH
         Repos <- AuditRepos, MaxChanges <- AuditChanges, job <- audit,
         steady <- auditSteady, ever <- auditEver, changes <- auditChanges

Doc == INSTANCE Doctor WITH MaxChanges <- DoctorChanges, job <- visit

Boot == INSTANCE Bootstrap WITH Repos <- Scope, job <- setup

-----------------------------------------------------------------------------
(* The instances. *)
CONSTANTS alice, bob, t1, t2

MCEmails == {alice, bob}
MCIds == 1..2
MCTTLs == {1, 3}

MCTerminals == {t1, t2}

(* The addresses are interchangeable, and so are the terminals. *)
Swap(x, y) == [z \in {x, y} |-> IF z = x THEN y ELSE x]

MCSymmetry == Permutations(MCEmails) \union Permutations(MCTerminals)

(* The files of rules: an exception, or accepted gaps, which may have      *)
(* expired or match nothing.                                               *)
Entry(c, what, expired) == [check |-> c, what |-> what, expired |-> expired]

MCRules ==
  { [excepted |-> {"versions"}, accepted |-> {}],
    [ excepted |-> {},
      accepted |-> { Entry("versions", "not cloned", FALSE),
                     Entry("deps", "not cloned", TRUE),
                     Entry("agents", "check-all", TRUE),
                     Entry("tests", "manifest", FALSE),
                     Entry("versions", "pins", FALSE),
                     Entry("upstream", "lookup", FALSE) } ] }

Flags(f, r, a, j) == [fix |-> f, remote |-> r, accept |-> a, json |-> j]

MCRuns ==
  { Flags(FALSE, FALSE, FALSE, FALSE), Flags(FALSE, TRUE, FALSE, FALSE),
    Flags(TRUE, FALSE, FALSE, FALSE), Flags(TRUE, TRUE, TRUE, FALSE),
    Flags(TRUE, TRUE, FALSE, TRUE), Flags(TRUE, FALSE, TRUE, FALSE) }

-----------------------------------------------------------------------------
Init4 ==
  /\ part \in {"grants", "audit", "doctor", "bootstrap"}
  /\ Init
  /\ Aud!Init
  /\ part # "audit" =>
       /\ world = Aud!Plain /\ tree = [r \in AuditRepos |-> Aud!Clean]
       /\ rules.accepted = {}
  /\ Doc!Init
  /\ part # "doctor" => ~machine.key
  /\ Boot!Init
  /\ part # "bootstrap" =>
       /\ \A d \in Dirs : contract[d] = "none"
       /\ item[Boot!Mcp] = "ours" /\ private = {Boot!Mcp} /\ cloned = {} /\ hooksDir

Others(p) ==
  /\ UNCHANGED part
  /\ p # "grants" => UNCHANGED vars
  /\ p # "audit" => UNCHANGED auditVars
  /\ p # "doctor" => UNCHANGED doctorVars
  /\ p # "bootstrap" => UNCHANGED bootVars

On(p) == part = p /\ Others(p)

Next4 ==
  \/ On("grants") /\ Next
  \/ On("audit") /\ Aud!Next
  \/ On("doctor") /\ Doc!Next
  \/ On("bootstrap") /\ Boot!Next

InspectSpec == Init4 /\ [][Next4]_<<part, vars, auditVars, doctorVars, bootVars>>

-----------------------------------------------------------------------------
(* The part that runs keeps its types; the others do not move. *)
InspectTypeOK ==
  CASE part = "grants" -> TypeOK
    [] part = "audit" -> Aud!TypeOK
    [] part = "doctor" -> Doc!TypeOK
    [] part = "bootstrap" -> Boot!TypeOK

(* An exit code is evidence about the world while the command ran: of the  *)
(* audit (Audit), of the doctor, whatever its recipes said (Doctor), and   *)
(* of the commands that set up and check a workspace (Bootstrap).          *)
AnswersAreEvidence ==
  /\ Aud!ZeroIsClean
  /\ Aud!OneIsWrong
  /\ Aud!ErrorsAreTold
  /\ Doc!VerdictIsCurrent
  /\ Boot!CheckIsEvidence
  /\ Boot!SuccessIsComplete

(* What is on the machine is not touched without a reason, no recipe       *)
(* breaks what it does not install (Doctor), and who has something in the  *)
(* workspace keeps it (Bootstrap).                                         *)
HandsOff ==
  /\ Doc!TouchedForAReason
  /\ Doc!RecipesDoNoHarm
  /\ Boot!TheirsIsKept

=============================================================================
