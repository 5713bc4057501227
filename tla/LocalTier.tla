----------------------------- MODULE LocalTier -----------------------------
(***************************************************************************)
(* orbit release check --local: the release tier of one repository after   *)
(* the other, each in a throwaway database of the dev Postgres that the    *)
(* env files name (pkg/release/application, infrastructure/localdev and    *)
(* tester).                                                                *)
(*                                                                         *)
(* A server is a member of Servers; every one has the database Dev.  The   *)
(* env files are read again for every call of psql, and somebody may edit  *)
(* them, or a server stop, in between.  A throwaway database is the number *)
(* of its check: the names are random and do not meet.  A call of psql     *)
(* may fail after the server did what it asks.                             *)
(***************************************************************************)
EXTENDS Naturals, Sequences

CONSTANTS
  None, Servers, Dev,
  MaxRepos,         \* bound: repositories the command checks
  MaxEdits          \* bound: edits of the env files and stops of a server

VARIABLES
  conf,       \* the server that the env files name, or None
  databases,  \* [server -> its databases]
  written,    \* [server -> the databases that tests have written to]
  alive,      \* the servers that answer
  check,      \* the command: [at, repo, env, ok, steady, results]
  edits

vars == <<conf, databases, written, alive, check, edits>>

(* env: where the tests are sent, [server, name].  steady: the env files   *)
(* have not changed since this repository's check began.                   *)
Idle ==
  [at |-> "idle", repo |-> 0, env |-> None, ok |-> FALSE, steady |-> TRUE, results |-> <<>>]

Init ==
  /\ conf \in Servers \cup {None}
  /\ databases = [s \in Servers |-> {Dev}]
  /\ written = [s \in Servers |-> {}]
  /\ alive = Servers
  /\ check = Idle
  /\ edits = 0

-----------------------------------------------------------------------------
Becomes(next) ==
  /\ check' = next
  /\ UNCHANGED <<conf, databases, written, alive, edits>>

(* The result of this repository, "pass", "failed" or "unverified"; the    *)
(* command goes on to the next one.                                        *)
Result(result) ==
  [check EXCEPT !.at = "next", !.results = Append(@, result)]

(* Mutant: the URL is copied. *)
EnvCopied(server, name) == [server |-> server, name |-> Dev]

(* Local.Env: the URL of the env files with the name of the database in it *)
(* replaced (ReplaceDatabaseName).                                         *)
Env(server, name) == [server |-> server, name |-> name]

(* Local.settings: an env file of the repository, the workspace or         *)
(* orbit-infra, the default of a schema, or the environment names a        *)
(* server.                                                                 *)
Configured == conf # None

(* checkLocal of the next repository. *)
Begin ==
  /\ check.at \in {"idle", "next"} /\ check.repo < MaxRepos
  /\ LET repo == check.repo + 1
         next == [check EXCEPT !.repo = repo, !.env = None, !.ok = FALSE, !.steady = TRUE]
     IN Becomes(
          IF Configured
          THEN [next EXCEPT !.at = "reach", !.env = Env(conf, repo)]
          ELSE [next EXCEPT !.at = "next", !.results = Append(@, "unverified")])

(* psql against the server that the env files name now. *)
Answers == Configured /\ conf \in alive

Reachable ==
  /\ check.at = "reach"
  /\ \/ Answers /\ Becomes([check EXCEPT !.at = "create"])
     \/ Becomes(Result("unverified"))

Psql(after, onSuccess, onFailure) ==
  /\ \/ /\ Answers
        /\ databases' = [databases EXCEPT ![conf] = after]
        /\ check' \in {onSuccess, onFailure}
     \/ /\ UNCHANGED databases
        /\ check' = onFailure
  /\ UNCHANGED <<conf, written, alive, edits>>

After(add, drop) == IF Configured THEN (databases[conf] \cup add) \ drop ELSE {}

CreateDatabase ==
  /\ check.at = "create"
  /\ Psql(After({check.repo}, {}), [check EXCEPT !.at = "test"], Result("unverified"))

(* The tests write to the database they are sent to, if it is there; they  *)
(* pass only if it is.                                                     *)
Tests ==
  /\ check.at = "test"
  /\ LET there == check.env.server \in alive
                    /\ check.env.name \in databases[check.env.server]
     IN \E ok \in BOOLEAN :
          /\ ok => there
          /\ written' = IF there THEN [written EXCEPT ![check.env.server] = @ \cup {check.env.name}]
                        ELSE written
          /\ check' = [check EXCEPT !.at = "drop", !.ok = ok]
  /\ UNCHANGED <<conf, databases, alive, edits>>

(* Mutant: only what passed is cleaned up, and nothing is said of it. *)
DropQuietly ==
  /\ check.at = "drop"
  /\ Psql(After({}, {check.repo}),
          Result(IF check.ok THEN "pass" ELSE "failed"),
          Result(IF check.ok THEN "pass" ELSE "failed"))

(* The database is dropped whether the tests passed or failed, with a      *)
(* context of its own; a failed drop turns a pass into "unverified".       *)
DropDatabase ==
  /\ check.at = "drop"
  /\ Psql(After({}, {check.repo}),
          Result(IF check.ok THEN "pass" ELSE "failed"),
          Result(IF check.ok THEN "unverified" ELSE "failed"))

Has(result) == \E i \in DOMAIN check.results : check.results[i] = result

(* Mutant: the last repository decides. *)
ExitLast ==
  IF check.results[MaxRepos] = "pass" THEN "ok" ELSE check.results[MaxRepos]

(* Service.Check: a failure weighs more than what could not be verified. *)
Exit == IF Has("failed") THEN "failed" ELSE IF Has("unverified") THEN "unverified" ELSE "ok"

Finish ==
  /\ check.at = "next" /\ check.repo = MaxRepos
  /\ Becomes([check EXCEPT !.at = Exit])

(* Ctrl-C or a crash: orbit handles no signal. *)
Kill ==
  /\ check.at \notin {"idle", "killed", "ok", "failed", "unverified"}
  /\ Becomes([check EXCEPT !.at = "killed"])

-----------------------------------------------------------------------------
EditEnv ==
  /\ edits < MaxEdits /\ edits' = edits + 1
  /\ conf' \in (Servers \cup {None}) \ {conf}
  /\ check' = [check EXCEPT !.steady = FALSE]
  /\ UNCHANGED <<databases, written, alive>>

Stop ==
  /\ edits < MaxEdits /\ edits' = edits + 1
  /\ \E s \in alive : alive' = alive \ {s}
  /\ UNCHANGED <<conf, databases, written, check>>

Next ==
  \/ Begin \/ Reachable \/ CreateDatabase \/ Tests \/ DropDatabase
  \/ Finish \/ Kill
  \/ EditEnv \/ Stop

Spec == Init /\ [][Next]_vars

-----------------------------------------------------------------------------
TypeOK ==
  /\ conf \in Servers \cup {None}
  /\ databases \in [Servers -> SUBSET ({Dev} \cup 1..MaxRepos)]
  /\ written \in [Servers -> SUBSET ({Dev} \cup 1..MaxRepos)]
  /\ alive \subseteq Servers
  /\ check.repo \in 0..MaxRepos
  /\ edits \in 0..MaxEdits

(* The tests never write to the developer's database, which is never       *)
(* dropped.  A check whose env files stayed as they were and that is said  *)
(* to have passed ran in its throwaway database and left none behind; and  *)
(* the command succeeds only if every repository passed.                   *)
LeavesNoTrace ==
  /\ \A s \in Servers : Dev \in databases[s] /\ Dev \notin written[s]
  /\ check.at = "next" /\ check.steady /\ check.results[check.repo] = "pass" =>
       /\ \A s \in Servers : check.repo \notin databases[s]
       /\ \E s \in Servers : check.repo \in written[s]
  /\ check.at = "ok" => \A i \in 1..MaxRepos : check.results[i] = "pass"

(* What the documentation says, refuted: the database is dropped in every  *)
(* case.                                                                   *)
DroppedInEveryCase ==
  check.at \in {"next", "killed"} => \A s \in Servers : check.repo \notin databases[s]

=============================================================================
