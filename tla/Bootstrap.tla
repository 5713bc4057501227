------------------------------ MODULE Bootstrap ------------------------------
(***************************************************************************)
(* What orbit init and orbit env setup write into a workspace that is not  *)
(* theirs alone, and what orbit env check says of it (pkg/env,             *)
(* pkg/migrate/infrastructure/workspace, cmd/orbit/init.go, env.go): the   *)
(* directory tree, hooks, mcp.env, links into the handbook, .env files.    *)
(*                                                                         *)
(* Commands run in several terminals; a step of them is one system call or *)
(* one call of git.  The developer edits the same files meanwhile.  How a  *)
(* repository is cloned is WorkTree's, the migrations are Migrations'.     *)
(***************************************************************************)
EXTENDS Naturals, SequencesExt


CONSTANTS
  Terminals,
  Dirs,           \* directories that may hold a contract, .env.schema.yaml
  Repos,          \* repositories in the scope of orbit init
  Handbook,       \* the one of Repos that has the originals of the links
  Links,          \* rules, skills and documents to link
  MaxEdits        \* bound: edits, failed calls, and commands beside the first

VARIABLES
  item,           \* what is at the path, or in git's configuration
  private,        \* files of mode 0600
  contract,       \* contract of a directory
  cloned,         \* repositories that are there
  hooksDir,       \* .githooks is there
  job,            \* by terminal
  edits

vars == <<item, private, contract, cloned, hooksDir, job, edits>>

-----------------------------------------------------------------------------
Tree == <<"tree", "">>
Mcp == <<"mcp", "">>
Env(d) == <<"env", d>>
Hook(r) == <<"hook", r>>
Link(l) == <<"link", l>>

Envs == {Env(d) : d \in Dirs}
Hooks == {Hook(r) : r \in Repos}
Items == {Tree, Mcp} \union Envs \union Hooks \union {Link(l) : l \in Links}

(* ours is what the commands write; torn is a file that was opened and not *)
(* filled; wrong does not satisfy its contract.                            *)
Values(i) ==
  CASE i[1] = "env" -> {"absent", "ours", "mine", "wrong", "torn"}
    [] i[1] = "mcp" -> {"absent", "ours", "mine", "torn", "alias"}
    [] OTHER -> {"absent", "ours", "mine"}

Contracts == {"none", "broken", "defaults", "required"}

(* Mutant: a file that is there will do. *)
SatisfiesByExisting(value, c) == c # "broken" /\ value # "absent"

(* ParseEnvContent: what is absent or cut short holds nothing.             *)
Parsed(value) == value \in {"ours", "mine", "wrong"}

(* ValidateFile.  A contract with a required variable that has no default  *)
(* is not satisfied by what is generated from it.                          *)
Satisfies(value, c) ==
  /\ Parsed(value)
  /\ \/ c \in {"defaults", "required"} /\ value = "mine"
     \/ c = "defaults" /\ value = "ours"

(* inspectMCPEnv: a file that is missing is no error. *)
McpExposed(it, pr) == it[Mcp] # "absent" /\ Mcp \notin pr

Faults(it, pr, co) ==
  {i \in Envs : /\ co[i[2]] # "none"
                /\ ~(\/ co[i[2]] # "broken" /\ it[i] = "mine"
                     \/ co[i[2]] = "defaults" /\ it[i] = "ours")}
  \union (IF it[Mcp] # "absent" /\ Mcp \notin pr THEN {Mcp} ELSE {})

-----------------------------------------------------------------------------
Idle ==
  [ kind |-> "none", force |-> FALSE, hooks |-> TRUE, at |-> "idle",
    todo |-> <<>>, made |-> {}, failed |-> FALSE, code |-> 0,
    missing |-> {}, alone |-> TRUE, steady |-> {}, ever |-> {} ]

(* The end of every step: the command of t is now j, and each terminal     *)
(* remembers what was missing at some time, whether it was alone, and the  *)
(* faults that were there all the time and at some time.                   *)
Step(t, j) ==
  LET moved == <<item, private, contract>>' # <<item, private, contract>>
  IN  job' = [u \in Terminals |->
                LET k == IF u = t THEN j ELSE job[u]
                    f == Faults(item', private', contract')
                IN  IF k.at \in {"idle", "done", "killed"} THEN k
                    ELSE [ k EXCEPT
                             !.missing = @ \union {i \in Envs \union Hooks : item'[i] = "absent"},
                             !.alone = @ /\ (u = t \/ ~moved),
                             !.steady = @ \intersect f,
                             !.ever = IF k.kind = "check" THEN @ \union f ELSE {} ] ]

Here(t) == Head(job[t].todo)

Going(t, at) == job[t].at = at /\ job[t].todo # <<>>

NextItem(j) == [j EXCEPT !.at = "look", !.todo = Tail(@)]

(* The workspace setup of init ends with its first error; env goes on.     *)
Failed(j) ==
  [ j EXCEPT !.at = "look", !.failed = TRUE,
             !.todo = IF j.kind = "init" THEN <<>> ELSE Tail(@) ]

NothingElse == UNCHANGED <<contract, cloned, hooksDir, edits>>

-----------------------------------------------------------------------------
Found == {d \in Dirs : contract[d] # "none"}

EnvsFound == SetToSeq({Env(d) : d \in Found})

(* A command starts as j; one that is not the first counts as interference. *)
Opened(t, j) ==
  /\ job[t].at = "idle"
  /\ edits' = edits + (IF \E u \in Terminals : job[u].at # "idle" THEN 1 ELSE 0)
  /\ edits' <= MaxEdits
  /\ LET f == IF j.kind = "check" THEN Faults(item, private, contract) ELSE {}
         m == {i \in Envs \union Hooks : item[i] = "absent"}
     IN  job' = [job EXCEPT ![t] = [j EXCEPT !.steady = f, !.ever = f, !.missing = m]]
  /\ UNCHANGED <<item, private, contract, cloned, hooksDir>>

(* Service.Setup; without a contract it ends as unverified. *)
StartSetup(t, force) ==
  Opened(t, IF Found = {}
            THEN [Idle EXCEPT !.kind = "setup", !.at = "done", !.code = 2]
            ELSE [Idle EXCEPT !.kind = "setup", !.force = force, !.at = "look",
                              !.todo = Append(EnvsFound, Mcp)])

StartCheck(t) ==
  Opened(t, [Idle EXCEPT !.kind = "check", !.at = "look",
                         !.todo = Append(EnvsFound, Mcp)])

(* orbit init with a manifest: the clones first.  --skip-hooks leaves out  *)
(* the workspace setup.                                                    *)
StartInit(t, hooks) ==
  Opened(t, [Idle EXCEPT !.kind = "init", !.hooks = hooks, !.at = "clone"])

(* SetupWorkspace, in its order. *)
Tasks ==
  <<Tree>> \o (IF hooksDir THEN SetToSeq(Hooks) ELSE <<>>) \o <<Mcp>>
  \o SetToSeq({Link(l) : l \in Links})

(* Some clones may fail; a clone has no hook of its own. *)
Clone(t) ==
  /\ job[t].at = "clone"
  /\ UNCHANGED <<item, private, contract, hooksDir, edits>>
  /\ \E ok \in SUBSET (Repos \ cloned) :
       /\ cloned' = cloned \union ok
       /\ Step(t, [ job[t] EXCEPT !.at = "look", !.failed = cloned' # Repos,
                      !.todo = IF job[t].hooks THEN Tasks ELSE <<>> ])

-----------------------------------------------------------------------------
(* Mutant: what is there is brought up to date. *)
SettledNoEnv(t, i) ==
  CASE i[1] = "env" -> FALSE
    [] i[1] = "mcp" -> item[i] \notin {"absent", "alias"}
    [] i[1] = "hook" -> i[2] \notin cloned
    [] i[1] = "link" -> Handbook \notin cloned \/ item[i] = "ours"
    [] i[1] = "tree" -> item[i] = "ours"

(* Nothing to do: the item is as it should be, or there is nothing to put  *)
(* it in or to link to.                                                    *)
Settled(t, i) ==
  CASE i[1] = "env" -> item[i] # "absent" /\ ~job[t].force
    [] i[1] = "mcp" -> item[i] \notin {"absent", "alias"}
    [] i[1] = "hook" -> i[2] \notin cloned
    [] i[1] = "link" -> Handbook \notin cloned \/ item[i] = "ours"
    [] i[1] = "tree" -> item[i] = "ours"

(* Mutant: a conflict is the developer's wish. *)
RefusedNothing(i) == i[1] = "env" /\ contract[i[2]] = "broken"

(* A conflict with what the developer has there is an error, and so is a   *)
(* contract that does not load.                                            *)
Refused(i) ==
  CASE i[1] = "env" -> contract[i[2]] = "broken"
    [] i[1] = "mcp" -> item[i] = "alias"
    [] OTHER -> item[i] = "mine"

Look(t) ==
  /\ Going(t, "look") /\ job[t].kind # "check"
  /\ UNCHANGED <<item, private>>
  /\ NothingElse
  /\ Step(t, IF Settled(t, Here(t)) THEN NextItem(job[t])
             ELSE IF Refused(Here(t)) THEN Failed(job[t])
             ELSE [job[t] EXCEPT !.at = "make"])

Put(i, value) == item' = [item EXCEPT ![i] = value]

(* Mutant: the new link takes the place of what is there. *)
MakeInPlace(t) ==
  /\ Going(t, "make") /\ Here(t)[1] \in {"tree", "hook", "link"}
  /\ UNCHANGED private
  /\ NothingElse
  /\ Put(Here(t), "ours")
  /\ Step(t, NextItem(job[t]))

(* git config --local sets; mkdir takes a directory that is there, also    *)
(* behind a link; symlink does not replace.                                *)
MakeAtOnce(t) ==
  /\ Going(t, "make") /\ Here(t)[1] \in {"tree", "hook", "link"}
  /\ UNCHANGED private
  /\ NothingElse
  /\ LET i == Here(t)
     IN  IF i[1] = "hook" \/ item[i] = "absent"
         THEN Put(i, "ours") /\ Step(t, NextItem(job[t]))
         ELSE /\ UNCHANGED item
              /\ Step(t, IF i = Tree THEN NextItem(job[t]) ELSE Failed(job[t]))

(* Mutant: mcp.env is created as the other files are. *)
OpenFileOver(t) ==
  /\ Going(t, "make") /\ Here(t)[1] \in {"env", "mcp"}
  /\ NothingElse
  /\ Put(Here(t), "torn")
  /\ private' = IF item[Here(t)] = "absent" THEN private \union {Here(t)} ELSE private
  /\ Step(t, [job[t] EXCEPT !.at = "fill"])

(* WriteFile truncates what is there and keeps its mode; mcp.env is        *)
(* created with O_EXCL.                                                    *)
OpenFile(t) ==
  /\ Going(t, "make") /\ Here(t)[1] \in {"env", "mcp"}
  /\ NothingElse
  /\ LET i == Here(t)
     IN  IF i = Mcp /\ item[i] # "absent"
         THEN UNCHANGED <<item, private>> /\ Step(t, Failed(job[t]))
         ELSE /\ Put(i, "torn")
              /\ private' = IF item[i] = "absent" THEN private \union {i} ELSE private
              /\ Step(t, [job[t] EXCEPT !.at = "fill"])

(* Mutant: the mode that WriteFile was given is enough. *)
FillOnly(t) ==
  /\ Going(t, "fill")
  /\ UNCHANGED private
  /\ NothingElse
  /\ IF item[Here(t)] = "torn" THEN Put(Here(t), "ours") ELSE UNCHANGED item
  /\ Step(t, NextItem([job[t] EXCEPT !.made = @ \union {Here(t)}]))

(* The contents go to the file that was opened; an editor that saved       *)
(* meanwhile has put another one in its place.                             *)
Fill(t) ==
  /\ Going(t, "fill")
  /\ UNCHANGED private
  /\ NothingElse
  /\ LET i == Here(t)
     IN  /\ IF item[i] = "torn" THEN Put(i, "ours") ELSE UNCHANGED item
         /\ Step(t, IF i = Mcp THEN NextItem(job[t]) ELSE [job[t] EXCEPT !.at = "chmod"])

Chmod(t) ==
  /\ Going(t, "chmod")
  /\ UNCHANGED item
  /\ NothingElse
  /\ IF item[Here(t)] = "absent"
     THEN UNCHANGED private /\ Step(t, Failed(job[t]))
     ELSE /\ private' = private \union {Here(t)}
          /\ Step(t, NextItem([job[t] EXCEPT !.made = @ \union {Here(t)}]))

(* A write, a call of git or a chmod may fail; the file stays as it is. *)
Error(t) ==
  /\ job[t].at \in {"make", "fill", "chmod"}
  /\ UNCHANGED <<item, private, contract, cloned, hooksDir>>
  /\ edits < MaxEdits
  /\ edits' = edits + 1
  /\ Step(t, Failed(job[t]))

(* Service.Check: the file of one contract, then mcp.env. *)
Inspect(t) ==
  /\ Going(t, "look") /\ job[t].kind = "check"
  /\ UNCHANGED <<item, private>>
  /\ NothingElse
  /\ LET i == Here(t)
         bad == IF i = Mcp THEN McpExposed(item, private)
                ELSE ~Satisfies(item[i], contract[i[2]])
     IN  Step(t, IF bad THEN Failed(job[t]) ELSE NextItem(job[t]))

(* A failed pull of assets is a warning of init. *)
Exit(t) ==
  /\ job[t].at = "look" /\ job[t].todo = <<>>
  /\ UNCHANGED <<item, private>>
  /\ NothingElse
  /\ Step(t, [ job[t] EXCEPT !.at = "done",
                 !.code = IF job[t].failed THEN 1
                          ELSE IF job[t].kind = "check" /\ Found = {} THEN 2
                          ELSE 0 ])

Kill(t) ==
  /\ job[t].at \notin {"idle", "done", "killed"}
  /\ UNCHANGED <<item, private>>
  /\ NothingElse
  /\ Step(t, [job[t] EXCEPT !.at = "killed"])

(* The developer writes, replaces or removes a file, a link or a setting,  *)
(* changes a mode, or a contract.                                          *)
Edit ==
  /\ edits < MaxEdits
  /\ UNCHANGED <<cloned, hooksDir>>
  /\ edits' = edits + 1
  /\ \/ \E i \in Items : \E v \in Values(i) \ {item[i]} :
          Put(i, v) /\ UNCHANGED <<private, contract>>
     \/ \E i \in Envs \union {Mcp} :
          /\ item[i] # "absent"
          /\ private' = IF i \in private THEN private \ {i} ELSE private \union {i}
          /\ UNCHANGED <<item, contract>>
     \/ \E d \in Found, c \in Contracts \ {"none"} :
          contract' = [contract EXCEPT ![d] = c] /\ UNCHANGED <<item, private>>
  /\ Step("", Idle)

-----------------------------------------------------------------------------
(* A fresh workspace, or one that is set up, but for one thing. *)
Init ==
  /\ \E base \in {"absent", "ours"} :
       \/ /\ \E i \in Items : \E v \in Values(i) :
               item = [x \in Items |-> IF x = i THEN v ELSE base]
          /\ private = Envs \union {Mcp}
          /\ contract \in [Dirs -> {"defaults"}]
          /\ hooksDir = TRUE
       \/ /\ item = [x \in Items |-> base]
          /\ \E i \in Items : private = (Envs \union {Mcp}) \ {i}
          /\ contract \in [Dirs -> Contracts]
          /\ hooksDir \in BOOLEAN
  /\ cloned \in {{}, Repos}
  /\ job = [t \in Terminals |-> Idle]
  /\ edits = 0

Next ==
  \/ Edit
  \/ \E t \in Terminals :
       \/ \E b \in BOOLEAN : StartSetup(t, b) \/ StartInit(t, b)
       \/ StartCheck(t)
       \/ Clone(t)
       \/ Look(t)
       \/ MakeAtOnce(t)
       \/ OpenFile(t)
       \/ Fill(t)
       \/ Chmod(t)
       \/ Error(t)
       \/ Inspect(t)
       \/ Exit(t)
       \/ Kill(t)

Spec == Init /\ [][Next]_vars

-----------------------------------------------------------------------------
TypeOK ==
  /\ \A i \in Items : item[i] \in Values(i)
  /\ private \subseteq Items
  /\ contract \in [Dirs -> Contracts]
  /\ cloned \subseteq Repos
  /\ \A t \in Terminals :
       /\ job[t].at \in {"idle", "clone", "look", "make", "fill", "chmod",
                         "done", "killed"}
       /\ \A n \in DOMAIN job[t].todo : job[t].todo[n] \in Items
       /\ job[t].code \in 0..2
  /\ edits \in 0..MaxEdits

Ended(t, kind, code) ==
  job[t].kind = kind /\ job[t].at = "done" /\ job[t].code = code

(* env check answers 0 only if no contract is broken all through the       *)
(* command, and 1 only if one is at some time.                             *)
CheckIsEvidence ==
  \A t \in Terminals :
    /\ Ended(t, "check", 0) => job[t].steady = {}
    /\ Ended(t, "check", 1) => job[t].ever # {}

(* Success of a command that nobody interfered with: env setup leaves what *)
(* it generated whole and private and has an mcp.env; init leaves every    *)
(* clone with the hooks of the workspace and every link in its place.      *)
SuccessIsComplete ==
  \A t \in Terminals :
    /\ \A u \in Terminals \ {t} : job[u].at = "idle"
    /\ edits = 0
    =>
    /\ Ended(t, "setup", 0) =>
         /\ \A i \in job[t].made : item[i] = "ours" /\ i \in private
         /\ \A d \in Found : item[Env(d)] # "absent"
         /\ item[Mcp] \notin {"absent", "alias"}
    /\ Ended(t, "init", 0) /\ job[t].hooks =>
         /\ cloned = Repos /\ item[Tree] = "ours"
         /\ hooksDir => \A r \in Repos : item[Hook(r)] = "ours"
         /\ \A l \in Links : item[Link(l)] = "ours"
         /\ item[Mcp] \notin {"absent", "alias"}

(* Who has something there keeps it.  A link, a directory or mcp.env that  *)
(* exists is never written to, nor is a hooks path that was the            *)
(* developer's all through the command, nor a .env that existed all        *)
(* through it, unless --force was given.                                   *)
TheirsIsKept ==
  [][ item' # item /\ edits' = edits =>
        \A i \in {x \in Items : item'[x] # item[x] /\ item[x] \in {"mine", "wrong", "alias"}} :
          /\ i[1] \in {"env", "hook"}
          /\ \E t \in Terminals :
               /\ job[t] # job'[t]
               /\ \/ i \in job[t].missing
                  \/ i[1] = "env" /\ job[t].force
                  \/ i[1] = "hook" /\ ~job[t].alone ]_vars

(* application.go, Setup: mcp.env is "ready (chmod 0600)".  One that was   *)
(* there keeps the mode it had.                                            *)
SetupSecures ==
  \A t \in Terminals :
    Ended(t, "setup", 0) /\ job[t].alone => Mcp \in private

=============================================================================
