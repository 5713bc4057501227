------------------------------- MODULE Doctor -------------------------------
(***************************************************************************)
(* orbit doctor: a suite of checks that run one after the other, recipes   *)
(* for what they complain about, and the suite once more (pkg/doctor,      *)
(* cmd/orbit/doctor.go), on a machine that others change meanwhile.        *)
(*                                                                         *)
(* Of the machine the model keeps what a recipe repairs and what decides   *)
(* the verdict; checks that only warn and that no recipe answers (disk,    *)
(* memory, ports, agent, RTK) are left out, and Typst is as Caddy.  apt,   *)
(* the installers, ssh and the bucket are external.  A version is 0 for    *)
(* none, 2 for the one the recipes install, 1 and 3 for an older and a     *)
(* newer one.                                                              *)
(***************************************************************************)
EXTENDS Naturals, Sequences

CONSTANTS
  Runs,           \* the flags the command may be given
  MaxChanges      \* bound: changes by others, and answers that come too late

VARIABLES
  machine,
  job,            \* the command
  steady,         \* history: faults there all through the diagnosis
  ever,           \* history: faults there at some time of the diagnosis
  seen,           \* history: complaints there at some time of the command
  changes

vars == <<machine, job, steady, ever, seen, changes>>

When(p, x) == IF p THEN <<x>> ELSE <<>>

Set(p, x) == IF p THEN {x} ELSE {}

-----------------------------------------------------------------------------
Healthy ==
  [ os |-> TRUE, shell |-> TRUE, path |-> TRUE, sudo |-> TRUE, net |-> TRUE,
    git |-> TRUE, own |-> 2, other |-> 0, linked |-> TRUE, floor |-> 1,
    module |-> TRUE, node |-> 2, bun |-> 2, docker |-> "running",
    compose |-> TRUE, caddy |-> TRUE, key |-> TRUE, repos |-> "whole",
    assets |-> "complete" ]

(* own is the Go in /usr/local/go, linked when PATH has it; other is one   *)
(* before it on PATH.                                                      *)
Values ==
  [ os |-> BOOLEAN, shell |-> BOOLEAN, path |-> BOOLEAN, sudo |-> BOOLEAN,
    net |-> BOOLEAN, git |-> BOOLEAN, own |-> {0, 1, 2, 3}, other |-> {0, 1, 3},
    linked |-> BOOLEAN, floor |-> {0, 1, 3}, module |-> BOOLEAN,
    node |-> {0, 1, 2, 3}, bun |-> {0, 2},
    docker |-> {"running", "stopped", "absent"}, compose |-> BOOLEAN,
    caddy |-> BOOLEAN, key |-> BOOLEAN,
    repos |-> {"whole", "gitless", "unreadable"},
    assets |-> {"none", "complete", "missing", "nokeys"} ]

(* The Go that a shell would start. *)
Go(m) ==
  IF m.other # 0 THEN m.other ELSE IF m.linked THEN m.own ELSE 0

(* workspaceVersionPins, where no manifest asks for more. *)
Pin == 1

Floor(m) == IF m.module /\ m.floor # 0 THEN m.floor ELSE Pin

-----------------------------------------------------------------------------
(* A result: its name, its status, and whether its message mentions PATH.  *)
Result(name, bad, status, path) ==
  [name |-> name, status |-> IF bad THEN status ELSE "OK", path |-> bad /\ path]

(* The evaluators.  late holds the probe that ran into its timeout, if one *)
(* did.                                                                    *)
HostResult(m) == Result("Host", ~(m.os /\ m.shell /\ m.path), "ERROR", TRUE)

GitResult(m, late) == Result("Git", ~m.git \/ "git" \in late, "ERROR", TRUE)

GoResult(m, late) ==
  Result("Go Compiler", Go(m) < Floor(m) \/ "go" \in late, "ERROR", FALSE)

NodeResult(m, late) ==
  Result("Node.js", m.node < 2 \/ "node" \in late, "ERROR", FALSE)

BunResult(m, late) == Result("Bun", m.bun < 2 \/ "bun" \in late, "ERROR", FALSE)

DaemonResult(m, late) ==
  Result("Docker Daemon", m.docker # "running" \/ "docker" \in late, "ERROR",
         m.docker = "absent")

ComposeResult(m) == Result("Docker Compose", ~m.compose, "ERROR", FALSE)

SshResult(m) == Result("GitHub SSH", ~m.key, "WARN", FALSE)

CaddyResult(m) == Result("Caddy", ~m.caddy, "WARN", TRUE)

-----------------------------------------------------------------------------
(* The checks of the suite. *)
ToolchainCheck(m, late) ==
  When(~m.module, Result("go.mod", TRUE, "ERROR", FALSE)) \o
  <<GoResult(m, late), NodeResult(m, late), BunResult(m, late)>>

DockerCheck(m, late) == <<DaemonResult(m, late), ComposeResult(m)>>

WorkspaceCheck(m) ==
  << Result("Workspace", m.repos # "whole",
            IF m.repos = "gitless" THEN "WARN" ELSE "ERROR", FALSE) >>

(* addAssetDiagnostics, after a pull that may have failed. *)
AssetsCheck(m, failed) ==
  IF m.assets = "none" THEN <<>>
  ELSE When(failed, Result("Pull", TRUE, "ERROR", FALSE)) \o
       <<Result("Assets", ~m.net \/ m.assets # "complete", "ERROR", FALSE)>>

Check(c, m, late) ==
  CASE c = "host" -> <<HostResult(m)>>
    [] c = "git" -> <<GitResult(m, late)>>
    [] c = "toolchains" -> ToolchainCheck(m, late)
    [] c = "docker" -> DockerCheck(m, late)
    [] c = "ssh" -> <<SshResult(m)>>
    [] c = "tools" -> <<CaddyResult(m)>>
    [] c = "workspace" -> WorkspaceCheck(m)
    [] c = "assets" -> AssetsCheck(m, "pull" \in late)

(* Diagnose: what is registered, in order. *)
Suite(o) ==
  <<"host", "git", "toolchains">> \o
  (IF o.remote THEN <<"docker", "ssh">> ELSE <<>>) \o
  <<"tools", "workspace">> \o
  (IF o.remote THEN <<"assets">> ELSE <<>>)

(* The probes of a check that are other programs; a pull is not a probe    *)
(* but may fail as well.                                                   *)
Probes(c, repairs) ==
  CASE c = "git" -> {"git"}
    [] c = "toolchains" -> {"go", "node", "bun"}
    [] c = "docker" -> {"docker"}
    [] c = "assets" /\ repairs -> {"pull"}
    [] OTHER -> {}

HasErrors(report) == \E i \in DOMAIN report : report[i].status = "ERROR"

-----------------------------------------------------------------------------
(* NewDefaultRegistry. *)
Recipes == <<"zsh", "git", "go", "bun", "node", "daemon", "compose", "caddy">>

ZshCanHeal(r) == r.name = "Host" \/ r.path

GoCanHeal(r) == r.name \in {"Go Compiler", "go.mod"}

CanHeal(h, r) ==
  CASE h = "zsh" -> ZshCanHeal(r)
    [] h = "git" -> r.name = "Git"
    [] h = "go" -> GoCanHeal(r)
    [] h = "bun" -> r.name = "Bun"
    [] h = "node" -> r.name = "Node.js"
    [] h = "daemon" -> r.name = "Docker Daemon"
    [] h = "compose" -> r.name = "Docker Compose"
    [] h = "caddy" -> r.name = "Caddy"

Answers(n, r) == r.status # "OK" /\ CanHeal(Recipes[n], r)

(* Mutant: a result that is fine has its recipe, too. *)
FindHealersForAll(report) ==
  { p \in (DOMAIN report) \X (DOMAIN Recipes) :
      /\ CanHeal(Recipes[p[2]], report[p[1]])
      /\ \A i \in 1..(p[1] - 1) : ~CanHeal(Recipes[p[2]], report[i]) }

(* Mutant: every recipe of a complaint is run again. *)
FindHealersWithDuplicates(report) ==
  {p \in (DOMAIN report) \X (DOMAIN Recipes) : Answers(p[2], report[p[1]])}

(* Each recipe, for the first complaint it answers. *)
FindHealers(report) ==
  { p \in (DOMAIN report) \X (DOMAIN Recipes) :
      /\ Answers(p[2], report[p[1]])
      /\ \A i \in 1..(p[1] - 1) : ~Answers(p[2], report[i]) }

(* They run in the order of the complaints, then of the registry. *)
Leads(p, queue) ==
  \A q \in queue : p[1] < q[1] \/ (p[1] = q[1] /\ p[2] <= q[2])

(* The scripts.  What they may leave behind where they report success:     *)
(* chsh and the installation of Docker end in "|| true".  Zsh's line in    *)
(* .zshrc changes nothing for the running command.                         *)
ZshHealed(m) == {m, [m EXCEPT !.shell = TRUE]}

GitHealed(m) == {[m EXCEPT !.git = TRUE]}

GoUnpacked(m) == [m EXCEPT !.own = 2, !.linked = TRUE]

BunHealed(m) == {[m EXCEPT !.bun = 2]}

NodeHealed(m) == {[m EXCEPT !.node = IF @ < 2 THEN 2 ELSE @]}

(* Mutant: the packages are removed before they are installed. *)
DaemonHealedAnew(m) ==
  {[m EXCEPT !.docker = d, !.compose = d = "running"] : d \in {"absent", "running"}}

DaemonHealed(m) ==
  { m, [m EXCEPT !.docker = "running", !.compose = TRUE],
    [m EXCEPT !.docker = IF @ = "running" THEN @ ELSE "stopped", !.compose = TRUE] }

ComposeHealed(m) == {[m EXCEPT !.compose = TRUE]}

CaddyHealed(m) == {[m EXCEPT !.caddy = TRUE]}

Healed(h, m) ==
  CASE h = "zsh" -> ZshHealed(m)
    [] h = "git" -> GitHealed(m)
    [] h = "bun" -> BunHealed(m)
    [] h = "node" -> NodeHealed(m)
    [] h = "daemon" -> DaemonHealed(m)
    [] h = "compose" -> ComposeHealed(m)
    [] h = "caddy" -> CaddyHealed(m)

(* checkElevation, and the network that every script needs. *)
Possible(h, m) == m.net /\ (h = "bun" \/ m.sudo)

-----------------------------------------------------------------------------
(* What is wrong with the machine, in words of its own: the faults, and    *)
(* the complaints, which are not all errors.                               *)
Faults(m, o) ==
  Set(~m.os \/ ~m.shell \/ ~m.path, "host") \union Set(~m.git, "git")
  \union Set(Go(m) = 0 \/ Go(m) < Floor(m), "go") \union Set(~m.module, "module")
  \union Set(m.node < 2, "node") \union Set(m.bun < 2, "bun")
  \union Set(m.repos = "unreadable", "repos")
  \union Set(o.remote /\ m.docker # "running", "docker")
  \union Set(o.remote /\ ~m.compose, "compose")
  \union Set(o.remote /\ m.assets # "none" /\ (~m.net \/ m.assets # "complete"), "assets")

Complaints(m, o) ==
  Faults(m, o) \union Set(~m.caddy, "caddy") \union Set(~m.key, "key")

Remember ==
  /\ steady' = steady \intersect Faults(machine', job.opts)
  /\ ever' = ever \union Faults(machine', job.opts)
  /\ seen' = seen \union Complaints(machine', job.opts)

-----------------------------------------------------------------------------
None == [fix |-> FALSE, remote |-> FALSE, accept |-> FALSE, json |-> FALSE]

Init ==
  /\ \E a \in DOMAIN Values : \E v \in Values[a] : machine = [Healthy EXCEPT ![a] = v]
  /\ job = [ at |-> "idle", opts |-> None, todo |-> <<>>, repairs |-> FALSE,
             report |-> <<>>, queue |-> {}, ran |-> <<>>, again |-> FALSE,
             late |-> FALSE, code |-> 0 ]
  /\ steady = {} /\ ever = {} /\ seen = {}
  /\ changes = 0

(* Somebody installs, removes or configures something. *)
Change ==
  /\ job.at \notin {"done", "refused", "killed"} /\ changes < MaxChanges
  /\ \E a \in DOMAIN Values : \E v \in Values[a] : machine' = [machine EXCEPT ![a] = v]
  /\ Remember
  /\ changes' = changes + 1
  /\ UNCHANGED job

(* --accept-host-keys requires --remote --fix. *)
Valid(o) == o.accept => o.remote /\ o.fix

Start(o) ==
  /\ job.at = "idle"
  /\ IF Valid(o)
     THEN /\ job' = [ job EXCEPT !.at = "check", !.opts = o, !.todo = Suite(o),
                        !.repairs = o.fix ]
          /\ steady' = Faults(machine, o)
          /\ ever' = Faults(machine, o)
          /\ seen' = Complaints(machine, o)
     ELSE /\ job' = [job EXCEPT !.at = "refused"]
          /\ UNCHANGED <<steady, ever, seen>>
  /\ UNCHANGED <<machine, changes>>

(* The next check.  ssh may write the host key, and the assets are pulled  *)
(* before they are looked at, where repairs are allowed.                   *)
Probe ==
  /\ job.at = "check" /\ job.todo # <<>>
  /\ LET c == Head(job.todo)
     IN  \E late \in {{}} \union {{p} : p \in Probes(c, job.repairs)} :
           /\ late # {} => changes < MaxChanges
           /\ changes' = changes + (IF late = {} THEN 0 ELSE 1)
           /\ machine' =
                IF c = "ssh" /\ job.opts.accept THEN [machine EXCEPT !.key = TRUE]
                ELSE IF /\ c = "assets" /\ job.repairs /\ machine.net
                        /\ machine.assets = "missing" /\ late = {}
                     THEN [machine EXCEPT !.assets = "complete"] ELSE machine
           /\ job' = [ job EXCEPT !.todo = Tail(@),
                         !.report = @ \o Check(c, machine', late),
                         !.late = @ \/ late # {} ]
  /\ Remember

(* Heal, when the first diagnosis is there and asked for recipes. *)
Prescribe ==
  /\ job.at = "check" /\ job.todo = <<>>
  /\ job.opts.fix /\ ~job.again /\ FindHealers(job.report) # {}
  /\ job' = [job EXCEPT !.at = "heal", !.queue = FindHealers(job.report)]
  /\ UNCHANGED <<machine, steady, ever, seen, changes>>

(* RunHealers: the recipe of p is next, and ends with or without success.  *)
IsNext(p) == p \in job.queue /\ Leads(p, job.queue)

Ended(p) ==
  [ job EXCEPT !.at = "heal", !.queue = @ \ {p}, !.ran = Append(@, Recipes[p[2]]) ]

Treat(p) ==
  /\ job.at = "heal" /\ IsNext(p) /\ Recipes[p[2]] # "go"
  /\ \/ machine' = machine
     \/ /\ Possible(Recipes[p[2]], machine)
        /\ machine' \in Healed(Recipes[p[2]], machine)
  /\ job' = Ended(p)
  /\ Remember
  /\ UNCHANGED changes

(* The Go recipe removes what is installed, then unpacks. *)
GoRemove(p) ==
  /\ job.at = "heal" /\ IsNext(p) /\ Recipes[p[2]] = "go"
  /\ IF Possible("go", machine)
     THEN /\ machine' = [machine EXCEPT !.own = 0]
          /\ job' = [job EXCEPT !.at = "unpack"]
     ELSE /\ UNCHANGED machine
          /\ job' = Ended(p)
  /\ Remember
  /\ UNCHANGED changes

GoUnpack(p) ==
  /\ job.at = "unpack" /\ IsNext(p)
  /\ machine' \in {machine, GoUnpacked(machine)}
  /\ job' = Ended(p)
  /\ Remember
  /\ UNCHANGED changes

(* Mutant: the recipes are believed. *)
RerunBelieves ==
  /\ job.at = "heal" /\ job.queue = {}
  /\ job' = [ job EXCEPT !.at = "check", !.again = TRUE, !.report = <<>>, !.late = FALSE ]
  /\ steady' = Faults(machine, job.opts)
  /\ ever' = Faults(machine, job.opts)
  /\ UNCHANGED <<machine, seen, changes>>

(* The second diagnosis.  Assets are repaired again under --json only. *)
Rerun ==
  /\ job.at = "heal" /\ job.queue = {}
  /\ job' = [ job EXCEPT !.at = "check", !.todo = Suite(job.opts), !.again = TRUE,
                !.repairs = job.opts.json, !.report = <<>>, !.late = FALSE ]
  /\ steady' = Faults(machine, job.opts)
  /\ ever' = Faults(machine, job.opts)
  /\ UNCHANGED <<machine, seen, changes>>

Exit ==
  /\ job.at = "check" /\ job.todo = <<>>
  /\ \/ ~job.opts.fix
     \/ job.again
     \/ FindHealers(job.report) = {}
  /\ job' = [job EXCEPT !.at = "done", !.code = IF HasErrors(job.report) THEN 1 ELSE 0]
  /\ UNCHANGED <<machine, steady, ever, seen, changes>>

(* An interrupt ends the command, and the script it runs. *)
Kill ==
  /\ job.at \in {"check", "heal", "unpack"}
  /\ job' = [job EXCEPT !.at = "killed"]
  /\ UNCHANGED <<machine, steady, ever, seen, changes>>

Next ==
  \/ Change
  \/ \E o \in Runs : Start(o)
  \/ Probe
  \/ Prescribe
  \/ \E p \in job.queue : Treat(p) \/ GoRemove(p) \/ GoUnpack(p)
  \/ Rerun
  \/ Exit
  \/ Kill

Spec == Init /\ [][Next]_vars

-----------------------------------------------------------------------------
TypeOK ==
  /\ \A a \in DOMAIN Values : machine[a] \in Values[a]
  /\ job.at \in {"idle", "check", "heal", "unpack", "done", "refused", "killed"}
  /\ \A i \in DOMAIN job.report : job.report[i].status \in {"OK", "WARN", "ERROR"}
  /\ job.queue \subseteq Nat \X (DOMAIN Recipes)
  /\ \A i \in DOMAIN job.ran : \E n \in DOMAIN Recipes : job.ran[i] = Recipes[n]
  /\ changes \in 0..MaxChanges

(* The exit code is about the machine as it was while the last diagnosis   *)
(* ran, after the recipes: code 0 overlooks no fault that was there all    *)
(* the while, whatever the recipes said of themselves, and code 1 is no    *)
(* complaint of before them, unless a probe was late.                      *)
VerdictIsCurrent ==
  job.at = "done" =>
    /\ job.code = 0 => steady = {}
    /\ job.code = 1 => ever # {} \/ job.late

(* What the recipes of a complaint write to. *)
Remedied(c) ==
  CASE c = "host" -> {"shell"}
    [] c = "git" -> {"git", "shell"}
    [] c \in {"go", "module"} -> {"own", "linked"}
    [] c = "docker" -> {"docker", "compose", "shell"}
    [] c = "caddy" -> {"caddy", "shell"}
    [] c \in {"node", "bun", "compose"} -> {c}
    [] OTHER -> {}

(* The command touches the machine with --fix only, and then only what a   *)
(* complaint that was there accounts for or a late probe may have feigned; *)
(* host keys take --accept-host-keys, assets take --remote.                *)
TouchedForAReason ==
  [][ machine' # machine /\ changes' = changes =>
        \A a \in {x \in DOMAIN Values : machine'[x] # machine[x]} :
          /\ job.opts.fix
          /\ \/ a = "key" /\ job.opts.accept
             \/ a = "assets" /\ job.opts.remote
             \/ \E c \in seen : a \in Remedied(c)
             \/ job.late /\ a \notin {"key", "assets"} ]_vars

(* No recipe runs twice in a command, and none breaks what it does not     *)
(* install: of all it handles only Go is ever worse for it.                *)
RecipesDoNoHarm ==
  [][ /\ job'.ran # job.ran =>
           \A i, j \in DOMAIN job'.ran : job'.ran[i] = job'.ran[j] => i = j
      /\ machine' # machine /\ changes' = changes =>
           Faults(machine', job.opts) \ {"go"} \subseteq Faults(machine, job.opts) ]_vars

(* recipes.go:95: the Go recipe answers "a missing or outdated Go          *)
(* installation".  A go.mod that does not parse, or a late probe, calls    *)
(* for it as well, and it replaces what is there by version 2.             *)
GoIsNotReplaced ==
  [][ changes' = changes /\ ~job.late /\ "go" \notin seen =>
        machine'.own = machine.own ]_vars

=============================================================================
