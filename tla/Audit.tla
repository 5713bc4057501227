------------------------------- MODULE Audit -------------------------------
(***************************************************************************)
(* orbit audit: sensors that read the repositories of the workspace one by *)
(* one, a report with its exceptions and accepted gaps, and the exit code  *)
(* (pkg/audit, cmd/orbit/audit.go), while a developer works in another     *)
(* terminal and pull requests go on.                                       *)
(*                                                                         *)
(* A repository is what the sensors tell apart in it.  A finding is        *)
(* <<check, severity, subject>> and a gap, which the report calls          *)
(* unverified, <<subject, what>>: their text is no more than that.  The    *)
(* network, gh and the scripts of the handbook are external.               *)
(***************************************************************************)
EXTENDS Naturals, Sequences

CONSTANTS
  Repos,          \* repositories of the manifest that are not skipped
  Shared,         \* stands for the whole workspace as a subject
  RuleSets,       \* what the two files of rules may hold
  MaxChanges      \* bound: changes by others

VARIABLES
  tree,           \* the repositories
  world,          \* the manifest, versions.env, the handbook, the network
  rules,          \* exceptions, and the file of accepted gaps
  job,            \* the command: checks left, the one under way
  page,           \* report of the check under way
  report,         \* report of the command
  steady,         \* history: what was so all the time of the command
  ever,           \* history: what was so at some time of the command
  changes

vars == <<tree, world, rules, job, page, report, steady, ever, changes>>

When(p, x) == IF p THEN {x} ELSE {}

-----------------------------------------------------------------------------
Clean ==
  [ cloned |-> TRUE, head |-> "origin", pins |-> "match", deps |-> "pinned",
    lock |-> "one", kit |-> "installed", imports |-> "known", tests |-> TRUE,
    advisory |-> FALSE, merges |-> "passed" ]

(* A pull request that was merged although a check failed, had not ended   *)
(* or had not begun may lie beyond the 200 that gh lists; the repository   *)
(* may not be one of GitHub.                                               *)
Values ==
  [ cloned |-> BOOLEAN, head |-> {"origin", "other"},
    pins |-> {"match", "drift", "invalid"}, deps |-> {"pinned", "floating"},
    lock |-> {"none", "one", "many"}, kit |-> {"installed", "shadowed", "missing"},
    imports |-> {"known", "unknown", "namespace"}, tests |-> BOOLEAN,
    advisory |-> BOOLEAN,
    merges |-> {"passed", "failed", "unsettled", "unchecked", "overridden",
                "beyond", "unread"} ]

Plain ==
  [ manifest |-> TRUE, pins |-> TRUE, network |-> TRUE, gates |-> "clean",
    mcp |-> "same", recall |-> "good", editors |-> TRUE ]

(* The manifest, versions.env, the network and the editors' settings can   *)
(* be read, or they cannot.  gates, mcp and recall are what the scripts of *)
(* the handbook say: check-all, setup-mcp and eval.  A mute check-all      *)
(* failed without a finding.                                               *)
WorldValues ==
  [ manifest |-> BOOLEAN, pins |-> BOOLEAN, network |-> BOOLEAN, editors |-> BOOLEAN,
    gates |-> {"clean", "findings", "unverified", "absent", "mute"},
    mcp |-> {"same", "drift", "unverified"},
    recall |-> {"good", "low", "silent"} ]

-----------------------------------------------------------------------------
(* What the readers make of the files of a repository, and of the forge.   *)

(* Refs.Head against the branch that was fetched last, which need not be   *)
(* that of the server.  What cannot be read says nothing.                  *)
Behind(x) == x.head = "other"

(* A version the pins do not allow. *)
Drifts(x) == x.pins = "drift"

Parses(x) == x.pins # "invalid"

(* ForbiddenSpec: a range or a tag in the place of a version. *)
Floats(x) == x.deps = "floating"

(* ParseBunLockAll and ParseGoSum. *)
Resolved(x) == x.lock # "none"

(* One dependency in more than one version. *)
Several(x) == x.lock = "many"

(* InstalledExports: the kit next to the importing file. *)
KitFound(x) == x.kit # "missing"

(* shadowFindings: an export of its own with a name of the kit's. *)
Shadows(x) == x.kit = "shadowed"

(* ParseImports against ParseKitExports. *)
ImportsUnknown(x) == x.imports = "unknown"

(* IsTestFile, for what is neither a library of the commons nor static. *)
Untested(x) == ~x.tests

(* What OSV answers about the versions that a lockfile resolves. *)
Vulnerable(x) == Resolved(x) /\ x.advisory

(* Mutant: only what failed has failed. *)
BypassesFailed == {"failed"}

(* FailingChecks and NoChecks: what has not settled has not passed. *)
Bypasses == {"failed", "unsettled", "unchecked"}

(* MergedPullRequests: the page that gh lists. *)
Listed(m) == m # "beyond"

Empty == [findings |-> {}, gaps |-> {}, accepted |-> {}]

(* Service.All, without and with --remote. *)
Local == <<"versions", "deps", "usage", "agents", "tests">>
Remote == Local \o <<"upstream", "merges">>

(* The checks that take the flag --remote when they are run alone. *)
Remotable == {"deps", "tests", "upstream", "merges"}

-----------------------------------------------------------------------------
(* What the sensors report.  Each takes a repository r with contents x and *)
(* the world w, and gives findings and gaps.                               *)
Report(findings, gaps) ==
  [findings |-> findings, gaps |-> gaps, accepted |-> {}]

Add(a, b) ==
  [ findings |-> a.findings \union b.findings, gaps |-> a.gaps \union b.gaps,
    accepted |-> a.accepted \union b.accepted ]

(* workspaceRepos, for whom its error is a gap. *)
Manifest(w) == Report({}, When(~w.manifest, <<Shared, "manifest">>))

(* Service.scan with cloneFindings: before versions, deps and usage. *)
Scan(w) ==
  LET listed == {r \in Repos : w.manifest}
      absent == {r \in listed : ~tree[r].cloned}
  IN  Add(Manifest(w),
          Report({<<"clone", "WARN", r>> : r \in {x \in listed \ absent : Behind(tree[x])}},
                 {<<r, "not cloned">> : r \in absent}))

VersionsOf(r, x, w) ==
  Report(When(x.cloned /\ Drifts(x), <<"versions", "ERROR", r>>),
         When(x.cloned /\ ~Parses(x), <<r, "package.json">>))

DepsOf(r, x, w) ==
  LET declared == x.cloned /\ Parses(x)
  IN  Report(When(declared /\ Floats(x), <<"deps", "ERROR", r>>)
               \union When(x.cloned /\ Several(x), <<"deps", "WARN", r>>)
               \union When(declared /\ Shadows(x), <<"deps", "WARN", r>>),
             When(x.cloned /\ ~Parses(x), <<r, "package.json">>)
               \union When(declared /\ ~Resolved(x), <<r, "bun.lock">>)
               \union When(declared /\ ~KitFound(x), <<r, "kit">>))

UsageOf(r, x, w) ==
  Report(When(x.cloned /\ ImportsUnknown(x) /\ KitFound(x),
              <<"usage", "WARN", r>>),
         When(x.cloned /\ x.imports = "namespace", <<r, "namespace">>)
           \union When(x.cloned /\ ~KitFound(x), <<r, "exports">>))

TestsOf(r, x, w) ==
  Report(When(x.cloned /\ Untested(x), <<"tests", "WARN", r>>),
         When(~x.cloned, <<r, "not cloned (tests)">>))

MergesOf(r, x, w) ==
  Report(When(w.network /\ Listed(x.merges) /\ x.merges \in Bypasses,
              <<"merges", "ERROR", r>>),
         When(~w.network \/ x.merges = "unread", <<r, "merges">>))

(* resolvedPackages, and whether OSV knows one of them. *)
Packages(r, x) == When(x.cloned /\ Resolved(x), <<r, Vulnerable(x)>>)

Sensor(c, r, x, w) ==
  CASE c = "versions" -> VersionsOf(r, x, w)
    [] c = "deps" -> DepsOf(r, x, w)
    [] c = "usage" -> UsageOf(r, x, w)
    [] c = "tests" -> TestsOf(r, x, w)
    [] c = "merges" -> MergesOf(r, x, w)
    [] OTHER -> Empty

(* addCheckAllFindings takes exit code 1 for findings: of a gate that      *)
(* failed without one it says nothing.                                     *)
CheckAll(w) ==
  Report(When(w.gates = "findings", <<"agents", "ERROR", Shared>>),
         When(w.gates = "unverified", <<Shared, "check-all">>)
           \union When(w.gates = "absent", <<Shared, "check-all missing">>))

(* ParseEvalSummary: the recall of the handbook's search. *)
Recall(w) ==
  Report(When(w.recall = "low", <<"agents", "ERROR", Shared>>),
         When(w.recall = "silent", <<Shared, "recall">>))

Editors(w) ==
  Report(When(w.mcp = "drift", <<"agents", "WARN", Shared>>),
         When(w.mcp = "unverified", <<Shared, "mcp">>)
           \union When(~w.editors, <<Shared, "editor">>))

AgentsReport(w) == Add(CheckAll(w), Add(Editors(w), Recall(w)))

(* Mutant: without the network nothing is vulnerable. *)
AdvisoriesIfAsked(packages, w) ==
  Report({<<"upstream", "ERROR", p[1]>> : p \in {q \in packages : w.network /\ q[2]}}, {})

(* OSV is asked for all packages at once, where there are any. *)
Advisories(packages, w) ==
  IF w.network
  THEN Report({<<"upstream", "ERROR", p[1]>> : p \in {q \in packages : q[2]}}, {})
  ELSE Report({}, When(packages # {}, <<Shared, "osv">>))

(* addRemoteFinding, addActionsUsage, and latestUpstream for the pins that *)
(* could be read: what cannot be asked is a gap.  Bills are asked of the   *)
(* owners of the repositories, if the manifest told any.                   *)
Lookups(c, p, w) ==
  Report({}, IF w.network THEN {}
             ELSE CASE c = "deps" -> {<<Shared, "registry">>}
                    [] c = "tests" ->
                         When(<<Shared, "manifest">> \notin p.gaps, <<Shared, "billing">>)
                    [] c = "upstream" ->
                         When(<<Shared, "pins">> \notin p.gaps, <<Shared, "lookup">>)
                    [] OTHER -> {})

(* What a check says of the workspace before it visits the repositories.   *)
Overall(c, remote, w) ==
  CASE c = "agents" -> AgentsReport(w)
    [] c \in {"versions", "deps", "usage"} ->
         Add(Scan(w), Report({}, When(c = "versions" /\ ~w.pins, <<Shared, "pins">>)))
    [] c \in {"upstream", "merges"} /\ ~remote -> Report({}, {<<Shared, "--remote">>})
    [] c = "upstream" /\ remote -> Report({}, When(~w.pins, <<Shared, "pins">>))
    [] c = "tests" \/ (c = "merges" /\ remote) -> Manifest(w)
    [] OTHER -> Empty

(* The repositories a check visits: none where the manifest cannot be      *)
(* read.  resolvedPackages, for upstream, says nothing of that.            *)
Visits(c, remote, w) ==
  { r \in Repos :
      /\ w.manifest
      /\ CASE c = "versions" -> w.pins /\ tree[r].cloned
           [] c \in {"deps", "usage"} -> tree[r].cloned
           [] c \in {"upstream", "merges"} -> remote
           [] c = "tests" -> TRUE
           [] OTHER -> FALSE }

-----------------------------------------------------------------------------
(* allowedBy; a file that does not parse holds no exceptions. *)
AllowedBy(f) == f[1] \in rules.excepted

(* The checks that call ApplyExceptions. *)
Exceptable == {"versions", "deps", "usage"}

(* Mutant: the file of exceptions is not read. *)
ApplyNoExceptions(p, c) == p

(* An excepted error is information. *)
ApplyExceptions(p, c) ==
  IF c \notin Exceptable THEN p
  ELSE [ p EXCEPT !.findings =
           { IF f[2] = "ERROR" /\ AllowedBy(f)
             THEN <<f[1], "INFO", f[3]>> ELSE f : f \in p.findings } ]

(* Mutant: the date is only warned about. *)
CoversExpired(e, c, gap) == e.check = c /\ e.what = gap[2]

(* acceptedEntryExpired, and an entry that matches nothing. *)
Covers(e, c, gap) == e.check = c /\ ~e.expired /\ e.what = gap[2]

ApplyAccepted(p, c) ==
  LET covered == {g \in p.gaps : \E e \in rules.accepted : Covers(e, c, g)}
  IN  [ findings |-> p.findings \union
          { <<"audit", "WARN", c>> : e \in {x \in rules.accepted : x.check = c /\ x.expired} },
        gaps |-> p.gaps \ covered,
        accepted |-> p.accepted \union {<<c, g>> : g \in covered} ]

(* Mutant: what could not be verified comes first. *)
ExitCodeGapsFirst(p) ==
  IF p.gaps # {} THEN 2
  ELSE IF \E f \in p.findings : f[2] = "ERROR" THEN 1 ELSE 0

ExitCode(p) ==
  IF \E f \in p.findings : f[2] = "ERROR" THEN 1
  ELSE IF p.gaps # {} THEN 2 ELSE 0

-----------------------------------------------------------------------------
(* What is wrong with the workspace, as <<check, subject>>, and what       *)
(* cannot be told of it, as <<check, subject, what>>, in words of its own. *)
Defects(t, w) ==
  {<<"versions", r>> : r \in {x \in Repos : t[x].cloned /\ t[x].pins = "drift"}}
  \union
  {<<"deps", r>> : r \in {x \in Repos : /\ t[x].cloned /\ t[x].pins # "invalid"
                                        /\ t[x].deps = "floating"}}
  \union
  {<<"upstream", r>> : r \in {x \in Repos : /\ t[x].cloned /\ t[x].advisory
                                            /\ t[x].lock # "none"}}
  \union {<<"merges", r>> : r \in {x \in Repos :
                                   t[x].merges \in {"failed", "unsettled", "unchecked"}}}
  \union When(w.gates = "findings" \/ w.recall = "low", <<"agents", Shared>>)

(* The checks that go through the repositories of the manifest. *)
PerRepo == {"versions", "deps", "usage", "tests", "upstream", "merges"}

UnseenIn(r, x, w) ==
  {<<c, r, "not cloned">> : c \in {k \in {"versions", "deps", "usage"} : ~x.cloned}}
  \union When(~x.cloned, <<"tests", r, "not cloned (tests)">>)
  \union {<<c, r, "package.json">> :
             c \in {k \in {"versions", "deps"} : x.cloned /\ x.pins = "invalid"}}
  \union When(~w.network \/ x.merges = "unread", <<"merges", r, "merges">>)
  \union When(~w.network /\ x.cloned /\ x.lock # "none", <<"upstream", r, "osv">>)

Unseen(t, w) ==
  (UNION {UnseenIn(r, t[r], w) : r \in Repos})
  \union {<<c, Shared, "manifest">> : c \in {k \in PerRepo : ~w.manifest}}
  \union {<<c, Shared, "pins">> : c \in {k \in {"versions", "upstream"} : ~w.pins}}
  \union When(~w.network /\ w.pins, <<"upstream", Shared, "lookup">>)
  \union When(w.gates = "unverified", <<"agents", Shared, "check-all">>)
  \union When(w.gates = "absent", <<"agents", Shared, "check-all missing">>)
  \union When(w.mcp = "unverified", <<"agents", Shared, "mcp">>)
  \union When(w.recall = "silent", <<"agents", Shared, "recall">>)
  \union When(~w.editors, <<"agents", Shared, "editor">>)

Facts(t, w) ==
  {<<"defect", d>> : d \in Defects(t, w)} \union {<<"unseen", u>> : u \in Unseen(t, w)}

Remember ==
  /\ steady' = steady \intersect Facts(tree', world')
  /\ ever' = ever \union Facts(tree', world')

Watched == UNCHANGED <<tree, world, rules, steady, ever, changes>>

-----------------------------------------------------------------------------
Idle == [at |-> "idle", todo |-> <<>>, remote |-> FALSE, left |-> {}, read |-> {},
         ran |-> {}, code |-> 0]

(* One aspect of one repository, or one of the world, is not clean.        *)
Init ==
  /\ \/ /\ tree = [r \in Repos |-> Clean]
        /\ \E f \in DOMAIN Plain : \E v \in WorldValues[f] :
             world = [Plain EXCEPT ![f] = v]
     \/ /\ \E r \in Repos, a \in DOMAIN Values : \E v \in Values[a] :
             tree = [x \in Repos |-> IF x = r THEN [Clean EXCEPT ![a] = v] ELSE Clean]
        /\ world = Plain
  /\ rules \in RuleSets
  /\ job = Idle
  /\ page = Empty
  /\ report = Empty
  /\ steady = {}
  /\ ever = {}
  /\ changes = 0

(* Somebody edits, clones or removes a repository, merges a pull request,  *)
(* comments one, or changes the handbook; the network comes and goes.      *)
Change ==
  /\ job.at # "idle" /\ changes < MaxChanges
  /\ \/ /\ \E r \in Repos, a \in DOMAIN Values : \E v \in Values[a] :
             tree' = [tree EXCEPT ![r][a] = v]
        /\ UNCHANGED world
     \/ /\ \E f \in DOMAIN Plain : \E v \in WorldValues[f] :
             world' = [world EXCEPT ![f] = v]
        /\ UNCHANGED tree
  /\ Remember
  /\ changes' = changes + 1
  /\ UNCHANGED <<rules, job, page, report>>

Start(todo, remote) ==
  /\ job.at = "idle"
  /\ job' = [Idle EXCEPT !.at = "next", !.todo = todo, !.remote = remote]
  /\ report' = Empty
  /\ page' = Empty
  /\ steady' = Facts(tree, world)
  /\ ever' = Facts(tree, world)
  /\ UNCHANGED <<tree, world, rules, changes>>

Check == Head(job.todo)

Begin ==
  /\ job.at = "next" /\ job.todo # <<>>
  /\ page' = Overall(Check, job.remote, world)
  /\ job' = [ job EXCEPT !.at = "visit", !.read = {},
                !.left = Visits(Check, job.remote, world) ]
  /\ UNCHANGED report
  /\ Watched

Visit ==
  /\ job.at = "visit" /\ job.left # {}
  /\ LET r == CHOOSE x \in job.left : TRUE
     IN  /\ page' = Add(page, Sensor(Check, r, tree[r], world))
         /\ job' = [ job EXCEPT !.left = @ \ {r},
                       !.read = IF Check = "upstream" THEN @ \union Packages(r, tree[r])
                                ELSE @ ]
  /\ UNCHANGED report
  /\ Watched

(* addAdvisoryFindings. *)
Ask ==
  /\ job.at = "visit" /\ job.left = {} /\ Check = "upstream"
  /\ page' = Add(page, Advisories(job.read, world))
  /\ job' = [job EXCEPT !.at = "asked"]
  /\ UNCHANGED report
  /\ Watched

(* The last lookups, the deferred applyAccepted, and Report.Merge. *)
Finish ==
  /\ job.at \in {"visit", "asked"} /\ job.left = {}
  /\ Check = "upstream" => job.at = "asked"
  /\ LET p == IF job.remote THEN Add(page, Lookups(Check, page, world)) ELSE page
     IN  report' = Add(report, ApplyAccepted(ApplyExceptions(p, Check), Check))
  /\ job' = [ job EXCEPT !.at = "next", !.todo = Tail(@),
                !.ran = @ \union {Check} ]
  /\ page' = Empty
  /\ Watched

(* runAudit with auditFailure. *)
Exit ==
  /\ job.at = "next" /\ job.todo = <<>>
  /\ job' = [job EXCEPT !.at = "done", !.code = ExitCode(report)]
  /\ UNCHANGED <<page, report>>
  /\ Watched

Next ==
  \/ Change
  \/ \E remote \in BOOLEAN : Start(IF remote THEN Remote ELSE Local, remote)
  \/ \E c \in PerRepo \union {"agents"}, remote \in BOOLEAN :
       (remote => c \in Remotable) /\ Start(<<c>>, remote)
  \/ Begin
  \/ Visit
  \/ Ask
  \/ Finish
  \/ Exit

Spec == Init /\ [][Next]_vars

-----------------------------------------------------------------------------
Severities == {"ERROR", "WARN", "INFO"}

TypeOK ==
  /\ \A r \in Repos : \A a \in DOMAIN Values : tree[r][a] \in Values[a]
  /\ \A f \in DOMAIN Plain : world[f] \in WorldValues[f]
  /\ job.at \in {"idle", "next", "visit", "asked", "done"}
  /\ job.left \subseteq Repos
  /\ job.code \in 0..2
  /\ \A f \in page.findings \union report.findings : f[2] \in Severities
  /\ changes \in 0..MaxChanges

Excepted(d) == d[1] \in Exceptable \intersect rules.excepted

Answered(code) == job.at = "done" /\ job.code = code

(* The gaps g that stand for the fact f: what could not be seen, named as  *)
(* such, or what keeps a check from finding the defects of its kind.       *)
Hides(g, f) ==
  /\ g[1] \in {f[2][2], Shared}
  /\ \/ g[2] \in {"--remote", "manifest"}
     \/ f[1] = "unseen" /\ g[2] = f[2][3]
     \/ f[2][1] = "versions" /\ g[2] = "pins"
     \/ f[2][1] = "upstream" /\ g[2] = "osv"
     \/ f[2][1] = "merges" /\ g[2] = "merges"

NoManifest(c) == <<"unseen", <<c, Shared, "manifest">>>>

(* What upstream may be silent about: everything of the repositories, once *)
(* it could not read the manifest.                                         *)
Blind(f) ==
  /\ f[2][1] = "upstream"
  /\ NoManifest("upstream") \in ever
  /\ f[2][2] # Shared \/ f = NoManifest("upstream")

(* Exit code 0 is evidence: whatever was wrong all through the command,    *)
(* or could not be seen all through it, is excepted, or the gap that hid   *)
(* it is accepted by name and in time; except for advisories, where the    *)
(* manifest could not be read at some time.                                *)
ZeroIsClean ==
  Answered(0) =>
    \A f \in steady : f[2][1] \in job.ran =>
      \/ Blind(f)
      \/ f[1] = "defect" /\ Excepted(f[2])
      \/ \E a \in report.accepted, e \in rules.accepted :
           /\ a[1] = f[2][1] /\ Hides(a[2], f)
           /\ e.check = a[1] /\ e.what = a[2][2] /\ ~e.expired

(* Exit code 1 accuses for a reason: something was wrong in a check that   *)
(* ran, at some time of the command, and no exception covers it.           *)
OneIsWrong ==
  Answered(1) =>
    \E f \in ever : f[1] = "defect" /\ f[2][1] \in job.ran /\ ~Excepted(f[2])

(* What can be seen of a defect could be seen all through the command. *)
Visible(d) ==
  ~ \E f \in ever : f[1] = "unseen" /\ f[2][1] = d[1] /\ f[2][2] \in {d[2], Shared}

(* An error that is there all through the command, is not excepted and can *)
(* be seen makes exit code 1, whatever else cannot be verified.            *)
ErrorsAreTold ==
  job.at = "done" =>
    \A d \in Defects(tree, world) :
      ( /\ d[1] \in job.ran
        /\ d[1] \in {"upstream", "merges"} => job.remote
        /\ <<"defect", d>> \in steady
        /\ ~Excepted(d) /\ Visible(d) ) => job.code = 1

(* docs/cli/orbit_audit.md:7: code 2 where something could not be          *)
(* verified.  A bypass beyond the 200 pull requests gh lists, a gate that  *)
(* failed without a finding, and for upstream alone a manifest that cannot *)
(* be read, are passed over.                                               *)
NothingIsPassedOver ==
  Answered(0) =>
    /\ "agents" \in job.ran /\ changes = 0 => world.gates # "mute"
    /\ "merges" \in job.ran /\ changes = 0 =>
         \A r \in Repos : tree[r].merges # "beyond"
    /\ "upstream" \in job.ran /\ changes = 0 => world.manifest

=============================================================================
