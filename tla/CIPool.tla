------------------------------- MODULE CIPool -------------------------------
(***************************************************************************)
(* orbit ci: the switch of private repositories to the self-hosted runners *)
(* of their organization and back, its status, and the push of repository  *)
(* secrets (pkg/ci, cmd/orbit/ci.go).                                      *)
(*                                                                         *)
(* One terminal runs commands, and others change GitHub meanwhile, with    *)
(* this program or without.  Every call of gh is a step of its own that    *)
(* may fail, before or after GitHub did what it asks.                      *)
(* Values of secrets are numbers, 0 the empty one; of the workflow's lines *)
(* of output nothing is kept.                                              *)
(***************************************************************************)
EXTENDS Naturals, Sequences

CONSTANTS
  None,
  Repos,            \* the repositories of workspace.yaml, in order
  CISecrets,        \* [repository -> the sequence of its secrets' names]
  DeployKeySecret,
  MaxChanges        \* bound: changes made by others

VARIABLES
  owner,     \* [repository -> its GitHub organization, or None: no slug]
  hub,       \* GitHub: [repository -> [private, runner, secrets]]
  online,    \* organizations with an online runner that has the label
  source,    \* the file of secrets: [mode, value]
  keys,      \* [repository -> its deploy key file, or None]
  job,       \* the command that runs
  changes

vars == <<owner, hub, online, source, keys, job, changes>>

Names == DOMAIN owner

Organizations(repos) == {owner[repos[i]] : i \in DOMAIN repos}

(* Organization: the owner shared by all of repos, if there is one. *)
HasOrganization(repos) == \E org \in Organizations(repos) : Organizations(repos) = {org}

Organization(repos) == CHOOSE org \in Organizations(repos) : TRUE

(* wanted: the one to push to, None for all.  seen: what was private       *)
(* or online at some time of the command.  clean: nobody else has changed  *)
(* GitHub since the command began, when it was before.  absent: those      *)
(* whose variable was taken to be absent.  These serve the properties.     *)
Idle ==
  [ cmd |-> None, at |-> "idle", left |-> <<>>, repos |-> <<>>, wanted |-> None,
    value |-> None, names |-> <<>>, told |-> {}, absent |-> {},
    seen |-> [private |-> {}, online |-> {}], clean |-> TRUE, before |-> None ]

Private == {r \in Names : hub[r].private}

Started(cmd) ==
  [ Idle EXCEPT !.cmd = cmd, !.seen = [private |-> Private, online |-> online],
                !.before = hub ]

-----------------------------------------------------------------------------
(* The file of secrets gives every name but the deploy key's the same      *)
(* value, 0 standing for no line too; None: there is no file, or one with  *)
(* a line without "=".                                                     *)
Init ==
  /\ owner \in [{Repos[i] : i \in DOMAIN Repos} -> {None, "orbit", "other"}]
  /\ owner[Repos[1]] = "orbit"
  /\ hub \in [Names -> [private : BOOLEAN, runner : {None, "vps"}, secrets : {<<>>}]]
  /\ online \in SUBSET {"orbit"}
  /\ source \in [mode : {384}, value : {None, 0, 1}] \cup [mode : {420}, value : {1}]
  /\ keys \in [Names -> {None, 0, 1}]
  /\ \A r \in Names : keys[r] # None =>
       \E i \in DOMAIN CISecrets[r] : CISecrets[r][i] = DeployKeySecret
  /\ job = Idle
  /\ changes = 0

Start(next) ==
  /\ job.at \in {"idle", "done", "failed"}
  /\ job' = next
  /\ UNCHANGED <<owner, hub, online, source, keys, changes>>

(* PrivateRepos asks for the visibility of one repository after the other. *)
Runner(mode) ==
  Start([Started(mode) EXCEPT !.at = "view", !.left = Repos])

(* A step of the command that changes nothing else. *)
Becomes(next) ==
  /\ job' = next
  /\ UNCHANGED <<owner, hub, online, source, keys, changes>>

Fails == Becomes([job EXCEPT !.at = "failed"])

Onward(j) == [j EXCEPT !.left = Tail(@)]

(* A repository that is not on GitHub is passed over. *)
View ==
  /\ job.at = "view" /\ job.left # <<>>
  /\ LET r == Head(job.left) IN
     \/ Becomes(IF owner[r] # None /\ hub[r].private
                THEN [Onward(job) EXCEPT !.repos = Append(@, r)]
                ELSE Onward(job))
     \/ owner[r] # None /\ Fails

(* Mutant: the pool of the first repository's organization will do. *)
PlanFirst(j) ==
  IF j.cmd = "github" \/ j.repos = <<>> THEN "each" ELSE "pool"

(* SetRunner and RunnerStatus: which runners are asked for. *)
Plan(j) ==
  CASE j.cmd = "github" \/ j.repos = <<>> -> "each"
    [] HasOrganization(j.repos) -> "pool"
    [] j.cmd = "vps" -> "failed"
    [] OTHER -> "each"

Viewed ==
  /\ job.at = "view" /\ job.left = <<>>
  /\ Becomes([job EXCEPT !.at = Plan(job), !.left = job.repos])

(* Mutant: the runners need not be online. *)
ReadyAnyway(j) == TRUE

(* OnlineWithLabel, for the repositories that are to be pinned. *)
Ready(j) == Organization(j.repos) \in online

Pool ==
  /\ job.at = "pool"
  /\ \/ /\ job.cmd = "vps" => Ready(job)
        /\ Becomes([job EXCEPT !.at = "each"])
     \/ Fails

-----------------------------------------------------------------------------
(* A call of gh that changes a repository: it succeeds, and next is the    *)
(* command's state; or it fails and ends the command, with its effect or   *)
(* without.                                                                *)
Call(r, after, next) ==
  /\ \E effect \in BOOLEAN, ok \in BOOLEAN :
       /\ ok => effect
       /\ hub' = IF effect THEN [hub EXCEPT ![r] = after] ELSE hub
       /\ job' = IF ok THEN next ELSE [job EXCEPT !.at = "failed"]
  /\ UNCHANGED <<owner, online, source, keys, changes>>

Each(cmd) ==
  job.at = "each" /\ job.cmd = cmd /\ job.left # <<>>

Pin ==
  /\ Each("vps")
  /\ LET r == Head(job.left)
     IN Call(r, [hub[r] EXCEPT !.runner = "vps"], Onward(job))

(* IsMissingVariable looks for "not found" or "http 404" in what gh says:  *)
(* the variable was absent, or the call failed with such words before or   *)
(* after it did what it was to do.  The command goes on.                   *)
Missing(r, after) ==
  /\ \E effect \in BOOLEAN : hub' = IF effect THEN [hub EXCEPT ![r] = after] ELSE hub
  /\ job' = [Onward(job) EXCEPT !.absent = @ \cup {r}]
  /\ UNCHANGED <<owner, online, source, keys, changes>>

(* Mutant: no failure to delete the variable ends the command. *)
UnpinAll ==
  /\ Each("github")
  /\ LET r == Head(job.left)
         after == [hub[r] EXCEPT !.runner = None]
     IN Call(r, after, Onward(job)) \/ Missing(r, after) \/ Becomes(Onward(job))

Unpin ==
  /\ Each("github")
  /\ LET r == Head(job.left)
         after == [hub[r] EXCEPT !.runner = None]
     IN Call(r, after, Onward(job)) \/ Missing(r, after)

(* RunnerStatus goes on to the next repository when the variable cannot be *)
(* read, whether or not it is there.                                       *)
Report ==
  /\ Each("status")
  /\ LET r == Head(job.left)
     IN \/ hub[r].runner # None
           /\ Becomes([Onward(job) EXCEPT !.told = @ \cup {r}])
        \/ Becomes(Onward(job))

Finish ==
  /\ job.at = "each" /\ job.left = <<>>
  /\ Becomes([job EXCEPT !.at = "done"])

-----------------------------------------------------------------------------
(* Mutant: what others may read is accepted. *)
LoadAny == source.value # None

(* LoadSource: 384 is rw-------, 420 rw-r--r--. *)
Loads == source.mode = 384 /\ source.value # None

(* Sync: the repositories that declare secrets, or the one asked for. *)
Selected(r, wanted) == CISecrets[r] # <<>> /\ wanted \in {None, r}

Sync(wanted) ==
  Start(
    IF Loads /\ \E r \in Names : Selected(r, wanted)
    THEN [Started("sync") EXCEPT !.at = "check", !.left = Repos, !.repos = Repos,
                                 !.wanted = wanted, !.value = source.value]
    ELSE [Started("sync") EXCEPT !.at = "failed"])

(* SyncSecrets collects the values of one repository first: a deploy key   *)
(* from its file, another secret from the file of secrets.                 *)
Value(j, r, name) ==
  IF name = DeployKeySecret THEN keys[r] ELSE j.value

(* Mutant: what is missing is left out. *)
ValidAny(j, r) == owner[r] # None

(* A deploy key may be empty, another value may not. *)
Valid(j, r) ==
  /\ owner[r] # None
  /\ \A i \in DOMAIN CISecrets[r] :
       LET name == CISecrets[r][i] IN
       /\ Value(j, r, name) # None
       /\ name # DeployKeySecret => Value(j, r, name) # 0

(* A repository that is not selected is passed over. *)
Collect ==
  /\ job.at = "check" /\ job.left # <<>>
  /\ LET r == Head(job.left) IN
     IF ~Selected(r, job.wanted) THEN Becomes(Onward(job))
     ELSE IF Valid(job, r)
     THEN Becomes([job EXCEPT
            !.at = "put",
            !.names = [ i \in DOMAIN CISecrets[r] |->
                          <<CISecrets[r][i], Value(job, r, CISecrets[r][i])>> ]])
     ELSE Fails

Put ==
  /\ job.at = "put" /\ job.names # <<>>
  /\ LET r == Head(job.left)
         name == Head(job.names)[1]
         value == Head(job.names)[2]
         set == [n \in DOMAIN hub[r].secrets \cup {name} |->
                   IF n = name THEN value ELSE hub[r].secrets[n]]
     IN Call(r, [hub[r] EXCEPT !.secrets = set], [job EXCEPT !.names = Tail(@)])

NextRepo ==
  /\ job.at = "put" /\ job.names = <<>>
  /\ Becomes([Onward(job) EXCEPT !.at = "check"])

Synced ==
  /\ job.at = "check" /\ job.left = <<>>
  /\ Becomes([job EXCEPT !.at = "done"])

-----------------------------------------------------------------------------
(* Others publish or hide a repository, or pin it or not; and the runners  *)
(* come and go.                                                            *)
Others ==
  /\ changes < MaxChanges /\ changes' = changes + 1
  /\ \/ /\ \E r \in Names : hub' \in { [hub EXCEPT ![r].private = ~@],
                                      [hub EXCEPT ![r].runner = "vps"],
                                      [hub EXCEPT ![r].runner = None] }
        /\ UNCHANGED online
     \/ online' = {"orbit"} \ online /\ UNCHANGED hub
  /\ job' = [ job EXCEPT
       !.clean = FALSE,
       !.seen = [ private |-> @.private \cup {r \in Names : hub'[r].private},
                  online |-> @.online \cup online' ] ]
  /\ UNCHANGED <<owner, source, keys>>

Step ==
  \/ \E mode \in {"vps", "github", "status"} : Runner(mode)
  \/ View \/ Viewed \/ Pool
  \/ Pin \/ Unpin \/ Report \/ Finish
  \/ \E wanted \in Names \cup {None} : Sync(wanted)
  \/ Collect \/ Put \/ NextRepo \/ Synced

Next == Others \/ Step

Spec == Init /\ [][Next]_vars

-----------------------------------------------------------------------------
TypeOK ==
  /\ online \subseteq {"orbit"}
  /\ changes \in 0..MaxChanges
  /\ \A r \in Names :
       /\ hub[r].private \in BOOLEAN
       /\ hub[r].runner \in {None, "vps"}
       /\ \A n \in DOMAIN hub[r].secrets : hub[r].secrets[n] \in 0..1
  /\ job.cmd \in {None, "vps", "github", "status", "sync"}
  /\ job.at \in {"idle", "view", "pool", "each", "check", "put", "done", "failed"}
  /\ job.told \cup job.absent \subseteq Names

Undisturbed(cmd) == job.at = "done" /\ job.cmd = cmd /\ job.clean

(* r runs where cmd puts it; or gh said that its variable was not found,    *)
(* and it is as it was.                                                    *)
Switched(r, cmd) ==
  \/ hub[r].runner = IF cmd = "vps" THEN "vps" ELSE None
  \/ /\ cmd = "github" /\ r \in job.absent
     /\ hub[r].runner = job.before[r].runner

(* A switch that reports success, and that nobody interfered with, left    *)
(* every private repository on GitHub as it was to be, but for those where *)
(* gh said "not found", and no other repository changed.                   *)
SwitchIsSo ==
  \A cmd \in {"vps", "github"} :
    Undisturbed(cmd) =>
      \A r \in Names :
        IF owner[r] # None /\ hub[r].private THEN Switched(r, cmd)
        ELSE hub[r] = job.before[r]

(* domain.go:123, refuted: what is taken for a missing variable is one.  A *)
(* delete that failed as not found for another reason, say the repository  *)
(* could not be seen at that moment, is reported as a switch.              *)
NoneIsLeft ==
  Undisturbed("github") =>
    \A r \in Names : owner[r] # None /\ hub[r].private => hub[r].runner = None

(* A push that nobody interfered with works through the repositories in    *)
(* order: those behind it have every secret they declare, with a value     *)
(* that is not empty unless it is a deploy key, and those before it are    *)
(* untouched.  Nothing is pushed from a file that others may read.         *)
PushIsSo ==
  job.cmd = "sync" /\ job.clean =>
    LET all == {job.repos[i] : i \in DOMAIN job.repos}
        chosen == {r \in all : Selected(r, job.wanted)}
        ahead == {job.left[i] : i \in DOMAIN job.left}
        waiting == {r \in ahead : r # Head(job.left)}
    IN /\ \A r \in chosen \ ahead : \A i \in DOMAIN CISecrets[r] :
            LET name == CISecrets[r][i] IN
            /\ name \in DOMAIN hub[r].secrets
            /\ name # DeployKeySecret => hub[r].secrets[name] # 0
       /\ \A r \in (Names \ chosen) \cup waiting : hub[r] = job.before[r]
       /\ hub # job.before => source.mode = 384

(* The command pins a repository to the self-hosted runners only if, at    *)
(* some time since it began, that was private and its organization had     *)
(* such a runner online.                                                   *)
PinnedForAReason ==
  [][ changes' = changes =>
        \A r \in Names :
          hub'[r].runner = "vps" /\ hub[r].runner = None =>
            r \in job.seen.private /\ owner[r] \in job.seen.online ]_vars

(* application.go:212, refuted: when a push fails, the repository it failed *)
(* at is untouched.  gh may fail at the second of its secrets.             *)
UntouchedOnFailure ==
  job.cmd = "sync" /\ job.at = "failed" /\ job.clean =>
    \A i \in DOMAIN job.left : hub[job.left[i]] = job.before[job.left[i]]

=============================================================================
