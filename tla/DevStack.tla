----------------------------- MODULE DevStack -----------------------------
(***************************************************************************)
(* orbit dev: which external command each action runs, and the readiness   *)
(* that dev up reports after it (pkg/dev, cmd/orbit/dev.go).               *)
(*                                                                         *)
(* Each core service has its main port, some a fallback port.  dev up      *)
(* probes all services at the same time, one goroutine each, polling a     *)
(* port until it accepts a connection or the deadline has passed when it   *)
(* looks.  Meanwhile containers come up and go down, another terminal      *)
(* stops the stack, and other programs of the machine listen on a port.    *)
(***************************************************************************)
EXTENDS Naturals

CONSTANTS
  None,
  CoreServices,
  WithFallback,     \* the services that have a fallback port
  MaxChanges        \* bound: changes of who listens

Ports == (CoreServices \X {"main"}) \cup (WithFallback \X {"fallback"})

VARIABLES
  infra,      \* files of the checkout: a subset of "dir", "stack", "tier2", "compose"
  who,        \* [port -> "stack", "other" or None]: who listens
  up,         \* dev up: [at, cmd, probe]
  since,      \* since the probes began: ports open at [some, every] moment
  changes

vars == <<infra, who, up, since, changes>>

Asleep == [port |-> "main", at |-> "ended", ready |-> FALSE]

Open == {p \in Ports : who[p] # None}

Init ==
  /\ infra \in SUBSET {"dir", "stack", "tier2", "compose"}
  /\ infra # {} => "dir" \in infra
  /\ who \in [Ports -> {None, "other"}]
  /\ up = [at |-> "idle", cmd |-> None, probe |-> [s \in CoreServices |-> Asleep]]
  /\ since = [some |-> {}, every |-> {}]
  /\ changes = 0

-----------------------------------------------------------------------------
(* The command that an action runs: a script of the checkout if there is   *)
(* one, or docker compose.  None: the action is refused.                   *)
Compose == IF "compose" \in infra THEN "compose.sh" ELSE "docker compose"

Command(action) ==
  CASE action = "tier2" -> IF "tier2" \in infra THEN "start-tier2.sh" ELSE None
    [] "dir" \notin infra -> None
    [] action = "up" -> IF "stack" \in infra THEN "start-dev-stack.sh" ELSE Compose
    [] action \in {"down", "caddy reload"} -> Compose
    [] action \in {"caddy restart", "caddy logs", "logs"} -> "docker compose"

(* Service.Up waits for the command to end. *)
Up ==
  /\ up.at \in {"idle", "failed", "done"}
  /\ up' = [ up EXCEPT !.cmd = Command("up"),
                       !.at = IF Command("up") = None THEN "failed" ELSE "launch" ]
  /\ UNCHANGED <<infra, who, since, changes>>

Dialing == [port |-> "main", at |-> "dial", ready |-> FALSE]

Launched ==
  /\ up.at = "launch"
  /\ \/ /\ up' = [up EXCEPT !.at = "probe", !.probe = [s \in CoreServices |-> Dialing]]
        /\ since' = [some |-> Open, every |-> Open]
     \/ /\ up' = [up EXCEPT !.at = "failed"]
        /\ UNCHANGED since
  /\ UNCHANGED <<infra, who, changes>>

Probe(s, next) ==
  /\ up' = [up EXCEPT !.probe[s] = next]
  /\ UNCHANGED <<infra, who, since, changes>>

(* Probe.Wait: one attempt to connect. *)
Dial(s) ==
  /\ up.at = "probe" /\ up.probe[s].at = "dial"
  /\ LET p == up.probe[s] IN
     Probe(s, IF <<s, p.port>> \in Open THEN [p EXCEPT !.at = "ended", !.ready = TRUE]
              ELSE [p EXCEPT !.at = "deadline"])

(* Mutant: the port is the fallback's once it has been tried. *)
GiveUpFallback(s, p) ==
  IF p.port = "main" /\ s \in WithFallback
  THEN [p EXCEPT !.port = "fallback", !.at = "ended", !.ready = TRUE]
  ELSE [p EXCEPT !.at = "ended"]

(* When the time is over the fallback port is tried for as long again; a   *)
(* service that answers on neither keeps its main port in the report.      *)
GiveUp(s, p) ==
  IF p.port = "main" /\ s \in WithFallback
  THEN [p EXCEPT !.port = "fallback", !.at = "dial"]
  ELSE [p EXCEPT !.port = "main", !.at = "ended"]

(* The deadline is compared after a failed attempt. *)
Deadline(s) ==
  /\ up.at = "probe" /\ up.probe[s].at = "deadline"
  /\ \/ Probe(s, [up.probe[s] EXCEPT !.at = "dial"])
     \/ Probe(s, GiveUp(s, up.probe[s]))

(* Up returns no error, whatever the probes found. *)
Report ==
  /\ up.at = "probe" /\ \A s \in CoreServices : up.probe[s].at = "ended"
  /\ up' = [up EXCEPT !.at = "done"]
  /\ UNCHANGED <<infra, who, since, changes>>

-----------------------------------------------------------------------------
(* Who listens changes.  The containers are there once a command to start  *)
(* them was run; "down", in another terminal, takes all of them away.      *)
Listen(who2) ==
  /\ changes < MaxChanges /\ changes' = changes + 1
  /\ who' = who2
  /\ since' = [ some |-> since.some \cup {p \in Ports : who2[p] # None},
                every |-> since.every \cap {p \in Ports : who2[p] # None} ]
  /\ UNCHANGED <<infra, up>>

ContainerUp ==
  \E p \in Ports : up.cmd # None /\ who[p] = None /\ Listen([who EXCEPT ![p] = "stack"])

ContainerDown ==
  \E p \in Ports : who[p] = "stack" /\ Listen([who EXCEPT ![p] = None])

Down ==
  /\ Command("down") # None
  /\ \E p \in Ports : who[p] = "stack"
  /\ Listen([p \in Ports |-> IF who[p] = "stack" THEN None ELSE who[p]])

(* dev caddy restart, in another terminal: Caddy has the fallback port. *)
Restart ==
  /\ Command("caddy restart") # None
  /\ \E s \in WithFallback :
       /\ \E kind \in {"main", "fallback"} : who[<<s, kind>>] = "stack"
       /\ Listen([p \in Ports |-> IF p[1] = s /\ who[p] = "stack" THEN None ELSE who[p]])

Elsewhere ==
  \E p \in Ports : who[p] # "stack"
    /\ Listen([who EXCEPT ![p] = IF @ = None THEN "other" ELSE None])

Next ==
  \/ Up \/ Launched
  \/ \E s \in CoreServices : Dial(s) \/ Deadline(s)
  \/ Report
  \/ ContainerUp \/ ContainerDown \/ Down \/ Restart \/ Elsewhere

Spec == Init /\ [][Next]_vars

-----------------------------------------------------------------------------
TypeOK ==
  /\ who \in [Ports -> {None, "stack", "other"}]
  /\ up.at \in {"idle", "launch", "probe", "done", "failed"}
  /\ up.cmd \in {None, "start-dev-stack.sh", "compose.sh", "docker compose"}
  /\ up.probe \in [CoreServices -> [port : {"main", "fallback"},
                                    at : {"dial", "deadline", "ended"}, ready : BOOLEAN]]
  /\ changes \in 0..MaxChanges

(* A service said to be ready had somebody listening on the port reported  *)
(* at some moment since the probes began; one whose port was open at every *)
(* moment is said to be ready.                                             *)
ReadinessIsSo ==
  up.at \in {"probe", "done"} =>
    \A s \in CoreServices :
      LET p == up.probe[s] IN
      p.at = "ended" =>
        /\ p.ready => <<s, p.port>> \in since.some
        /\ ~p.ready => {<<s, "main">>, <<s, "fallback">>} \cap since.every = {}

(* What the documentation says, refuted: dev up --wait waits for the core  *)
(* services;                                                               *)
WaitedForStack ==
  up.at = "done" => \A s \in CoreServices : up.probe[s].ready

(* and what is ready is the stack's.                                       *)
ReadyIsStack ==
  up.at = "done" /\ changes = 0 =>
    \A s \in CoreServices :
      up.probe[s].ready => who[<<s, up.probe[s].port>>] = "stack"

=============================================================================
