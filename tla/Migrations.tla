----------------------------- MODULE Migrations -----------------------------
(***************************************************************************)
(* orbit migrate, also run by init: the engine that applies a list of      *)
(* migrations to a workspace and keeps what it applied in                  *)
(* .orbit/migrations.json, in several terminals at a time.  The list is    *)
(* empty at this commit (GetBuiltinMigrations); the engine takes any.      *)
(*                                                                         *)
(* A migration is external: it works, or fails and changes nothing.  The   *)
(* state file is written in place: a kill may leave it cut, two writers at *)
(* a time may leave what does not parse, and a reader may see half of it.  *)
(***************************************************************************)
EXTENDS Naturals, Sequences

CONSTANTS
  Terminals,
  Count,          \* number of migrations; the list is 1..Count
  MaxRuns         \* bound: runs of one migration

VARIABLES
  state,          \* .orbit/migrations.json: IDs in order, or Cut
  ran,            \* migration -> times its Run returned without error
  job             \* terminal -> its Apply

vars == <<state, ran, job>>

List == 1..Count

(* next: where the loop stands; own: the record the command loaded and     *)
(* appends to.                                                             *)
Idle == [at |-> "idle", next |-> 1, own |-> <<>>]

Cut == <<0>>    \* bytes that do not parse; no migration is 0

IsApplied(s, m) == \E i \in DOMAIN s : s[i] = m

-----------------------------------------------------------------------------
Init ==
  /\ state = <<>>
  /\ ran = [m \in List |-> 0]
  /\ job = [t \in Terminals |-> Idle]

Writing(u) == job[u].at = "save"

(* LoadState: a cut file does not parse, and nothing is applied. *)
Load(t) ==
  /\ job[t].at \in {"idle", "ok", "failed"}
  /\ \/ /\ state = Cut \/ \E u \in Terminals : Writing(u)
        /\ job' = [job EXCEPT ![t] = [Idle EXCEPT !.at = "failed"]]
     \/ /\ state # Cut
        /\ job' = [job EXCEPT ![t] = [at |-> "loop", next |-> 1, own |-> state]]
  /\ UNCHANGED <<state, ran>>

Skip(t) ==
  /\ job[t].at = "loop" /\ job[t].next \in List
  /\ IsApplied(job[t].own, job[t].next)
  /\ job' = [job EXCEPT ![t].next = @ + 1]
  /\ UNCHANGED <<state, ran>>

(* Mutant: a failed migration is recorded like one that worked. *)
RunFailsUnnoticed(t) ==
  /\ job[t].at = "loop" /\ job[t].next \in List
  /\ ~IsApplied(job[t].own, job[t].next)
  /\ job' = [job EXCEPT ![t].at = "save"]
  /\ UNCHANGED <<state, ran>>

RunFails(t) ==
  /\ job[t].at = "loop" /\ job[t].next \in List
  /\ ~IsApplied(job[t].own, job[t].next)
  /\ job' = [job EXCEPT ![t].at = "failed"]
  /\ UNCHANGED <<state, ran>>

Run(t) ==
  /\ job[t].at = "loop" /\ job[t].next \in List
  /\ ~IsApplied(job[t].own, job[t].next)
  /\ ran[job[t].next] < MaxRuns
  /\ ran' = [ran EXCEPT ![job[t].next] = @ + 1]
  /\ job' = [job EXCEPT ![t].at = "save"]
  /\ UNCHANGED state

(* SaveState after each migration; a write that fails, before or half way, *)
(* ends the command.                                                       *)
Save(t) ==
  /\ Writing(t)
  /\ LET own == Append(job[t].own, job[t].next)
     IN \/ /\ \/ state' = own
              \/ state' = Cut /\ \E u \in Terminals \ {t} : Writing(u)
           /\ job' = [job EXCEPT ![t] =
                        [at |-> "loop", next |-> @.next + 1, own |-> own]]
        \/ /\ state' \in {state, Cut}
           /\ job' = [job EXCEPT ![t].at = "failed"]
  /\ UNCHANGED ran

Finish(t) ==
  /\ job[t].at = "loop" /\ job[t].next > Count
  /\ job' = [job EXCEPT ![t].at = "ok"]
  /\ UNCHANGED <<state, ran>>

(* A kill: between a migration and its record, or while that is written. *)
Kill(t) ==
  /\ job[t].at \in {"loop", "save"}
  /\ job' = [job EXCEPT ![t] = Idle]
  /\ state' \in IF Writing(t) THEN {state, Cut} ELSE {state}
  /\ UNCHANGED ran

Next ==
  \E t \in Terminals :
    Load(t) \/ Skip(t) \/ Run(t) \/ RunFails(t) \/ Save(t) \/ Finish(t) \/ Kill(t)

Spec == Init /\ [][Next]_vars

-----------------------------------------------------------------------------
TypeOK ==
  /\ state = Cut \/ state \in Seq(List)
  /\ ran \in [List -> 0..MaxRuns]
  /\ job \in [Terminals -> [at : {"idle", "loop", "save", "ok", "failed"},
                            next : 1..(Count + 1), own : Seq(List)]]

(* The record runs behind the migrations, never ahead of them, and in the  *)
(* order of the list without a gap or a repetition: what a later command   *)
(* skips has run, whichever terminal was killed or overwrote the record of *)
(* the other.                                                              *)
RecordedHasRun ==
  state # Cut =>
    /\ \A i \in DOMAIN state : state[i] = i /\ ran[i] > 0

(* Who reports that nothing is left has every migration behind it.         *)
DoneHasRun ==
  \A t \in Terminals : job[t].at = "ok" => \A m \in List : ran[m] > 0

=============================================================================
