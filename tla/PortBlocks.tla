----------------------------- MODULE PortBlocks -----------------------------
(***************************************************************************)
(* orbit port: the block of ports every project has, and the search for a  *)
(* free port in it while other processes bind and free ports.              *)
(*                                                                         *)
(* Nothing is reserved: a suggestion may be bound by somebody else before  *)
(* it is read.  BasePort is computed in 64 bits; project IDs are below the *)
(* ones for which it overflows.                                            *)
(***************************************************************************)
EXTENDS Integers

CONSTANTS
  BasePortOffset, BlockSize,
  DynamicSlotStart,
  MaxPort,          \* 65535
  Projects          \* project IDs

ASSUME PortAssumption ==
  /\ BasePortOffset \in Nat \ {0}
  /\ BlockSize \in Nat /\ DynamicSlotStart \in 0..BlockSize
  /\ MaxPort \in Nat
  /\ Projects \subseteq Nat

VARIABLES
  bound,            \* ports other processes listen on
  find,             \* the command: orbit port allocate
  busy              \* ports that were bound at some time of the command

vars == <<bound, find, busy>>

BasePort(p) == BasePortOffset + p * BlockSize

(* GetProjectRange. *)
RangeEnd(p) == BasePort(p) + BlockSize - 1

Block(p) == BasePort(p)..RangeEnd(p)

Dynamic(p) == (BasePort(p) + DynamicSlotStart)..RangeEnd(p)

(* netprobe: a port can be bound on the loopback. *)
Available(port) == port \in 1..MaxPort /\ port \notin bound

-----------------------------------------------------------------------------
Init ==
  /\ bound = {}
  /\ find \in [at : {"idle"}, project : Projects, next : {0}, inUse : {{}}]
  /\ busy = {}

(* Scan gives up on a block that does not end below MaxPort, without an    *)
(* error: its result is empty.                                             *)
Begin(p) ==
  /\ find.at \in {"idle", "ok", "failed"}
  /\ find' = [ at |-> IF RangeEnd(p) > MaxPort THEN "probe" ELSE "scan",
               project |-> p,
               next |-> IF RangeEnd(p) > MaxPort
                        THEN BasePort(p) + DynamicSlotStart ELSE BasePort(p),
               inUse |-> {} ]
  /\ busy' = bound
  /\ UNCHANGED bound

ScanPort ==
  /\ find.at = "scan" /\ find.next <= RangeEnd(find.project)
  /\ find' = [find EXCEPT
                !.next = @ + 1,
                !.inUse = IF Available(find.next) THEN @
                          ELSE @ \union {find.next}]
  /\ UNCHANGED <<bound, busy>>

Scanned ==
  /\ find.at = "scan" /\ find.next > RangeEnd(find.project)
  /\ find' = [find EXCEPT
                !.at = "probe",
                !.next = BasePort(find.project) + DynamicSlotStart]
  /\ UNCHANGED <<bound, busy>>

(* Mutant: what the scan found is believed. *)
ProbePortTrusting ==
  /\ find.at = "probe" /\ find.next <= RangeEnd(find.project)
  /\ find' = IF find.next \notin find.inUse
             THEN [find EXCEPT !.at = "ok"]
             ELSE [find EXCEPT !.next = @ + 1]
  /\ UNCHANGED <<bound, busy>>

(* AllocateDynamic: the lowest dynamic port the scan did not find in use   *)
(* and that can be bound now.                                              *)
ProbePort ==
  /\ find.at = "probe" /\ find.next <= RangeEnd(find.project)
  /\ find' = IF find.next \notin find.inUse /\ Available(find.next)
             THEN [find EXCEPT !.at = "ok"]
             ELSE [find EXCEPT !.next = @ + 1]
  /\ UNCHANGED <<bound, busy>>

Exhausted ==
  /\ find.at = "probe" /\ find.next > RangeEnd(find.project)
  /\ find' = [find EXCEPT !.at = "failed"]
  /\ UNCHANGED <<bound, busy>>

Bind(port) ==
  /\ port \notin bound
  /\ bound' = bound \union {port}
  /\ busy' = busy \union {port}
  /\ UNCHANGED find

Free(port) ==
  /\ port \in bound
  /\ bound' = bound \ {port}
  /\ UNCHANGED <<find, busy>>

Next ==
  \/ \E p \in Projects : Begin(p)
  \/ ScanPort
  \/ Scanned
  \/ ProbePort
  \/ Exhausted
  \/ \E port \in 1..MaxPort : Bind(port) \/ Free(port)

Spec == Init /\ [][Next]_vars

-----------------------------------------------------------------------------
TypeOK ==
  /\ bound \subseteq 1..MaxPort
  /\ busy \subseteq 1..MaxPort
  /\ find \in [ at : {"idle", "scan", "probe", "ok", "failed"},
                project : Projects, next : Nat, inUse : SUBSET Nat ]

(* A port below the suggestion was out of reach: bound at some time of the *)
(* command, or no port at all.                                             *)
PassedOver(port) == port \in busy \/ port > MaxPort

(* port allocate suggests the lowest free dynamic port of the project's    *)
(* own block, and gives up only when every one of them was in use at some  *)
(* time of the search, however ports come and go between the scan and the  *)
(* probe and wherever the block lies.                                      *)
SuggestionIsLowest ==
  /\ find.at = "ok" =>
       /\ find.next \in Dynamic(find.project) /\ find.next \in 1..MaxPort
       /\ \A port \in Dynamic(find.project) :
            port < find.next => PassedOver(port)
  /\ find.at = "failed" =>
       \A port \in Dynamic(find.project) : PassedOver(port)

=============================================================================
