---------------------------- MODULE RateLimiter ----------------------------
(***************************************************************************)
(* The sliding-window limiter of orbit-server, for one key on one route:   *)
(* ratelimit.Limiter.AllowKey and the handler that turns its answer into   *)
(* a Retry-After header.                                                   *)
(*                                                                         *)
(* A request reads the clock first.  With a store it then counts the       *)
(* events of its window and, in a second statement, records its own; each  *)
(* may fail, and other requests run in between.  Without one it decides    *)
(* in a single critical section, but with the clock it read before it      *)
(* waited for the mutex, so stamps need not arrive in order.               *)
(* Limiter.Prune has no caller and is left out.                            *)
(***************************************************************************)
EXTENDS Naturals, FiniteSets

CONSTANTS
  Requests,       \* the requests that may ever arrive for the key
  Modes,          \* {TRUE}: there is a RateLimitStore, {FALSE}: there is none
  Limit,          \* admissions per window
  Window,         \* length of the window, in ticks
  MaxTime,        \* bound: the clock stops here
  MaxInFlight     \* bound: requests inside AllowKey at the same time

ASSUME LimiterAssumption ==
  /\ Modes \subseteq BOOLEAN
  /\ Limit \in Nat \ {0}
  /\ Window \in Nat \ {0}
  /\ MaxTime \in Nat
  /\ MaxInFlight \in Nat \ {0}

VARIABLES
  persistent,     \* whether NewLimiter was given a store
  now,            \* the server's clock
  events,         \* the key's events, one per request: when each was inserted,
                  \* counting insertions from 1; 0: there is none
  phase,          \* where each request is in AllowKey, or its outcome
  stamp,          \* the clock each request read
  retryAt,        \* history: when each refused request was told to retry
  appended,       \* history: how many events were ever inserted
  seen            \* history: that number, when each request was refused

vars == <<persistent, now, events, phase, stamp, retryAt, appended, seen>>

Phases == {"new", "stamped", "counted", "admitted", "refused", "failed"}

InFlight == { r \in Requests : phase[r] \in {"stamped", "counted"} }
Admitted == { r \in Requests : phase[r] = "admitted" }
Kept == { r \in Requests : events[r] # 0 }

(* t lies in the window that ends at s: the query's timestamp >= since, or *)
(* time.After(cutoff) in memory.  Written without negative times.          *)
InWindow(t, s) == IF persistent THEN t + Window >= s ELSE t + Window > s

Valid(s) == { r \in Kept : InWindow(stamp[r], s) }

(* CountEventsSince *)
Count(s) == Cardinality(Valid(s))

-----------------------------------------------------------------------------
Init ==
  /\ persistent \in Modes
  /\ now = 0
  /\ events = [r \in Requests |-> 0]
  /\ phase = [r \in Requests |-> "new"]
  /\ stamp = [r \in Requests |-> 0]
  /\ retryAt = [r \in Requests |-> 0]
  /\ appended = 0
  /\ seen = [r \in Requests |-> 0]

(* AllowKey reads the clock. *)
Stamp(r) ==
  /\ phase[r] = "new"
  /\ Cardinality(InFlight) < MaxInFlight
  /\ phase' = [phase EXCEPT ![r] = "stamped"]
  /\ stamp' = [stamp EXCEPT ![r] = now]
  /\ UNCHANGED <<persistent, now, events, retryAt, appended, seen>>

(* Mutant: every refused request is told to come back in a tick. *)
RefuseForATick(r, retryAfter) ==
  /\ phase' = [phase EXCEPT ![r] = "refused"]
  /\ retryAt' = [retryAt EXCEPT ![r] = now + 1]
  /\ seen' = [seen EXCEPT ![r] = appended]

(* The answer 429 with Retry-After: the handler rounds up by one. *)
Refuse(r, retryAfter) ==
  /\ phase' = [phase EXCEPT ![r] = "refused"]
  /\ retryAt' = [retryAt EXCEPT ![r] = now + retryAfter + 1]
  /\ seen' = [seen EXCEPT ![r] = appended]

(* The event carries the stamp of its request.  Without a store what the   *)
(* request found outside its window goes.                                  *)
Insert(r, kept) ==
  /\ events' = [q \in Requests |-> IF q = r THEN appended + 1
                                   ELSE IF q \in kept THEN events[q] ELSE 0]
  /\ appended' = appended + 1

(* Mutant: one more than the limit is let through. *)
StoreCountOneMore(r) ==
  /\ persistent
  /\ phase[r] = "stamped"
  /\ Count(stamp[r]) <= Limit
  /\ phase' = [phase EXCEPT ![r] = "counted"]
  /\ UNCHANGED <<persistent, now, events, stamp, retryAt, appended, seen>>

(* The store's count, below the limit ... *)
StoreCount(r) ==
  /\ persistent
  /\ phase[r] = "stamped"
  /\ Count(stamp[r]) < Limit
  /\ phase' = [phase EXCEPT ![r] = "counted"]
  /\ UNCHANGED <<persistent, now, events, stamp, retryAt, appended, seen>>

(* ... or at it: come back after a whole window. *)
StoreRefuse(r) ==
  /\ persistent
  /\ phase[r] = "stamped"
  /\ Count(stamp[r]) >= Limit
  /\ Refuse(r, Window)
  /\ UNCHANGED <<persistent, now, events, stamp, appended>>

(* RecordEvent, and the request goes on. *)
StoreRecord(r) ==
  /\ phase[r] = "counted"
  /\ Insert(r, Kept)
  /\ phase' = [phase EXCEPT ![r] = "admitted"]
  /\ UNCHANGED <<persistent, now, stamp, retryAt, seen>>

(* The query or the insert fails: the handlers read "not allowed".  An     *)
(* insert whose call failed may have reached the table all the same.       *)
StoreFails(r) ==
  /\ persistent
  /\ \/ phase[r] = "stamped" /\ UNCHANGED <<events, appended>>
     \/ phase[r] = "counted" /\ UNCHANGED <<events, appended>>
     \/ phase[r] = "counted" /\ Insert(r, Kept)
  /\ phase' = [phase EXCEPT ![r] = "failed"]
  /\ UNCHANGED <<persistent, now, stamp, retryAt, seen>>

(* Mutant: stamps that left the window are kept with those that are in it. *)
MemoryAdmitKeepsAll(r) ==
  /\ ~persistent
  /\ phase[r] = "stamped"
  /\ Count(stamp[r]) < Limit
  /\ Insert(r, Kept)
  /\ phase' = [phase EXCEPT ![r] = "admitted"]
  /\ UNCHANGED <<persistent, now, stamp, retryAt, seen>>

(* The path without a store, under memMu. *)
MemoryAdmit(r) ==
  /\ ~persistent
  /\ phase[r] = "stamped"
  /\ Count(stamp[r]) < Limit
  /\ Insert(r, Valid(stamp[r]))
  /\ phase' = [phase EXCEPT ![r] = "admitted"]
  /\ UNCHANGED <<persistent, now, stamp, retryAt, seen>>

(* The first stamp kept decides when to come back; it counts from the      *)
(* request's own clock, and is at least a second.                          *)
MemoryRefuse(r) ==
  /\ ~persistent
  /\ phase[r] = "stamped"
  /\ Count(stamp[r]) >= Limit
  /\ events' = [q \in Requests |-> IF q \in Valid(stamp[r]) THEN events[q] ELSE 0]
  /\ \E first \in Valid(stamp[r]) :
       /\ \A e \in Valid(stamp[r]) : events[first] <= events[e]
       /\ LET leaves == stamp[first] + Window
          IN  Refuse(r, IF leaves <= stamp[r] THEN 1 ELSE leaves - stamp[r])
  /\ UNCHANGED <<persistent, now, stamp, appended>>

(* The daemon is killed: requests in flight never answer, and what one     *)
(* process kept in memory is gone, with the requests it was about.         *)
Restart ==
  /\ phase' = [r \in Requests |->
                 IF phase[r] # "new" /\ (~persistent \/ r \in InFlight)
                 THEN "failed" ELSE phase[r]]
  /\ events' = IF persistent THEN events ELSE [r \in Requests |-> 0]
  /\ UNCHANGED <<persistent, now, stamp, retryAt, appended, seen>>

Tick ==
  /\ now < MaxTime
  /\ now' = now + 1
  /\ UNCHANGED <<persistent, events, phase, stamp, retryAt, appended, seen>>

Next ==
  \/ \E r \in Requests :
       \/ Stamp(r)
       \/ StoreCount(r) \/ StoreRefuse(r) \/ StoreRecord(r) \/ StoreFails(r)
       \/ MemoryAdmit(r) \/ MemoryRefuse(r)
  \/ Restart
  \/ Tick

Spec == Init /\ [][Next]_vars

-----------------------------------------------------------------------------
(* Types, and the memory bound of the path without a store: no key keeps   *)
(* more than Limit stamps.                                                 *)
TypeOK ==
  /\ persistent \in Modes
  /\ now \in Nat
  /\ events \in [Requests -> 0..appended]
  /\ ~persistent => Cardinality(Kept) <= Limit
  /\ phase \in [Requests -> Phases]
  /\ stamp \in [Requests -> 0..now]
  /\ retryAt \in [Requests -> Nat]
  /\ appended \in Nat
  /\ seen \in [Requests -> 0..appended]

AdmittedWithin(s) ==
  { r \in Admitted : stamp[r] <= s /\ s < stamp[r] + Window }

(* The limit as documented: no window holds more than Limit admissions.    *)
WindowLimit ==
  \A r \in Admitted : Cardinality(AdmittedWithin(stamp[r])) <= Limit

(* What the code keeps instead: a burst goes over the limit by at most the *)
(* other requests that were inside AllowKey at the same time, however      *)
(* long any of them stays between two steps.                               *)
BurstBound ==
  \A r \in Admitted :
    Cardinality(AdmittedWithin(stamp[r])) <= Limit + MaxInFlight - 1

(* Retry-After is honest: a request that comes no earlier than a refused   *)
(* one was told, with nothing admitted since, is not refused, though the   *)
(* stamp that set the date may not be the oldest one kept.                 *)
RetryAfterIsEnough ==
  [][\A q, r \in Requests :
       ( /\ phase[q] = "stamped"
         /\ phase[r] = "refused"
         /\ stamp[q] >= retryAt[r]
         /\ seen[r] = appended ) => phase'[q] # "refused"]_vars

=============================================================================
