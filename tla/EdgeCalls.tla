----------------------------- MODULE EdgeCalls -----------------------------
(***************************************************************************)
(* The two HTTP clients of the commands: client.Client, which sends a      *)
(* request again when no answer or a busy answer comes, and StaffClient,   *)
(* which sends it once; and staff create, which goes on to an invitation.  *)
(*                                                                         *)
(* One operator runs one command after the other and repeats what failed.  *)
(* The servers are external and kept to what a second request can tell:    *)
(* the edge replays an accepted claim under its key, spends a code at the  *)
(* first right submission and mails a code for every challenge; the staff  *)
(* server answers a repeated key as it did before, and refuses a taken uid. *)
(* An answer may be lost, and a proxy may say 504 of a request that was    *)
(* served.                                                                 *)
(***************************************************************************)
EXTENDS Naturals

CONSTANTS
  MaxRetries,     \* Client.maxRetries
  None,
  MaxCalls        \* bound: commands

VARIABLES
  call,           \* the command that runs
  wire,           \* "idle", "request", or the answer on its way
  late,           \* a request nobody waits for that a server still has
  served,         \* times each kind of request took effect
  member,         \* key under which the staff server created the member
  invited,        \* invitations issued for the member
  calls           \* commands so far; a key is the number of a command

vars == <<call, wire, late, served, member, invited, calls>>

Kinds == {"claim", "verify", "challenge", "staff"}

Attempts(kind) == IF kind = "staff" THEN 1 ELSE 1 + MaxRetries

Off == [kind |-> "claim", attempt |-> 0, key |-> 0, at |-> "off",
        spent |-> FALSE]

-----------------------------------------------------------------------------
Init ==
  /\ call = Off
  /\ wire = "idle"
  /\ late = None
  /\ served = [k \in Kinds |-> 0]
  /\ member = None
  /\ invited = 0
  /\ calls = 0

(* A command; staff create draws an idempotency key unless one is given,   *)
(* here the one of an earlier command.                                     *)
Begin(kind) ==
  /\ call.at \in {"off", "ok", "failed"}
  /\ calls < MaxCalls
  /\ calls' = calls + 1
  /\ \E key \in 1..calls' :
       /\ kind # "staff" => key = calls'
       /\ call' = [kind |-> kind, attempt |-> 1, key |-> key, at |-> "send",
                   spent |-> FALSE]
  /\ wire' = "idle"
  /\ UNCHANGED <<late, served, member, invited>>

(* One attempt: doRequest builds the request anew from the same body. *)
Send ==
  /\ call.at = "send"
  /\ call' = [call EXCEPT !.at = "wait"]
  /\ wire' = "request"
  /\ UNCHANGED <<late, served, member, invited, calls>>

-----------------------------------------------------------------------------
(* The servers. *)

Effect(kind) ==
  CASE kind = "claim" -> served[kind] = 0
    [] kind = "verify" -> served[kind] = 0
    [] kind = "challenge" -> TRUE
    [] kind = "staff" -> member = None

Accepted(kind, key) ==
  \/ Effect(kind)
  \/ kind = "claim"
  \/ kind = "staff" /\ member = key

Handle(kind, key) ==
  /\ served' = [served EXCEPT ![kind] = IF Effect(kind) THEN @ + 1 ELSE @]
  /\ member' = IF kind = "staff" /\ member = None THEN key ELSE member

Serve ==
  /\ wire = "request"
  /\ wire' \in IF Accepted(call.kind, call.key) THEN {"ok", "busy"}
               ELSE {"refused"}
  /\ Handle(call.kind, call.key)
  /\ call' = [call EXCEPT !.spent = @ \/ Effect(call.kind)]
  /\ UNCHANGED <<late, invited, calls>>

ServeLate ==
  /\ late # None
  /\ Handle(late.kind, late.key)
  /\ LET own == late = [kind |-> call.kind, key |-> call.key]
     IN call' = [call EXCEPT !.spent = @ \/ (own /\ Effect(late.kind))]
  /\ late' = None
  /\ UNCHANGED <<wire, invited, calls>>

(* A limiter or a proxy answers 429, 502, 503 or 504 before the handler. *)
TurnAway ==
  /\ wire = "request"
  /\ wire' = "busy"
  /\ UNCHANGED <<call, late, served, member, invited, calls>>

(* A request or an answer gets lost; a request may only seem to be.        *)
Abandoned ==
  IF wire = "request" /\ late = None
  THEN {late, [kind |-> call.kind, key |-> call.key]} ELSE {late}

Lose ==
  /\ wire \in {"request", "ok", "busy", "refused"}
  /\ wire' = "lost"
  /\ late' \in Abandoned
  /\ UNCHANGED <<call, served, member, invited, calls>>

-----------------------------------------------------------------------------
(* Mutant: the status of the answer is not looked at. *)
SucceedAnyway ==
  /\ call.at = "wait" /\ wire \in {"ok", "busy"}
  /\ call' = [call EXCEPT !.at = IF call.kind = "staff" THEN "invite" ELSE "ok"]
  /\ wire' = "idle"
  /\ UNCHANGED <<late, served, member, invited, calls>>

(* The client reads what came.  A busy answer to the last attempt is an    *)
(* error answer; a 4xx is one at once.                                     *)
Succeed ==
  /\ call.at = "wait" /\ wire = "ok"
  /\ call' = [call EXCEPT !.at = IF call.kind = "staff" THEN "invite" ELSE "ok"]
  /\ wire' = "idle"
  /\ UNCHANGED <<late, served, member, invited, calls>>

(* Mutant: the loop counts attempts and has no end. *)
AgainAlways ==
  /\ call.at = "wait" /\ wire \in {"busy", "lost"}
  /\ call' = [call EXCEPT !.attempt = @ + 1, !.at = "send"]
  /\ wire' = "idle"
  /\ UNCHANGED <<late, served, member, invited, calls>>

(* Mutant: a retry starts the count anew. *)
AgainUncounted ==
  /\ call.at = "wait" /\ wire \in {"busy", "lost"}
  /\ call.attempt < Attempts(call.kind)
  /\ call' = [call EXCEPT !.at = "send"]
  /\ wire' = "idle"
  /\ UNCHANGED <<late, served, member, invited, calls>>

Again ==
  /\ call.at = "wait" /\ wire \in {"busy", "lost"}
  /\ call.attempt < Attempts(call.kind)
  /\ call' = [call EXCEPT !.attempt = @ + 1, !.at = "send"]
  /\ wire' = "idle"
  /\ UNCHANGED <<late, served, member, invited, calls>>

GiveUp ==
  /\ call.at = "wait"
  /\ \/ wire = "refused"
     \/ wire \in {"busy", "lost"} /\ call.attempt = Attempts(call.kind)
  /\ call' = [call EXCEPT !.at = "failed"]
  /\ wire' = "idle"
  /\ UNCHANGED <<late, served, member, invited, calls>>

(* ctx: the operator interrupts the command, whatever is on the wire. *)
Cancel ==
  /\ call.at \in {"send", "wait"}
  /\ call' = [call EXCEPT !.at = "failed"]
  /\ wire' = "idle"
  /\ late' \in Abandoned
  /\ UNCHANGED <<served, member, invited, calls>>

(* staff create --invite: what goes wrong from here on is a warning. *)
IssueInvite ==
  /\ call.at = "invite"
  /\ call' = [call EXCEPT !.at = "ok"]
  /\ invited' \in {invited, invited + 1}
  /\ UNCHANGED <<wire, late, served, member, calls>>

Step == Send \/ Succeed \/ Again \/ GiveUp \/ IssueInvite

(* The transport gives an answer or an error in the end: http.Client has a *)
(* timeout.                                                                *)
Network == Serve \/ TurnAway \/ Lose

Next ==
  \/ \E kind \in Kinds : Begin(kind)
  \/ Step
  \/ Serve
  \/ ServeLate
  \/ TurnAway
  \/ Lose
  \/ Cancel

Fairness == WF_vars(Step) /\ WF_vars(Network)

Spec == Init /\ [][Next]_vars /\ Fairness

-----------------------------------------------------------------------------
TypeOK ==
  /\ call \in [ kind : Kinds, attempt : 0..(1 + MaxRetries), key : 0..MaxCalls,
                at : {"off", "send", "wait", "invite", "ok", "failed"},
                spent : BOOLEAN ]
  /\ wire \in {"idle", "request", "ok", "busy", "refused", "lost"}
  /\ late \in [kind : Kinds, key : 1..MaxCalls] \union {None}
  /\ served \in [Kinds -> Nat]
  /\ member \in (1..MaxCalls) \union {None}
  /\ invited \in 0..MaxCalls
  /\ calls \in 0..MaxCalls

(* Commands are repeated and requests sent again, and still there is one   *)
(* account and one member, and an invitation only for a member whose       *)
(* creation was answered: every success stands for an effect that exists.  *)
SuccessIsServed ==
  /\ served["claim"] <= 1 /\ served["staff"] <= 1
  /\ call.at \in {"ok", "invite"} => served[call.kind] > 0
  /\ call.at = "ok" /\ call.kind = "verify" => call.spent
  /\ invited > 0 => member # None

(* A command ends, whatever the network does. *)
CallsEnd ==
  call.at = "send" ~> call.at \in {"ok", "failed"}

=============================================================================
