---------------------------- MODULE OneTimeCodes ----------------------------
(***************************************************************************)
(* What a ledger of one-time codes promises, whatever table keeps it: a    *)
(* code is issued once, is compared with at most MaxGuesses submissions,   *)
(* is redeemed at most once, and never comes back once redeemed or dead.   *)
(* The persistent ChallengeManager of orbit-server implements this         *)
(* specification (see Challenges); the persistent GrantManager does not    *)
(* keep the guess budget (see AdminGrants).                                *)
(***************************************************************************)
EXTENDS Naturals

CONSTANTS
  CodeId,       \* the codes that may ever be issued
  MaxGuesses    \* submissions a code may be compared with

VARIABLES
  status,       \* CodeId -> "absent", "live", "redeemed" or "dead"
  guesses       \* CodeId -> submissions charged to the code

vars == <<status, guesses>>

Init ==
  /\ status = [c \in CodeId |-> "absent"]
  /\ guesses = [c \in CodeId |-> 0]

(* A code becomes redeemable, or reaches the ledger too late for that. *)
Issue(c) ==
  /\ status[c] = "absent"
  /\ \E s \in {"live", "dead"} : status' = [status EXCEPT ![c] = s]
  /\ UNCHANGED guesses

(* A submission is charged to a live code before it is compared. *)
Charge(c) ==
  /\ status[c] = "live"
  /\ guesses[c] < MaxGuesses
  /\ guesses' = [guesses EXCEPT ![c] = @ + 1]
  /\ UNCHANGED status

(* A charged submission was the right one. *)
Redeem(c) ==
  /\ status[c] = "live"
  /\ guesses[c] > 0
  /\ status' = [status EXCEPT ![c] = "redeemed"]
  /\ UNCHANGED guesses

(* Codes expire, or run out of guesses. *)
Die(C) ==
  /\ \A c \in C : status[c] = "live"
  /\ status' = [c \in CodeId |-> IF c \in C THEN "dead" ELSE status[c]]
  /\ UNCHANGED guesses

Next ==
  \/ \E c \in CodeId : Issue(c) \/ Charge(c) \/ Redeem(c)
  \/ \E C \in SUBSET CodeId : Die(C)

Spec == Init /\ [][Next]_vars

=============================================================================
