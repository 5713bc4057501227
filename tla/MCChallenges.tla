---------------------------- MODULE MCChallenges ----------------------------
(* A small instance of Challenges for TLC. *)
EXTENDS Challenges, TLC

CONSTANTS alice, bob

MCEmails == {alice, bob}
MCIds == 1..3

(* The addresses are interchangeable. *)
MCSymmetry == Permutations(MCEmails)

=============================================================================
