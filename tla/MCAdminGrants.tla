--------------------------- MODULE MCAdminGrants ---------------------------
(* A small instance of AdminGrants for TLC. *)
EXTENDS AdminGrants, TLC

CONSTANTS alice, bob

MCEmails == {alice, bob}
MCIds == 1..2
MCTTLs == {1, 3}

(* The addresses are interchangeable. *)
MCSymmetry == Permutations(MCEmails)

=============================================================================
