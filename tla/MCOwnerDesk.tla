----------------------------- MODULE MCOwnerDesk -----------------------------
(* A small instance of OwnerDesk for TLC. *)
EXTENDS OwnerDesk

CONSTANTS alice, bob, p1, p2, p3

MCEmails == {alice, bob}
MCProcs == {p1, p2, p3}
MCInvites == 1..2

=============================================================================
