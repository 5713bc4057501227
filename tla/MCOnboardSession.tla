-------------------------- MODULE MCOnboardSession --------------------------
(* A small instance of OnboardSession for TLC. *)
EXTENDS OnboardSession, TLC

CONSTANTS k1, k2, p, q

MCCredentials == {k1, k2}
MCTargets == {p, q}

(* Credentials are random, and so are the names of repositories. *)
MCSymmetry == Permutations(MCCredentials) \union Permutations(MCTargets)

=============================================================================
