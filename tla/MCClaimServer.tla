--------------------------- MODULE MCClaimServer ---------------------------
(* A small instance of ClaimServer for TLC. *)
EXTENDS ClaimServer, TLC

CONSTANTS r1, r2, r3, m1, m2, k1, k2, k3

MCRequests == {r1, r2, r3}

(* Ann has two invitations and asks for another uid with the second; two   *)
(* other people ask for the same uid.  One key is named in headers, by     *)
(* anybody.                                                                *)
MCInvites == {"ann1", "ann2", "bob", "bart"}
MCEmails == {"ann@x", "bob@x", "bart@x"}
MCEmailOf == [t \in MCInvites |->
                CASE t \in {"ann1", "ann2"} -> "ann@x"
                  [] t = "bob" -> "bob@x"
                  [] t = "bart" -> "bart@x"]
MCUids == {"ann", "anna", "b"}
MCUidOf == [t \in MCInvites |->
              CASE t = "ann1" -> "ann" [] t = "ann2" -> "anna"
                [] t \in {"bob", "bart"} -> "b"]
MCMachines == {m1, m2}
MCHeaders == {<<"any", "header">>}
MCCredentials == {k1, k2, k3}

(* Requests differ only in what they ask for, and machines and credentials *)
(* in nothing.                                                             *)
MCSymmetry == Permutations(MCRequests) \union Permutations(MCMachines)
                \union Permutations(MCCredentials)

=============================================================================
