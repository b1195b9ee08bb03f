------------------------------ MODULE MCTrust ------------------------------
(* Small instances of TrustCenter: the three seeded centers.               *)
EXTENDS TrustCenter, TLC

CONSTANTS acme, nova, demo

MCSeed ==
    [c \in Centers |->
        [status |-> IF c = nova THEN "published" ELSE "draft",
         named |-> TRUE, ack |-> c # demo]]

\* A patch that blanks the name, and one of both fields, as the editor's are.
MCPatches == {[named |-> FALSE, ack |-> Null], [named |-> TRUE, ack |-> TRUE]}

MCSymmetry == Permutations(Requests)
=============================================================================
