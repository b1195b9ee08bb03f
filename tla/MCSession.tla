----------------------------- MODULE MCSession -----------------------------
(* Small instances of SessionGate.                                         *)
EXTENDS SessionGate, TLC

CONSTANTS alice, bob, t1, t2

MCTokenUser == [t \in Tokens |-> IF t = t2 /\ bob \in Users THEN bob ELSE alice]

\* The requests are alike, so are the session ids, and the links of a user.
Symmetry ==
    Permutations(Requests) \cup Permutations(Sessions) \cup Permutations(Tokens)
=============================================================================
