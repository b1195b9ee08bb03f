-------------------------------- MODULE MCBoot --------------------------------
(* Two servers and the script over two tables of two seeds: one server may *)
(* seed behind the back of another, and the second table after it served.  *)
EXTENDS Boot, TLC

CONSTANTS s1, s2, script

Interchangeable == Permutations(Servers)
=============================================================================
