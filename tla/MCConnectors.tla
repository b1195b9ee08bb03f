----------------------------- MODULE MCConnectors -----------------------------
(* One connector of each kind, and two exports, the second after a         *)
(* reconnection.                                                           *)
EXTENDS ConnectorsGrid
=============================================================================
