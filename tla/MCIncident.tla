----------------------------- MODULE MCIncident -----------------------------
(* A small instance of IncidentPlaybook.                                   *)
EXTENDS IncidentPlaybook, FiniteSets, TLC

CONSTANTS acme, nova, e1

MCEvidenceOrg == [e \in Evidence |-> acme]

\* At most one event is never told, of three changes or less.
MCChanges == Cardinality(committed) + Cardinality(untold) <= 3

\* The requests are alike.
MCSymmetry == Permutations(Requests)
=============================================================================
