-------------------------------- MODULE MCSso --------------------------------
(* The owner of the page may have founded the organisation without being a *)
(* member of it yet, or have been assigned the role of an owner before.    *)
EXTENDS SsoSettings, TLC

MCAppointable == {"viewer"}

MCFirstRoles == {[u \in Users |-> role] : role \in {"owner", Null}}

Interchangeable ==
    Permutations(Providers) \cup Permutations(Requests)
=============================================================================
