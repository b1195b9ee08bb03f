---------------------------- MODULE MCTrustEditor ----------------------------
(* The editor of acme, an attested draft, beside another client of it.     *)
EXTENDS TrustEditorPanel, TLC

CONSTANT acme

MCSeed == [c \in Centers |-> [status |-> "draft", named |-> TRUE, ack |-> TRUE]]

\* The other client takes the acknowledgement back.
MCPatches == {[named |-> Null, ack |-> FALSE]}

\* Bound: the user edits the acknowledgement; a blanked name is not saved.
MCForm == Shown => page.named

MCSymmetry == Permutations(Requests)
=============================================================================
