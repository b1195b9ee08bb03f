--------------------------- MODULE TrustLifecycle ---------------------------
(***************************************************************************)
(* What the Trust Center promises its clients, who may call it at once.    *)
(* Publishing and withdrawing are explicit operations ("Jamais auto",      *)
(* trust.service.ts:83), publishing is gated by the checklist, and editing *)
(* never changes whether the edited row is public.  An operation takes     *)
(* effect once, on a row that the center had at some time between the      *)
(* call and its effect: not always the row as it is.                       *)
(***************************************************************************)
CONSTANTS Centers, Attested, Clients

VARIABLES
    center,     \* the row of each center
    call        \* what each client is waiting for

vars == <<center, call>>

Contents == [named: BOOLEAN, ack: BOOLEAN]

Center == [status: {"draft", "published"}, named: BOOLEAN, ack: BOOLEAN]

Operations == {"patch", "publish", "unpublish"}

NoCall == [op |-> "none"]

Init ==
    /\ center \in [Centers -> Center]
    /\ call = [r \in Clients |-> NoCall]

Ask(r, c, op) ==
    /\ call[r] = NoCall
    /\ call' = [call EXCEPT ![r] = [op |-> op, center |-> c,
                                    seen |-> {center[c]}]]
    /\ UNCHANGED center

Concerns(q, c) == call[q].op \in Operations /\ call[q].center = c

\* The row is replaced, in the sight of the others who wait for the center.
TakesEffect(r, row) ==
    LET c == call[r].center IN
    /\ center' = [center EXCEPT ![c] = row]
    /\ call' = [q \in Clients |->
                    IF q = r THEN NoCall
                    ELSE IF Concerns(q, c)
                    THEN [call[q] EXCEPT !.seen = @ \cup {row}]
                    ELSE call[q]]

Publish(r) ==
    /\ call[r].op = "publish"
    /\ call[r].center \in Attested
    /\ \E row \in call[r].seen :
           /\ row.status = "draft" /\ row.named
           /\ TakesEffect(r, [row EXCEPT !.status = "published", !.ack = TRUE])

Unpublish(r) ==
    /\ call[r].op = "unpublish"
    /\ \E row \in call[r].seen :
           /\ row.status = "published"
           /\ TakesEffect(r, [row EXCEPT !.status = "draft"])

Edit(r, contents) ==
    /\ call[r].op = "patch"
    /\ \E row \in call[r].seen :
           TakesEffect(r, [row EXCEPT !.named = contents.named,
                                      !.ack = contents.ack])

\* Refused, or failed, before it took effect.
Refused(r) ==
    /\ call[r].op \in Operations
    /\ call' = [call EXCEPT ![r] = NoCall]
    /\ UNCHANGED center

Next ==
    \E r \in Clients :
        \/ \E c \in Centers, op \in Operations : Ask(r, c, op)
        \/ Publish(r) \/ Unpublish(r) \/ Refused(r)
        \/ \E contents \in Contents : Edit(r, contents)

Spec == Init /\ [][Next]_vars

=============================================================================
