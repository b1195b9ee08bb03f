--------------------------- MODULE TrustEditorPanel ---------------------------
(***************************************************************************)
(* The trust editor of one browser                                         *)
(* (apps/web/components/trust/trust-editor-panel.tsx) over the API of      *)
(* TrustCenter, which other clients use too.  The page edits a form beside *)
(* the row it was last answered, and publishes by a chain of two requests: *)
(* the form is saved with the acknowledgement, then the publication is     *)
(* asked for.                                                              *)
(***************************************************************************)
EXTENDS TrustCenter

CONSTANT Edited     \* the center of the page

\* The requests that keep the page busy.
Sending == {"load", "save", "confirm", "publish", "unpublish"}

ASSUME EditorAssumption ==
    Edited \in Centers /\ Null \notin Sending \cup Requests

VARIABLES
    page,   \* the state of the component
    doubt,  \* history: what it shows may be out of date
    stale   \* history: since the last step of the request of the page, the
            \* row has been changed by another client

editorVars == <<vars, page, doubt, stale>>

\* trust: the row shown; named and ack: the form; op: what keeps the page
\* busy ("confirm" is the first request of a publication), and sent the
\* request that is on its way.
Pages ==
    [trust: Center \cup {Null}, named: BOOLEAN, ack: BOOLEAN, modal: BOOLEAN,
     op: Sending \cup {Null}, sent: Requests \cup {Null}]

Fresh == [trust |-> Null, named |-> FALSE, ack |-> FALSE, modal |-> FALSE,
          op |-> "load", sent |-> Null]

EditorInit == Init /\ page = Fresh /\ doubt = TRUE /\ stale = FALSE

-----------------------------------------------------------------------------
(* What the user does. *)

Turns(state) ==
    /\ page' = state
    /\ UNCHANGED <<vars, doubt, stale>>

Shown == page.trust # Null

Resting == page.op = Null

\* The checklist of the page is the one of the API, on the form.
FormReady == ChecklistReady(Edited, [named |-> page.named, ack |-> page.ack])

\* The page is loaded again; a request on its way is served all the same.
Reload == Turns(Fresh)

\* The fields stay enabled while a request is on its way; the modal hides
\* them.
EditForm ==
    /\ Shown /\ ~page.modal
    /\ \/ Turns([page EXCEPT !.named = ~@])
       \/ Turns([page EXCEPT !.ack = ~@])

Sends(r, op, patch, state) ==
    /\ Start(r, Edited, op, patch)
    /\ page' = [state EXCEPT !.sent = r]
    /\ UNCHANGED <<doubt, stale>>

SaveDraftFields(r) ==
    /\ Shown /\ Resting /\ ~page.modal
    /\ Sends(r, "patch", [named |-> page.named, ack |-> page.ack],
             [page EXCEPT !.op = "save"])

OpenModal ==
    /\ Shown /\ Resting /\ ~page.modal
    /\ page.trust.status = "draft" /\ FormReady
    /\ Turns([page EXCEPT !.modal = TRUE])

\* "Annuler" is never disabled: it does not end a publication under way.
CloseModal == page.modal /\ Turns([page EXCEPT !.modal = FALSE])

ConfirmPublish(r) ==
    /\ page.modal /\ Resting /\ FormReady
    /\ Sends(r, "patch", [named |-> page.named, ack |-> TRUE],
             [page EXCEPT !.op = "confirm"])

\* The second request of a publication.
PublishConfirmed(r) ==
    /\ page.op = "publish" /\ page.sent = Null
    /\ Sends(r, "publish", Null, page)

OnUnpublish(r) ==
    /\ Shown /\ Resting
    /\ page.trust.status = "published"
    /\ Sends(r, "unpublish", Null, [page EXCEPT !.op = "unpublish"])

-----------------------------------------------------------------------------
(* What the page does with an answer. *)

\* The first request reads the row, or fails and leaves the page empty.
Loads ==
    /\ page.op = "load"
    /\ UNCHANGED <<vars, stale>>
    /\ \/ LET row == center[Edited] IN
          /\ page' = [page EXCEPT !.trust = row, !.named = row.named,
                                  !.ack = row.ack, !.op = Null]
          /\ doubt' = FALSE
       \/ /\ MayFail
          /\ page' = [page EXCEPT !.op = Null]
          /\ doubt' = TRUE

\* A toast only: the page keeps the row it showed, and its modal.
AfterFailure == [page EXCEPT !.op = Null, !.sent = Null]

\* Fault: the answer to the publication is not looked at.
AfterSuccessBlind(row) ==
    IF page.op = "confirm" THEN [page EXCEPT !.op = "publish", !.sent = Null]
    ELSE IF page.op = "publish"
    THEN [AfterFailure EXCEPT !.ack = TRUE, !.modal = FALSE]
    ELSE [AfterFailure EXCEPT !.trust = row]

\* The answer of the first request of a publication is not looked at.
AfterSuccess(row) ==
    IF page.op = "confirm" THEN [page EXCEPT !.op = "publish", !.sent = Null]
    ELSE LET rests == [AfterFailure EXCEPT !.trust = row] IN
         IF page.op = "publish" THEN [rests EXCEPT !.ack = TRUE,
                                                   !.modal = FALSE]
         ELSE rests

\* A request of the page, or of another client, is served.  One that ends
\* with its audit event is answered with the row, any other is refused.
Served(r) ==
    LET own == page.sent = r
        answered == own /\ request'[r].pc = "idle"
        saved == request[r].pc = "audit"
        changed == ~own /\ center'[Edited] # center[Edited]
    IN
    /\ Serve(r)
    /\ page' = IF ~answered THEN page
               ELSE IF saved THEN AfterSuccess(request[r].snap)
               ELSE AfterFailure
    /\ doubt' = IF answered /\ saved THEN stale \/ page.op = "confirm"
                ELSE doubt \/ changed
    /\ stale' = (~own /\ (stale \/ changed))

Fails(r) ==
    LET own == page.sent = r IN
    /\ QueryFails(r)
    /\ page' = IF own THEN AfterFailure ELSE page
    /\ doubt' = (doubt \/ own)
    /\ UNCHANGED stale

OtherClient(r) ==
    /\ \E c \in Centers : Receive(r, c)
    /\ UNCHANGED <<page, doubt, stale>>

EditorNext ==
    \/ Reload \/ EditForm \/ OpenModal \/ CloseModal \/ Loads
    \/ \E r \in Requests :
           \/ SaveDraftFields(r) \/ ConfirmPublish(r) \/ PublishConfirmed(r)
           \/ OnUnpublish(r) \/ Served(r) \/ Fails(r) \/ OtherClient(r)

EditorSpec == EditorInit /\ [][EditorNext]_editorVars

-----------------------------------------------------------------------------
(* Properties. *)

\* When the page rests, its banner, its badge and its buttons are those of
\* the row as it is stored, however its requests and those of other clients
\* overlap, unless another client has changed the row since the API read the
\* one shown, or a request failed half-way: a publication whose second
\* request is refused has saved its first (trust-editor-panel.tsx:106-112).
EditorTellsTruth ==
    Shown /\ Resting /\ ~doubt => page.trust = center[Edited]

=============================================================================
