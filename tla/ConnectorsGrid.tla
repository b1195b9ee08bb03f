---------------------------- MODULE ConnectorsGrid ----------------------------
(***************************************************************************)
(* The connectors page of one browser                                      *)
(* (apps/web/components/connectors-grid.tsx) over the service of           *)
(* Connectors, which other browsers use too.  The page sends one request   *)
(* at a time and reads the list again after each; for a consent it leaves, *)
(* and is rendered anew when the user returns.                             *)
(***************************************************************************)
EXTENDS Connectors

VARIABLES
    page,       \* the state of the component, and its request
    doubt       \* history: what it shows may be out of date

vars == <<serviceVars, page, doubt>>

\* The requests of the page.
Operations == {"list", "connect", "sync", "revoke"}

ASSUME GridAssumption == Null \notin Operations

Cards == [state: States, stale: BOOLEAN]

Card(p) == [state |-> connector[p].state, stale |-> connector[p].stale]

\* consent: the provider whose page is shown instead.  items: what is shown
\* or, while the page waits for a list and no button works, the list that was
\* served.  reply: "none" until the request is answered.
Pages ==
    [consent: Providers \cup {Null}, items: [Providers -> Cards] \cup {Null},
     dialog: Providers \cup {Null},
     op: Operations \cup {Null},
     target: Providers \cup {Null}, reply: {"none", "ok", "refused", "lost"}]

Fresh == [consent |-> Null, items |-> Null, dialog |-> Null, op |-> "list",
          target |-> Null, reply |-> "none"]

Init == ServiceInit /\ page = Fresh /\ doubt = TRUE

-----------------------------------------------------------------------------
(* What the user does, on the page or at the provider. *)

Busy == page.op # Null

Turns(state) ==
    /\ page' = state
    /\ UNCHANGED <<serviceVars, doubt>>

Sends(op, p) == Turns([page EXCEPT !.op = op, !.target = p, !.reply = "none"])

ShowsState(p, states) ==
    /\ page.consent = Null /\ page.items # Null
    /\ page.items[p].state \in states

ClickConnect(p) ==
    /\ ~Busy /\ page.dialog = Null
    /\ ShowsState(p, {"disconnected"})
    /\ Sends("connect", p)

\* "Synchroniser" and "Reessayer".
ClickSync(p) ==
    /\ ~Busy /\ page.dialog = Null
    /\ ShowsState(p, {"connected", "error"})
    /\ Sends("sync", p)

\* "Deconnecter" and "Annuler" ask to confirm; an error can only be retried.
OpenDialog(p) ==
    /\ ~Busy /\ page.dialog = Null
    /\ ShowsState(p, {"connecting", "connected", "syncing"})
    /\ Turns([page EXCEPT !.dialog = p])

CloseDialog ==
    /\ page.dialog # Null
    /\ Turns([page EXCEPT !.dialog = Null])

ConfirmRevoke ==
    /\ ~Busy /\ page.dialog # Null
    /\ Sends("revoke", page.dialog)

\* The user consents, and the provider calls back, or goes back without it.
Consent ==
    /\ page.consent # Null
    /\ OAuthCallback(page.consent)
    /\ page' = Fresh
    /\ doubt' = TRUE

GoBack ==
    /\ page.consent # Null
    /\ page' = Fresh
    /\ doubt' = TRUE
    /\ UNCHANGED serviceVars

-----------------------------------------------------------------------------
(* The request of the page is served. *)

Waiting(op) == page.op = op /\ page.reply = "none"

Replies(fails) ==
    page' = [page EXCEPT !.reply = IF fails THEN "refused" ELSE "ok"]

ServeList ==
    /\ Waiting("list")
    /\ page' = [page EXCEPT !.reply = "ok",
                            !.items = [p \in Providers |-> Card(p)]]
    /\ doubt' = FALSE
    /\ UNCHANGED serviceVars

Serve(p) ==
    /\ page.target = p
    /\ doubt' = (doubt \/ (Waiting("connect") /\ ConnectFails(p, TRUE)))
    /\ \/ /\ Waiting("connect")
          /\ Connect(p, TRUE)
          /\ Replies(ConnectFails(p, TRUE))
       \/ /\ Waiting("sync")
          /\ \E empty \in BOOLEAN : Sync(p, empty)
          /\ Replies(SyncFails(p))
       \/ /\ Waiting("revoke")
          /\ Revoke(p)
          /\ Replies(FALSE)

\* The request, or its answer, does not arrive.
Lost ==
    /\ Busy /\ page.reply # "lost"
    /\ page' = [page EXCEPT !.reply = "lost",
                            !.items = IF page.op = "list" THEN Null ELSE @]
    /\ doubt' = TRUE
    /\ UNCHANGED serviceVars

-----------------------------------------------------------------------------
(* What the page does with the answer. *)

Rests == [page EXCEPT !.op = Null, !.target = Null, !.reply = "none"]

\* The list is asked for again; the page stays busy until it is there.
Reloads == [page EXCEPT !.op = "list", !.reply = "none",
                         !.items = Null]

\* Without a list, every connector is shown as disconnected.
Assumed == [p \in Providers |-> [state |-> "disconnected", stale |-> FALSE]]

ListArrives ==
    /\ page.op = "list" /\ page.reply # "none"
    /\ page' = [Rests EXCEPT
                   !.items = IF page.reply = "ok" THEN @ ELSE Assumed,
                   \* revoke closes its dialog last
                   !.dialog = IF page.target = @ THEN Null ELSE @]
    /\ doubt' = (doubt \/ page.reply # "ok")
    /\ UNCHANGED serviceVars

\* Fault: the page does not read the list again.
AfterConnectTrusting ==
    IF page.reply = "ok" /\ page.target \notin RoleProviders
    THEN [Rests EXCEPT !.consent = page.target, !.items = Null]
    ELSE Rests

\* An authorization URL leads away from the page; a refusal is ignored.
AfterConnect ==
    IF page.reply # "ok" THEN Rests
    ELSE IF page.target \in RoleProviders THEN Reloads
    ELSE [Rests EXCEPT !.consent = page.target, !.items = Null]

\* A refusal is not looked at, and the list is read in any case.
AfterOther ==
    IF page.reply # "lost" THEN Reloads
    ELSE [Rests EXCEPT !.dialog = IF page.op = "revoke" THEN Null ELSE @]

AnswerArrives ==
    /\ page.op \in Operations \ {"list"} /\ page.reply # "none"
    /\ Turns(IF page.op = "connect" THEN AfterConnect ELSE AfterOther)

-----------------------------------------------------------------------------
(* Everyone else. *)

\* Another browser, whose requests need the same session, and whose consent
\* may end at any time.
OtherBrowser ==
    /\ \E p \in Providers :
           \/ \E role \in BOOLEAN : Connect(p, role)
           \/ OAuthCallback(p)
           \/ \E empty \in BOOLEAN : Sync(p, empty)
           \/ Revoke(p)
    /\ doubt' = TRUE
    /\ UNCHANGED page

\* A request that was not served is lost with the process.
ProcessRestarts ==
    /\ Restart
    /\ doubt' = TRUE
    /\ page' = IF Busy /\ page.reply = "none"
               THEN [page EXCEPT !.reply = "lost"] ELSE page

Next ==
    \/ \E p \in Providers :
           ClickConnect(p) \/ ClickSync(p) \/ OpenDialog(p) \/ Serve(p)
    \/ CloseDialog \/ ConfirmRevoke \/ Consent \/ GoBack
    \/ ServeList \/ Lost \/ ListArrives \/ AnswerArrives
    \/ OtherBrowser \/ ProcessRestarts

Spec == Init /\ [][Next]_vars

-----------------------------------------------------------------------------
(* Properties. *)

\* When the page rests, every card is the one of the connector as it is, if
\* since its list was served nobody else touched a connector, no answer was
\* lost, and no connection was refused: each of its requests was followed by
\* a list (connectors-grid.tsx:134-191).  A connection that is refused has
\* left the connector connecting, and the page does not look.
GridTellsTruth ==
    page.items # Null /\ ~Busy /\ page.consent = Null /\ ~doubt
    => \A p \in Providers : page.items[p] = Card(p)

=============================================================================
