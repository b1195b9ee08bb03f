------------------------ MODULE ConnectorsGrid_proofs ------------------------
(***************************************************************************)
(* For any number of connectors and exports, and whatever other browsers   *)
(* do: a connector that no one asked for since it was revoked is off, a    *)
(* disconnected one is flagged exactly when it has collected something,    *)
(* and the page tells the truth.                                           *)
(***************************************************************************)
EXTENDS ConnectorsGrid, TLAPS

ServiceType ==
    /\ connector \in [Providers -> Rows]
    /\ keyed \in BOOLEAN

\* The handlers keep this, one connector at a time.
Sound(p) ==
    /\ p \notin asked =>
           connector[p].state = "disconnected" /\ ~connector[p].secrets
    /\ connector[p].state = "disconnected" =>
           (connector[p].stale <=> connector[p].exports > 0)

ServiceInv == ServiceType /\ \A p \in Providers : Sound(p)

\* One of the handlers, for whoever calls it.
Handler(p) ==
    \/ \E role \in BOOLEAN : Connect(p, role)
    \/ OAuthCallback(p)
    \/ \E empty \in BOOLEAN : Sync(p, empty)
    \/ Revoke(p)

-----------------------------------------------------------------------------

LEMMA SeedFacts ==
    Seed \in Rows /\ Seed.state = "disconnected" /\ ~Seed.secrets
    /\ Seed.exports = 0 /\ Seed.stale = FALSE
  BY ConnectorsAssumption DEF Seed, Rows, States

\* A handler replaces one row, by one that is sound if the connector was.
LEMMA PutKeeps ==
    ASSUME ServiceInv, NEW p, NEW row, Put(p, row),
           p \in Providers => row \in Rows,
           asked \subseteq asked' \cup {p},
           p \in Providers /\ p \notin asked' =>
               row.state = "disconnected" /\ ~row.secrets,
           p \in Providers /\ row.state = "disconnected" =>
               (row.stale <=> row.exports > 0)
    PROVE  ServiceInv'
  <1>1. connector' \in [Providers -> Rows] /\ keyed' \in BOOLEAN
    BY DEF ServiceInv, ServiceType, Put
  <1>2. ASSUME NEW q \in Providers
        PROVE  Sound(q)'
    <2>1. connector'[q] = IF q = p THEN row ELSE connector[q]
      BY <1>2 DEF Put, ServiceInv, ServiceType
    <2>2. CASE q = p
      BY <2>1, <2>2 DEF Sound
    <2>3. CASE q # p
      BY <1>2, <2>1, <2>3 DEF Sound, ServiceInv
    <2> QED
      BY <2>2, <2>3
  <1> QED
    BY <1>1, <1>2 DEF ServiceInv, ServiceType

LEMMA RevokedFacts ==
    ASSUME NEW row \in Rows
    PROVE  /\ Revoked(row) \in Rows
           /\ Revoked(row).state = "disconnected" /\ ~Revoked(row).secrets
           /\ Revoked(row).stale <=> Revoked(row).exports > 0
  <1> DEFINE marked == row.exports > 0
  <1>1. marked \in BOOLEAN
    OBVIOUS
  <1>2. Revoked(row) = [row EXCEPT !.state = "disconnected",
                                   !.secrets = FALSE, !.stale = marked]
    BY DEF Revoked
  <1> HIDE DEF marked
  <1>3. /\ Revoked(row) \in Rows
        /\ Revoked(row).state = "disconnected"
        /\ Revoked(row).secrets = FALSE
        /\ Revoked(row).stale = marked
        /\ Revoked(row).exports = row.exports
    BY <1>1, <1>2 DEF Rows, States
  <1> QED
    BY <1>3 DEF marked

LEMMA HandlerKeeps ==
    ASSUME ServiceInv, NEW p, Handler(p)
    PROVE  ServiceInv'
  <1>1. p \in Providers =>
            connector[p] \in Rows /\ Sound(p)
    BY DEF ServiceInv, ServiceType
  <1>2. ASSUME NEW role \in BOOLEAN, Connect(p, role)
        PROVE  ServiceInv'
    <2> DEFINE waits == [connector[p] EXCEPT !.state = "connecting"]
               row == IF p \in RoleProviders /\ ~ConnectFails(p, role)
                      THEN [waits EXCEPT !.state = "connected",
                                         !.secrets = TRUE]
                      ELSE waits
    <2>1. Put(p, row) /\ asked' = asked \cup {p}
      BY <1>2 DEF Connect
    <2>2. p \in Providers => row \in Rows /\ row.state # "disconnected"
      BY <1>1 DEF Rows, States
    <2> HIDE DEF row
    <2> QED
      BY <2>1, <2>2, PutKeeps
  <1>3. CASE OAuthCallback(p)
    <2>1. CASE CallbackFails(p)
      BY <1>3, <2>1 DEF OAuthCallback, ServiceInv, ServiceType, Sound
    <2>2. CASE ~CallbackFails(p)
      <3> DEFINE row == [connector[p] EXCEPT !.state = "connected",
                                             !.secrets = TRUE]
      <3>1. Put(p, row) /\ asked' = asked \cup {p}
        BY <1>3, <2>2 DEF OAuthCallback
      <3>2. p \in Providers => row \in Rows /\ row.state # "disconnected"
        BY <1>1 DEF Rows, States
      <3> HIDE DEF row
      <3> QED
        BY <3>1, <3>2, PutKeeps
    <2> QED
      BY <2>1, <2>2
  <1>4. ASSUME NEW empty \in BOOLEAN, Sync(p, empty)
        PROVE  ServiceInv'
    <2>1. asked' = asked
      BY <1>4 DEF Sync
    <2>2. CASE SyncFails(p)
      BY <1>4, <2>1, <2>2 DEF Sync, ServiceInv, ServiceType, Sound
    <2>3. CASE ~SyncFails(p)
      <3>1. p \in Providers => p \in asked
        BY <1>1, <2>3 DEF SyncFails, Sound
      <3>2. CASE empty
        <4> DEFINE row == [connector[p] EXCEPT !.state = "error"]
        <4>1. Put(p, row)
          BY <1>4, <2>3, <3>2 DEF Sync
        <4>2. p \in Providers => row \in Rows /\ row.state # "disconnected"
          BY <1>1 DEF Rows, States
        <4> HIDE DEF row
        <4> QED
          BY <2>1, <3>1, <4>1, <4>2, PutKeeps
      <3>3. CASE ~empty
        <4> DEFINE row == [connector[p] EXCEPT !.state = "connected",
                                               !.exports = @ + 1]
        <4>1. Put(p, row) /\ connector[p].exports < MaxEvidence
          BY <1>4, <2>3, <3>3 DEF Sync
        <4>2. p \in Providers => connector[p].exports + 1 \in 0 .. MaxEvidence
          BY <1>1, <4>1, ConnectorsAssumption DEF Rows
        <4>3. p \in Providers => row \in Rows /\ row.state # "disconnected"
          BY <1>1, <4>2 DEF Rows, States
        <4> HIDE DEF row
        <4> QED
          BY <2>1, <3>1, <4>1, <4>3, PutKeeps
      <3> QED
        BY <3>2, <3>3
    <2> QED
      BY <2>2, <2>3
  <1>5. CASE Revoke(p)
    <2>1. Put(p, Revoked(connector[p])) /\ asked' = asked \ {p}
      BY <1>5 DEF Revoke
    <2>2. p \in Providers =>
              /\ Revoked(connector[p]) \in Rows
              /\ Revoked(connector[p]).state = "disconnected"
              /\ ~Revoked(connector[p]).secrets
              /\ Revoked(connector[p]).stale
                     <=> Revoked(connector[p]).exports > 0
      BY <1>1, RevokedFacts
    <2> QED
      BY <2>1, <2>2, PutKeeps
  <1> QED
    BY <1>2, <1>3, <1>4, <1>5 DEF Handler

-----------------------------------------------------------------------------
(* Each step of the page and of everyone else calls one handler, or none,   *)
(* or the process starts again.                                             *)

LEMMA StepCalls ==
    ASSUME [Next]_vars
    PROVE  UNCHANGED serviceVars \/ (\E p : Handler(p)) \/ Restart
  <1>1. ASSUME NEW p \in Providers,
               ClickConnect(p) \/ ClickSync(p) \/ OpenDialog(p)
        PROVE  UNCHANGED serviceVars
    BY <1>1 DEF ClickConnect, ClickSync, OpenDialog, Sends, Turns
  <1>2. ASSUME NEW p \in Providers, Serve(p)
        PROVE  Handler(p)
    BY <1>2 DEF Serve, Handler
  <1>3. ASSUME CloseDialog \/ ConfirmRevoke \/ GoBack \/ ServeList \/ Lost
               \/ ListArrives \/ AnswerArrives
        PROVE  UNCHANGED serviceVars
    BY <1>3 DEF CloseDialog, ConfirmRevoke, Sends, Turns, GoBack, ServeList,
                Lost, ListArrives, AnswerArrives
  <1>4. ASSUME Consent
        PROVE  \E p : Handler(p)
    BY <1>4 DEF Consent, Handler
  <1>5. ASSUME OtherBrowser
        PROVE  \E p : Handler(p)
    BY <1>5 DEF OtherBrowser, Handler
  <1>6. ASSUME ProcessRestarts
        PROVE  Restart
    BY <1>6 DEF ProcessRestarts
  <1>7. CASE UNCHANGED vars
    BY <1>7 DEF vars
  <1> QED
    BY <1>1, <1>2, <1>3, <1>4, <1>5, <1>6, <1>7 DEF Next

LEMMA RestartKeeps ==
    ASSUME ServiceInv, Restart
    PROVE  ServiceInv'
  <1>1. connector' = [p \in Providers |-> Seed] /\ keyed' = keyed
        /\ asked' = {}
    BY DEF Restart
  <1>2. ServiceType'
    BY <1>1, SeedFacts DEF ServiceInv, ServiceType
  <1>3. \A p \in Providers : Sound(p)'
    BY <1>1, SeedFacts DEF Sound
  <1> QED
    BY <1>2, <1>3 DEF ServiceInv

LEMMA ServiceStep ==
    ASSUME ServiceInv, [Next]_vars
    PROVE  ServiceInv'
  <1>1. CASE UNCHANGED serviceVars
    BY <1>1 DEF serviceVars, ServiceInv, ServiceType, Sound
  <1> QED
    BY <1>1, StepCalls, HandlerKeeps, RestartKeeps

LEMMA ServiceInvariant == Spec => []ServiceInv
  <1>1. Init => ServiceInv
    <2> SUFFICES ASSUME Init PROVE ServiceInv
      OBVIOUS
    <2>1. connector = [p \in Providers |-> Seed] /\ keyed \in BOOLEAN
          /\ asked = {}
      BY DEF Init, ServiceInit
    <2> QED
      BY <2>1, SeedFacts DEF ServiceInv, ServiceType, Sound
  <1>2. ServiceInv /\ [Next]_vars => ServiceInv'
    BY ServiceStep
  <1> QED
    BY <1>1, <1>2, PTL DEF Spec

\* "sync stoppee" (connectors-grid.tsx:405): whichever browsers show it
\* connected and what they send, a revoked connector is off until someone
\* asks for it.
THEOREM RevokedIsOff == Spec => []OffUntilAsked
  <1>1. ServiceInv => OffUntilAsked
    BY DEF ServiceInv, Sound, OffUntilAsked
  <1> QED
    BY <1>1, ServiceInvariant, PTL

\* connectors-grid.tsx:399: a connector that collected something before it was
\* asked for again, and revoked again, carries the flag as well.
THEOREM AllCollectedIsMarked == Spec => []CollectedIsStale
  <1>1. ServiceInv => CollectedIsStale
    BY DEF ServiceInv, Sound, CollectedIsStale
  <1> QED
    BY <1>1, ServiceInvariant, PTL

-----------------------------------------------------------------------------
(* The page.  What it holds is the list as it was served, unless it is in    *)
(* doubt, until the answer to a request that changes a connector.            *)

Held == \/ page.op = Null
        \/ page.op = "list" /\ page.reply = "ok"
        \/ page.reply = "none"

GridInv ==
    /\ page.op = "list" => page.reply # "refused"
    /\ page.op = "list" /\ page.reply = "none" => page.items = Null
    /\ ~doubt =>
           /\ page.op # Null => page.reply # "lost"
           /\ page.op = "connect" => page.reply # "refused"
           /\ Held /\ page.items # Null =>
                  \A p \in Providers : page.items[p] = Card(p)

PageInv == ServiceInv /\ page \in Pages /\ doubt \in BOOLEAN /\ GridInv

LEMMA FreshFacts ==
    Fresh \in Pages /\ Fresh.op = "list" /\ Fresh.reply = "none"
    /\ Fresh.items = Null
  BY DEF Fresh, Pages, Operations

LEMMA CardsType ==
    ASSUME ServiceInv
    PROVE  [p \in Providers |-> Card(p)] \in [Providers -> Cards]
  BY DEF ServiceInv, ServiceType, Card, Cards, Rows

\* The page changes and no connector does.
LEMMA TurnsKeeps ==
    ASSUME PageInv, NEW state \in Pages, Turns(state),
           state.op = "list" => state.reply # "refused",
           state.op = "list" /\ state.reply = "none" => state.items = Null,
           ~doubt => \/ state.op = Null \/ state.reply = "none",
           ~doubt => state.items = Null \/ (Held /\ state.items = page.items)
    PROVE  page' \in Pages /\ doubt' \in BOOLEAN /\ GridInv'
  <1>1. page' = state /\ doubt' = doubt /\ connector' = connector
    BY DEF Turns, serviceVars
  <1>2. ASSUME ~doubt, state.items # Null, NEW p \in Providers
        PROVE  state.items[p] = Card(p)
    BY <1>2 DEF PageInv, GridInv
  <1>3. \A p \in Providers : Card(p)' = Card(p)
    BY <1>1 DEF Card
  <1> QED
    BY <1>1, <1>2, <1>3, GridAssumption
       DEF PageInv, GridInv, Held, Operations

LEMMA PageStep ==
    ASSUME PageInv, [Next]_vars
    PROVE  page' \in Pages /\ doubt' \in BOOLEAN /\ GridInv'
  <1>0. page \in Pages /\ doubt \in BOOLEAN /\ GridInv
    BY DEF PageInv
  <1>1. ASSUME NEW p \in Providers, ClickConnect(p) \/ ClickSync(p)
        PROVE  page' \in Pages /\ doubt' \in BOOLEAN /\ GridInv'
    <2>1. PICK op \in {"connect", "sync"} : Sends(op, p) /\ page.op = Null
      BY <1>1 DEF ClickConnect, ClickSync, Busy
    <2> DEFINE state == [page EXCEPT !.op = op, !.target = p,
                                     !.reply = "none"]
    <2>2. state \in Pages /\ state.op # "list" /\ state.reply = "none"
          /\ state.items = page.items
      BY <1>0 DEF Pages, Operations
    <2>3. Turns(state)
      BY <2>1 DEF Sends
    <2> HIDE DEF state
    <2> QED
      BY <2>1, <2>2, <2>3, TurnsKeeps DEF Held
  <1>2. ASSUME ConfirmRevoke
        PROVE  page' \in Pages /\ doubt' \in BOOLEAN /\ GridInv'
    <2> DEFINE state == [page EXCEPT !.op = "revoke", !.target = page.dialog,
                                     !.reply = "none"]
    <2>1. Turns(state) /\ page.op = Null
      BY <1>2 DEF ConfirmRevoke, Sends, Busy
    <2>2. state \in Pages /\ state.op # "list" /\ state.reply = "none"
          /\ state.items = page.items
      BY <1>0 DEF Pages, Operations
    <2> HIDE DEF state
    <2> QED
      BY <2>1, <2>2, TurnsKeeps DEF Held
  <1>3. ASSUME NEW d \in Providers \cup {Null},
               Turns([page EXCEPT !.dialog = d])
        PROVE  page' \in Pages /\ doubt' \in BOOLEAN /\ GridInv'
    <2> DEFINE state == [page EXCEPT !.dialog = d]
    <2>1. state \in Pages /\ state.op = page.op /\ state.reply = page.reply
          /\ state.items = page.items
      BY <1>0 DEF Pages, Operations
    <2>2. page' = state /\ doubt' = doubt /\ connector' = connector
      BY <1>3 DEF Turns, serviceVars
    <2> HIDE DEF state
    <2> QED
      BY <1>0, <2>1, <2>2 DEF GridInv, Held, Card
  <1>4. ASSUME Consent \/ GoBack
        PROVE  page' \in Pages /\ doubt' \in BOOLEAN /\ GridInv'
    BY <1>4, FreshFacts DEF Consent, GoBack, GridInv
  <1>5. ASSUME ServeList
        PROVE  page' \in Pages /\ doubt' \in BOOLEAN /\ GridInv'
    <2> DEFINE cards == [p \in Providers |-> Card(p)]
    <2>1. cards \in [Providers -> Cards]
      BY CardsType DEF PageInv
    <2>2. /\ page' = [page EXCEPT !.reply = "ok", !.items = cards]
          /\ doubt' = FALSE /\ connector' = connector
          /\ page.op = "list"
      BY <1>5 DEF ServeList, Waiting, serviceVars
    <2>3. \A p \in Providers : cards[p] = Card(p)'
      BY <2>2 DEF Card
    <2> HIDE DEF cards
    <2>4. page' \in Pages /\ page'.reply = "ok" /\ page'.items = cards
          /\ page'.op = "list"
      BY <1>0, <2>1, <2>2 DEF Pages, Operations
    <2> QED
      BY <2>2, <2>3, <2>4 DEF GridInv
  <1>6. ASSUME NEW p \in Providers, Serve(p)
        PROVE  page' \in Pages /\ doubt' \in BOOLEAN /\ GridInv'
    <2> DEFINE failed == Waiting("connect") /\ ConnectFails(p, TRUE)
    <2>1. doubt' = (doubt \/ failed) /\ page.reply = "none"
          /\ page.op \in {"connect", "sync", "revoke"}
      BY <1>6 DEF Serve, Waiting
    <2>2. PICK reply \in {"ok", "refused"} :
              /\ page' = [page EXCEPT !.reply = reply]
              /\ page.op = "connect" /\ reply = "refused" => failed
      BY <1>6 DEF Serve, Replies, Waiting
    <2> HIDE DEF failed
    <2>3. doubt' \in BOOLEAN
      BY <1>0, <2>1
    <2>4. page' \in Pages /\ page'.reply = reply /\ page'.op = page.op
      BY <1>0, <2>2 DEF Pages, Operations
    <2>5. ~Held'
      BY <2>1, <2>4, GridAssumption DEF Held, Operations
    <2> QED
      BY <2>1, <2>2, <2>3, <2>4, <2>5 DEF GridInv
  <1>7. ASSUME Lost
        PROVE  page' \in Pages /\ doubt' \in BOOLEAN /\ GridInv'
    <2>1. /\ page' = [page EXCEPT !.reply = "lost",
                            !.items = IF page.op = "list" THEN Null ELSE @]
          /\ doubt' = TRUE
      BY <1>7 DEF Lost
    <2>2. page' \in Pages /\ page'.reply = "lost"
      BY <1>0, <2>1 DEF Pages, Operations
    <2> QED
      BY <2>1, <2>2 DEF GridInv
  <1>8. ASSUME ListArrives
        PROVE  page' \in Pages /\ doubt' \in BOOLEAN /\ GridInv'
    <2>1. /\ page.op = "list" /\ page.reply # "none"
          /\ doubt' = (doubt \/ page.reply # "ok") /\ connector' = connector
          /\ page' = [Rests EXCEPT
                   !.items = IF page.reply = "ok" THEN @ ELSE Assumed,
                   !.dialog = IF page.target = @ THEN Null ELSE @]
      BY <1>8 DEF ListArrives, serviceVars
    <2>2. Assumed \in [Providers -> Cards]
      BY DEF Assumed, Cards, States
    <2>3. page' \in Pages /\ page'.op = Null
          /\ (page.reply = "ok" => page'.items = page.items)
      BY <1>0, <2>1, <2>2 DEF Pages, Rests
    <2>4. doubt' \in BOOLEAN /\ (~doubt' => ~doubt /\ page.reply = "ok")
      <3> DEFINE lost == page.reply # "ok"
      <3>1. doubt' = (doubt \/ lost) /\ lost \in BOOLEAN
        BY <2>1
      <3>2. doubt' \in BOOLEAN /\ (~doubt' => ~doubt /\ ~lost)
        <4> HIDE DEF lost
        <4> QED
          BY <1>0, <3>1
      <3> QED
        BY <3>2
    <2>5. \A p \in Providers : Card(p)' = Card(p)
      BY <2>1 DEF Card
    <2>6. ~doubt' /\ page'.items # Null =>
              \A p \in Providers : page'.items[p] = Card(p)'
      BY <1>0, <2>1, <2>3, <2>4, <2>5 DEF GridInv, Held
    <2> QED
      BY <2>3, <2>4, <2>6, GridAssumption DEF GridInv, Operations
  <1>9. ASSUME AnswerArrives
        PROVE  page' \in Pages /\ doubt' \in BOOLEAN /\ GridInv'
    <2> DEFINE state == IF page.op = "connect" THEN AfterConnect
                        ELSE AfterOther
    <2>1. page.op \in Operations \ {"list"} /\ page.reply # "none"
          /\ Turns(state)
      BY <1>9 DEF AnswerArrives
    <2>2. Rests \in Pages /\ Rests.op = Null /\ Rests.reply = "none"
          /\ Reloads \in Pages /\ Reloads.op = "list"
          /\ Reloads.reply = "none" /\ Reloads.items = Null
      BY <1>0 DEF Pages, Rests, Reloads, Operations
    <2>3. page.op = "connect" /\ ~doubt => page.reply = "ok"
      BY <1>0, <2>1, GridAssumption DEF GridInv, Operations, Pages
    <2>4. ~doubt => page.reply # "lost"
      BY <1>0, <2>1, GridAssumption DEF GridInv
    <2>5. /\ state \in Pages
          /\ state.op = "list" => state.reply = "none" /\ state.items = Null
          /\ ~doubt => state.items = Null
          /\ ~doubt => state.reply = "none"
      <3>1. CASE page.op = "connect"
        <4> DEFINE leaves == [Rests EXCEPT !.consent = page.target,
                                           !.items = Null]
        <4>1. leaves \in Pages /\ leaves.items = Null /\ leaves.op = Null
              /\ leaves.reply = "none"
          BY <1>0, <2>2 DEF Pages
        <4>2. AfterConnect \in {Rests, Reloads, leaves}
          BY DEF AfterConnect
        <4>3. page.reply = "ok" => AfterConnect \in {Reloads, leaves}
          BY DEF AfterConnect
        <4> HIDE DEF leaves
        <4> QED
          BY <2>2, <2>3, <3>1, <4>1, <4>2, <4>3, GridAssumption DEF Operations
      <3>2. CASE page.op # "connect"
        <4> DEFINE rests == [Rests EXCEPT !.dialog =
                                 IF page.op = "revoke" THEN Null ELSE @]
        <4>1. rests \in Pages /\ rests.op = Null
          BY <1>0, <2>2 DEF Pages
        <4>2. AfterOther = IF page.reply # "lost" THEN Reloads ELSE rests
          BY DEF AfterOther
        <4> HIDE DEF rests
        <4> QED
          BY <2>2, <2>4, <3>2, <4>1, <4>2, GridAssumption DEF Operations
      <3> QED
        BY <3>1, <3>2
    <2> HIDE DEF state
    <2> QED
      BY <2>1, <2>5, TurnsKeeps
  <1>10. ASSUME OtherBrowser \/ ProcessRestarts
         PROVE  page' \in Pages /\ doubt' \in BOOLEAN /\ GridInv'
    <2>1. doubt' = TRUE
      BY <1>10 DEF OtherBrowser, ProcessRestarts
    <2>2. page' = page \/ (page.reply = "none" /\ page.op # Null
                           /\ page' = [page EXCEPT !.reply = "lost"])
      BY <1>10 DEF OtherBrowser, ProcessRestarts, Busy
    <2>3. page' \in Pages /\ page'.op = page.op /\ page'.items = page.items
          /\ page'.reply \in {page.reply, "lost"}
      BY <1>0, <2>2 DEF Pages
    <2> QED
      BY <1>0, <2>1, <2>3 DEF GridInv
  <1>11. CASE UNCHANGED vars
    BY <1>0, <1>11 DEF vars, serviceVars, GridInv, Held, Card
  <1> QED
    BY <1>1, <1>2, <1>3, <1>4, <1>5, <1>6, <1>7, <1>8, <1>9, <1>10, <1>11
       DEF Next, OpenDialog, CloseDialog

\* connectors-grid.tsx:134-191: for any interleaving with other browsers, the
\* page that rests shows every connector as it is, unless it is in doubt.
THEOREM GridIsTruthful == Spec => []GridTellsTruth
  <1>1. Init => PageInv
    <2> SUFFICES ASSUME Init PROVE PageInv
      OBVIOUS
    <2>1. connector = [p \in Providers |-> Seed] /\ keyed \in BOOLEAN
          /\ asked = {} /\ page = Fresh /\ doubt = TRUE
      BY DEF Init, ServiceInit
    <2>2. ServiceInv
      BY <2>1, SeedFacts DEF ServiceInv, ServiceType, Sound
    <2> QED
      BY <2>1, <2>2, FreshFacts DEF PageInv, GridInv
  <1>2. PageInv /\ [Next]_vars => PageInv'
    BY PageStep, ServiceStep DEF PageInv
  <1>3. PageInv => GridTellsTruth
    BY DEF PageInv, GridInv, Held, GridTellsTruth, Busy
  <1> QED
    BY <1>1, <1>2, <1>3, PTL DEF Spec
=============================================================================
