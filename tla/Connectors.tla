------------------------------ MODULE Connectors ------------------------------
(***************************************************************************)
(* The connectors of an organisation (apps/api/src/connectors), which      *)
(* collect evidence from its cloud accounts.  They live in the memory of   *)
(* the process, as the evidence registry does, and every handler runs to   *)
(* its end at once.  What is spread over time is the OAuth consent: the    *)
(* browser leaves for the provider, and its callback comes without a       *)
(* session, whatever was done to the connector meanwhile.                  *)
(***************************************************************************)
EXTENDS Naturals

CONSTANTS
    Providers,
    RoleProviders,  \* connected by a role at once (aws), without OAuth
    MaxEvidence,    \* bound: exports collected from one provider
    Null

ASSUME ConnectorsAssumption ==
    /\ RoleProviders \subseteq Providers
    /\ MaxEvidence \in Nat
    /\ Null \notin Providers

VARIABLES
    connector,  \* the map of the service
    keyed,      \* secrets can be encrypted: a key, or no production
    asked       \* history: connectors asked for since they were last revoked

serviceVars == <<connector, keyed, asked>>

States == {"disconnected", "connecting", "connected", "syncing", "error"}

\* exports: staleEvidenceIds; stale: historicalEvidenceStale.
Rows == [state: States, secrets: BOOLEAN, exports: 0 .. MaxEvidence,
         stale: BOOLEAN]

Seed == [state |-> "disconnected", secrets |-> FALSE, exports |-> 0,
         stale |-> FALSE]

ServiceInit ==
    /\ connector = [p \in Providers |-> Seed]
    /\ keyed \in BOOLEAN
    /\ asked = {}

-----------------------------------------------------------------------------
(* The handlers: whether they succeed, and what they leave behind. *)

Put(p, row) ==
    /\ connector' = [connector EXCEPT ![p] = row]
    /\ UNCHANGED keyed

\* The state changes before the role is looked at and its secret encrypted,
\* either of which may end the handler.
ConnectFails(p, role) == p \in RoleProviders /\ ~(role /\ keyed)

Connect(p, role) ==
    LET row == [connector[p] EXCEPT !.state = "connecting"] IN
    /\ Put(p, IF p \in RoleProviders /\ ~ConnectFails(p, role)
              THEN [row EXCEPT !.state = "connected", !.secrets = TRUE]
              ELSE row)
    /\ asked' = asked \cup {p}

\* The secrets of an account are stored before the state says connected.
CallbackFails(p) == p \in RoleProviders \/ ~keyed

OAuthCallback(p) ==
    /\ IF CallbackFails(p) THEN UNCHANGED <<connector, keyed>>
       ELSE Put(p, [connector[p] EXCEPT !.state = "connected",
                                        !.secrets = TRUE])
    /\ asked' = asked \cup {p}

\* Fault: any connector is synchronised, also one that was revoked.
SyncAnyway(p) == FALSE

\* Only a connector that is disconnected is refused: one whose consent is
\* still awaited is synchronised too, without secrets.
SyncFails(p) == connector[p].state = "disconnected"

\* Without data the connector is in error, until the next attempt.
Sync(p, empty) ==
    LET row == connector[p] IN
    /\ IF SyncFails(p) THEN UNCHANGED <<connector, keyed>>
       ELSE IF empty THEN Put(p, [row EXCEPT !.state = "error"])
       ELSE /\ row.exports < MaxEvidence
            /\ Put(p, [row EXCEPT !.state = "connected", !.exports = @ + 1])
    /\ UNCHANGED asked

\* Fault: the flag is set only when the connector is connected.
RevokedIfSynced(row) ==
    [row EXCEPT !.state = "disconnected", !.secrets = FALSE,
                !.stale = row.state = "connected" /\ row.exports > 0]

\* The evidence stays in the registry as it is; the connector is flagged.
Revoked(row) ==
    [row EXCEPT !.state = "disconnected", !.secrets = FALSE,
                !.stale = row.exports > 0]

Revoke(p) ==
    /\ Put(p, Revoked(connector[p]))
    /\ asked' = asked \ {p}

\* The process starts again: the connectors and the evidence are lost.
Restart ==
    /\ connector' = [p \in Providers |-> Seed]
    /\ asked' = {}
    /\ UNCHANGED keyed

-----------------------------------------------------------------------------
(* Properties. *)

\* "sync stoppee" (connectors-grid.tsx:405): from a revocation, or a restart,
\* until someone asks for the connector again, it holds no secret and
\* collects nothing, whatever pages that still show it connected send.
OffUntilAsked ==
    \A p \in Providers : p \notin asked =>
        connector[p].state = "disconnected" /\ ~connector[p].secrets

\* "Les preuves deja collectees deviennent obsoletes" (connectors-grid.tsx:
\* 399): a disconnected connector carries the flag that its evidence is stale
\* if and only if it ever collected some.  The flag is the connector's: no
\* handler marks the evidence itself, as connectors.service.ts:181 suggests.
CollectedIsStale ==
    \A p \in Providers :
        connector[p].state = "disconnected" =>
            (connector[p].stale <=> connector[p].exports > 0)

=============================================================================
