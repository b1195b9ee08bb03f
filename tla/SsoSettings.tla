----------------------------- MODULE SsoSettings -----------------------------
(***************************************************************************)
(* The SSO settings page and the members page of one browser               *)
(* (apps/web/components/sso/sso-wizard.tsx, users-mapping.tsx) over the    *)
(* API of SsoLogin.  Saving is a chain of three requests: upsert, test,    *)
(* read again.  "Annuler" only shows the form again: the chain goes on,    *)
(* and another may be started beside it.                                   *)
(***************************************************************************)
EXTENDS SsoLogin

CONSTANTS
    Owner,          \* the user of the browser
    Appointable,    \* the roles that the user assigns
    Typed           \* whether a save has a secret in its field: both, or one

ASSUME SettingsAssumption ==
    Owner \in Users /\ Appointable \subseteq Roles /\ Typed \subseteq BOOLEAN

VARIABLES
    wizard,     \* the state of the settings page
    assigning,  \* the member whose role is being saved (busy), or Null
    overlap,    \* history: requests overlapped since none was pending
    doubt       \* history: what the wizard shows may be out of date

vars == <<ssoVars, wizard, assigning, overlap, doubt>>

\* loading: "mount" before the first request; known: the provider shown.
WizardStates ==
    [phase: {"idle", "connecting", "connected", "error"},
     loading: {"mount", "yes", "no"}, known: Rows \cup {Null},
     revokeOpen: BOOLEAN]

Init ==
    /\ SsoInit
    /\ wizard = [phase |-> "idle", loading |-> "mount", known |-> Null,
                 revokeOpen |-> FALSE]
    /\ assigning = Null
    /\ overlap = FALSE
    /\ doubt = FALSE

-----------------------------------------------------------------------------
(* What the user does. *)

\* One request of the browser leaves, alone or beside others.
Sends(r, state) ==
    /\ wizard' = state
    /\ overlap' = (\E s \in Requests \ {r} : ~At(s, "idle"))
    /\ UNCHANGED doubt

Stays(state) ==
    /\ wizard' = state
    /\ UNCHANGED <<idp, member, request, appointed, assigning, overlap, doubt>>

Mount(r) ==
    /\ wizard.loading = "mount"
    /\ Ask(r, "get", Owner, Null)
    /\ Sends(r, [wizard EXCEPT !.loading = "yes"])
    /\ UNCHANGED assigning

FormShown == /\ wizard.loading = "no" /\ wizard.phase # "connecting"
             /\ ~wizard.revokeOpen

\* validateActiveMode: the fields of the mode are filled, and a secret is
\* typed or the page knows of one.
Valid(data, filled) ==
    /\ filled
    /\ data.config \in NeedsSecret =>
           data.secret \/ (wizard.known # Null /\ wizard.known.secret)

\* What may be in the form.
Typing(c) == {typed \in Typed : typed => c \in NeedsSecret}

OnSaveAndTest(r) ==
    \E c \in Configs, filled \in BOOLEAN : \E typed \in Typing(c) :
        LET data == [config |-> c, secret |-> typed] IN
        /\ FormShown
        /\ Valid(data, filled)
        /\ Ask(r, "upsert", Owner, data)
        /\ Sends(r, [wizard EXCEPT !.phase = "connecting"])
        /\ UNCHANGED assigning

SaveRefused ==
    /\ FormShown
    /\ \E c \in Configs, filled \in BOOLEAN : \E typed \in Typing(c) :
           ~Valid([config |-> c, secret |-> typed], filled)
    /\ Stays([wizard EXCEPT !.phase = "error"])

Cancel ==
    /\ wizard.loading = "no" /\ wizard.phase = "connecting"
    /\ Stays([wizard EXCEPT !.phase = "idle"])

OpenRevoke ==
    /\ FormShown /\ wizard.phase = "connected"
    /\ Stays([wizard EXCEPT !.revokeOpen = TRUE])

CloseRevoke ==
    /\ wizard.revokeOpen
    /\ Stays([wizard EXCEPT !.revokeOpen = FALSE])

OnRevoke(r) ==
    /\ wizard.revokeOpen
    /\ Ask(r, "revoke", Owner, Null)
    /\ Sends(r, wizard)
    /\ UNCHANGED assigning

\* The buttons of a member are disabled while its role is saved.
Assign(r) ==
    \E u \in Users, role \in Appointable :
        /\ member[u] # Null
        /\ assigning # u
        /\ Ask(r, "role", Owner, [user |-> u, role |-> role])
        /\ assigning' = u
        /\ Sends(r, wizard)

-----------------------------------------------------------------------------
(* What the page does with an answer. *)

PhaseOf(row) ==
    IF row.status \in {"connected", "error"} THEN row.status ELSE "idle"

\* A provider that does not exist is answered with an empty body, which is no
\* JSON: the page goes on as if the request had failed.
Reread(q, phase) ==
    IF q.row = Null THEN [wizard EXCEPT !.loading = "no"]
    ELSE [wizard EXCEPT !.loading = "no", !.known = q.row, !.phase = phase]

Refreshing(phase) == [wizard EXCEPT !.phase = phase, !.loading = "yes"]

\* Fault: the verdict of the test is shown, and the provider not read again.
AfterSuccessTrusting(q) ==
    CASE q.op = "get" -> Reread(q, wizard.phase)
      [] q.op = "upsert" -> [wizard EXCEPT !.known = q.row]
      [] q.op = "test" ->
             Refreshing(IF q.verdict = "connected" THEN "connected"
                        ELSE "error")
      [] OTHER -> wizard

AfterSuccess(q) ==
    CASE q.op = "get" ->
             Reread(q, IF q.row = Null THEN wizard.phase ELSE PhaseOf(q.row))
      [] q.op = "upsert" -> [wizard EXCEPT !.known = q.row]
      [] q.op = "test" -> Refreshing(q.verdict)
      [] q.op = "revoke" ->
             [wizard EXCEPT !.revokeOpen = FALSE, !.known = Null,
                            !.phase = "idle"]
      [] OTHER -> wizard

AfterFailure(q) ==
    CASE q.op = "get" -> [wizard EXCEPT !.loading = "no"]
      [] q.op \in {"upsert", "test"} -> [wizard EXCEPT !.phase = "error"]
      [] OTHER -> wizard

\* An upsert goes on with the test, and a test with reading again.
NextOp(q) ==
    IF q.pc # "ok" THEN Null
    ELSE CASE q.op = "upsert" -> "test" [] q.op = "test" -> "get"
           [] OTHER -> Null

Answer(r) ==
    LET q == request[r]
        next == NextOp(q)
    IN
    /\ Answered(r) /\ q.op # "preset"
    /\ Becomes(r, IF next = Null THEN Idle
                  ELSE [Idle EXCEPT !.pc = "access", !.op = next,
                                    !.user = Owner])
    /\ wizard' = IF q.pc = "ok" THEN AfterSuccess(q) ELSE AfterFailure(q)
    /\ assigning' = IF q.op = "role" THEN Null ELSE assigning
    /\ overlap' = IF next = Null THEN overlap
                  ELSE \E s \in Requests \ {r} : ~At(s, "idle")
    /\ doubt' = CASE q.op = "role" -> doubt
                  [] q.op \in {"get", "revoke"} ->
                         overlap \/ q.pc = "failed"
                         \/ (doubt /\ q.op = "get" /\ q.row = Null)
                  [] OTHER -> doubt \/ overlap \/ q.pc = "failed"

\* A visitor changes the provider behind the page.
VisitorStartsPreset(r) ==
    /\ StartPreset(r)
    /\ overlap' = TRUE /\ doubt' = TRUE
    /\ UNCHANGED <<wizard, assigning>>

Next ==
    /\ \/ /\ \/ \E r \in Requests :
                    Mount(r) \/ OnSaveAndTest(r) \/ OnRevoke(r) \/ Assign(r)
                    \/ Answer(r) \/ VisitorStartsPreset(r)
             \/ SaveRefused \/ Cancel \/ OpenRevoke \/ CloseRevoke
          /\ UNCHANGED <<flow, callback, opened>>
       \/ /\ \E r \in Requests : Serve(r) \/ RequestFails(r) \/ PresetDone(r)
          /\ UNCHANGED <<flow, callback, opened,
                         wizard, assigning, overlap, doubt>>
       \/ /\ LoginStep
          /\ UNCHANGED <<wizard, assigning, overlap, doubt>>
    /\ Observe

Spec == Init /\ [][Next]_vars

-----------------------------------------------------------------------------
(* Properties. *)

TypeOK ==
    /\ LoginTypeOK
    /\ wizard \in WizardStates
    /\ assigning \in Users \cup {Null}
    /\ overlap \in BOOLEAN /\ doubt \in BOOLEAN

\* As long as one chain of requests ends before the next begins and nothing
\* fails, the page shows the provider as it is stored, and its badge says
\* "Connecte" for no other than the provider in use.
BadgeTellsTruth ==
    /\ \A r \in Requests : At(r, "idle")
    /\ ~doubt /\ wizard.loading = "no"
    => /\ wizard.known = Null => Live = {}
       /\ wizard.known # Null => \E p \in Live : idp[p] = wizard.known
       /\ wizard.phase = "connected" =>
              wizard.known # Null /\ wizard.known.status = "connected"

=============================================================================
