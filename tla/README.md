# Annex21: a TLA+ model of its API and its pages

Annex21 is a NIS2 compliance service: a NestJS API (`apps/api`), a Next.js front
end (`apps/web`) and their shared types (`packages/shared`). The API keeps its
state in Postgres, in Redis and in a few arrays of its process. This directory
models the parts whose correctness depends on the order of things: requests that
interleave at every `await`, queries that fail half-way, processes that restart
and lose their arrays, Stripe, which repeats and reorders what it sends, browsers
that come back late from a provider, and pages whose answers overtake each other.

Paths are relative to `apps/api/src` unless they start with `apps`, `packages`,
`infra` or `README.md`; the pages are in `apps/web/components`.

- [1. Inventory](#1-inventory)
- [2. How the models are built](#2-how-the-models-are-built)
- [3. The modules](#3-the-modules)
- [4. The runs](#4-the-runs)
- [5. Disagreements between the code and what it says](#5-disagreements-between-the-code-and-what-it-says)
- [6. The proofs](#6-the-proofs)
- [7. What is abstracted, and what is left out](#7-what-is-abstracted-and-what-is-left-out)
- [8. Plan](#8-plan)

## 1. Inventory

| component | state | operations | what is hard | what makes it correct |
|---|---|---|---|---|
| billing webhooks (`billing/`) | billing columns of `orgs`, table `stripe_webhook_events` | claim an event, dispatch it, apply a status, audit it | repeated, reordered and concurrent events; failures and crashes after the claim | no event takes effect twice; every claimed event is accounted for; nothing is active that nobody paid for |
| billing checkout | the same row | read the row, call Stripe, write the row | the row changes during the call | a stale read must not undo what a webhook wrote |
| incidents and playbooks (`incidents/`) | `incidents`, `incident_steps`, `incident_step_evidence` | open, link evidence, complete a step, close | the whole incident is loaded, then saved, with awaits in between | evidence behind every done step (RG-05), one organisation, links kept, every change audited (RG-15), nothing written that the incident never was |
| evidence registry (`evidence/`) | an array of the process | create | lost at a restart while its links stay | links never cross organisations |
| trust center (`trust/`) | `trust_centers` | patch the draft, publish, unpublish | each request saves the row it read | draft is not public (RG-07), publication through the checklist |
| trust editor (`trust/trust-editor-panel.tsx`) | a form beside a copy of the row | edit, save, publish, unpublish | publishing is two requests, the second may fail | it shows the row as it is |
| sessions (`session/`) | Redis keys `session:`, `user_org:` | create, get, update, destroy, expiry | update reads, then writes, the whole record | an ended session stays ended |
| magic links (`auth/`) | Redis keys `magic:` | request, verify, logout | a link followed twice at once; failure after it is consumed | one-shot |
| onboarding gate (`onboarding/`, `orgs/`) | array `organizations`, table `orgs`, the session's mirror | status, complete, create | three copies, swallowed errors, restarts | the gate opens only after an onboarding |
| audit trail (`audit/`) | `audit_events` | append | a query of its own, after the change | never ahead of the change, names no publication that was not one; complete when nothing fails |
| assessments, scoring, controls (`assessments/`, `controls/`) | `nis2_assessments`, `controls` | create, update, complete; update a control | whole-row saves by overlapping requests | the results are those of the answers beside them; serial edits lose nothing |
| assessment page (`assessment/assessment-panel.tsx`) | a copy of one assessment, the view | edit, validate, read results | edits overlap, their answers come in any order | it never stays on its skeleton, and shows what is stored |
| identity providers, members (`sso/`) | `org_identity_providers`, `org_members` | upsert, test, revoke, assign a role, start a preset | three queries without a transaction, a test that takes any time | at most one provider in use; a revoked one stays revoked; roles are those assigned |
| SSO login (`sso/`) | one-shot states in Redis | start, callback | the callback comes late or twice, the provider changes meanwhile | one session per login, none through a closed provider |
| SSO settings and members pages (`sso/`) | the wizard, the role buttons | save, test, cancel, revoke, assign | a chain of three requests that another overlaps | its badge is true |
| connectors (`connectors/`) | a map of the process | connect, callback, sync, revoke | late consents, refused requests that left a mark, restarts | off until asked for; a connector that has collected something says so once revoked |
| connectors page (`connectors-grid.tsx`) | a list, a dialog | the buttons of the cards | lost answers, lists that fail | it shows what is |
| start of the API (`main.ts`, `db/`, `store/`, `eu-residency`) | the schema, the seeds, the backend of each process | check, connect, migrate, seed, bind, listen | several processes start over one database, any may stop half-way | a production process listens only after its checks; a table that is served has its seeds; a start undoes no edit |
| SLA clock, playbook lists, redirect allowlist, mail, health | none | pure functions and reads | | |
| incidents, billing and onboarding pages, public trust page | copies of what the API answers | | | |

Components interact through shared state rather than messages: webhooks and
checkouts share a row; incidents read the evidence array and append to the audit
trail; every protected route reads the session and, through the gate, the
organisations; the link verification creates sessions from the organisations; the
pages hold copies of what they were answered. External parties are Stripe (calls
and webhooks), the mail provider, OAuth and SAML providers, Postgres and Redis.

`PROJECT.json` lists every component with its status, and every hazard at its line
with the properties that cover it, or why none does.

## 2. How the models are built

**One action per stretch between two awaits.** Node runs the code between two
awaits without interruption, so that stretch is one action, and requests interleave
only there. A request is a record: a program counter `pc` that names the query it
waits for, and the local variables that survive the await (`request[r]`, or
`handler[h]` and `checkout[c]` for billing). Several synchronous calls in a row are
one action.

**Queries and transactions.** One SQL statement, one transaction or one Redis
command is atomic. A transaction of `saveIncident` first updates, and so locks, the
row of the incident, hence two of them never mix. `getIncident`, which reads with
several statements and no transaction, is several actions.

**Pages.** A page is one more actor: its state is the `useState` of the component, a
click is an action guarded by what disables the button, and an answer is an action
of its own wherever another answer may come before it. Where a page waits, its
request is served and answered in the order of the code. What is shown is compared
with what is stored only while the page can know: history variables (`overlap`,
`doubt`) record that requests overlapped, that one failed, or that someone else
wrote.

**Failure.** A failed query ends its request (`QueryFails`, `CallFails`), unless
the code swallows it (`PersistFails`, `SelectNone`). A crash ends every request and
resets what lives in the process (`Crash`). In the billing model failures are
counted up to `MaxFailures`, because a liveness property needs them to stop; in the
others they are unbounded. Where a module has the constant `MayFail`, the theorems
hold for both its values; it is FALSE only in `trust_republished`, whose
counterexample needs no failure.

**History variables** (`applied`, `handled`, `lost`, `committed`, `untold`, `seen`,
`origin`, `onboarded`, `appointed`, `opened`, `closed`, `asked`, `cut`, `overlap`,
`doubt`, `stale`) record what happened for the properties to speak of. Guards read
only `acked` (in the fairness of Stripe) and `origin`: a session id without an origin
has not been drawn yet, so it is fresh for `CreateSession` and no cookie carries it.

**Faults.** Definitions whose comment starts with "Fault:" are not used by the
specifications. Each is a plausible bug of the code, and replaces the definition
listed with it in `PROJECT.json` to show that a property notices it.

**Refinement.** `IncidentLifecycle` and `TrustLifecycle` say in a page what the API
promises to clients that call it at once: an operation takes effect in one step, on a
state that its object had at some time between the call and that step. Such a `call`
is the only abstract variable beside the tables. The detailed modules instantiate
them (`INSTANCE ... WITH`): the tables map to themselves, and a request that has been
received and has not made its last save maps to a call, whose object has been what the
history variable `seen` recorded. The modules are checked, and proved, to implement
the lifecycles with any number of requests, failures and crashes.

## 3. The modules

### BillingWebhooks

State: `billing` (columns of `orgs`), `claimed` (table `stripe_webhook_events`),
`audited` (the status of the last `billing.status_changed` event), one `handler` per
webhook request, one `checkout` per checkout request, and `acked`, what Stripe knows
to be answered.

| action | code |
|---|---|
| `Deliver` | Stripe posts an event, at any time and again (`billing.webhook.controller.ts`) |
| `ClaimNew`, `ClaimDuplicate` | `claimWebhookEvent`, `billing.service.core.ts:221-231` |
| `Drop`, `Resolve` | `dispatchEvent`, `resolveOrgId`, the early returns |
| `ReadBefore`, `ApplyStatus`, `AuditStatusChange` | the three awaits of `applyStatus`, `:289-318` |
| `QueryFails`, `CustomerConflict` | the dispatch throws; the claim is kept |
| `ReadExisting`, `SaveCheckout`, `AnswerCheckout`, `CheckoutFails` | `createCheckoutSession`, `:95-193` |
| `Crash` | the process stops |

### IncidentPlaybook and IncidentLifecycle

State: the tables (`status`, `org`, `step`, `links`), the evidence `registry` in
memory, the `audit` trail, and requests that carry the snapshot they loaded.
`ReadRow`, `ReadSteps` and the actions at `pc = "links"` are the queries of
`getIncident`; `LinkPrepared`, `CompletionChecked`, `CompletionPrepared` and
`ClosePrepared` are the decisions; `SaveIncident` and `CreateIncident` the
transactions; `AppendAudit` the event. `completeStep` links its evidence one by one,
each with its own load and save, then reloads: the phases `check`, `link`, `done`.

`IncidentLifecycle` is what the operations promise to clients that call them at once.
Each takes effect at once: `Open` on an incident that is absent by then; `Link` of
evidence of the same organisation, `Complete` with the evidence there by then, and
`Close`, on an incident that was open at some time since the call. What they write of
the rest is a status, and step statuses, that the incident had since the call, which
is what the whole-row save allows and no more: a save may bring back what was there
when its request was received, but nothing older and nothing that never was.

### TrustCenter and TrustLifecycle

State: the rows `center`, the requests with the row they read, the `audit` actions.
`LoadPublish`, `LoadUnpublish` and `LoadPatch` read a row and decide, `SaveTrust`
upserts all its columns, `AppendAudit` follows. Attestations have no writer in the
code, hence `Attested` is a constant. `TrustLifecycle` is the abstract
specification: publishing and withdrawing are explicit, publishing is gated by the
checklist, and editing never changes whether the edited row is public. Each operation
takes effect on a row that the center had since the call. Where a patch overlaps a
withdrawal that row may be an older one, which is how a center is published again
without a publication (section 5).

### SessionGate

State: the Redis keys (`token`, `session`, `userOrg`), the array of organisations
(`memory`), table `orgs` (`table`), and requests.

| action | code |
|---|---|
| `RequestLink`, `Verify`, `TakeToken` | `auth.service.ts:38-77`, `:82-89`; `getDel` |
| `Call`, `AnswerFromSession`, `LoadSession` | a cookie arrives, `SessionGuard`, then `statusFor` or `complete` up to the first await |
| `ReadUserOrg`, `SelectFound`, `SelectNone` | `getUserOrgId`, `findCompletedForHydration` with its query and its merge into memory |
| `ReadCached`, `CreateSession` | `SessionService.create` |
| `PersistOrg`, `PersistFails` | `persistOrg`, whose errors are swallowed |
| `RememberOrg`, `ReloadSession`, `SaveSession` | `setUserOrgId` and the two commands of `update`, in the order of the caller: a completion remembers first, a guarded request last |
| `CreateOrg`, `Logout`, `LinkExpires`, `SessionExpires`, `UserOrgExpires`, `CallFails`, `Crash` | the operation of that name |

### TrustEditorPanel

EXTENDS `TrustCenter` with one page (`trust-editor-panel.tsx`) among other clients.

| action | code |
|---|---|
| `Loads` | `refresh`, `:42-56` |
| `EditForm`, `OpenModal`, `CloseModal` | the fields, the buttons of the modal; the fields are not disabled while the page is busy |
| `SaveDraftFields`, `OnUnpublish` | the functions of these names |
| `ConfirmPublish`, `PublishConfirmed` | the two requests of `confirmPublish`, `:103-122` |
| `Reload` | the page is loaded again; its requests are served all the same |
| `Served`, `Fails` | the API works on a request, of this page or of another client; its end is the answer |
| `OtherClient` | a request of another client of the same center |

### AssessmentScoring, Assessments, AssessmentPanel

`AssessmentScoring` is pure: `computeScope`, `computeDomainScores`,
`computeMaturity` (with the rounding of `Math.round`), `computeGaps` (the positions
found in the catalogue, in its order within each priority, as a stable sort leaves
them). `Assessments` is the API: `stored`, one row per assessment and control, and
requests that load a row (`Load`, with the refusals and the changes decided before
the next await), write all of it (`Save`), and answer what they read again
(`Reread`). `AssessmentPanel` is the page: `Refresh`, `StartAssessment`,
`PatchAnswers`, `ToggleAck`, `Finish`, `OnControlStatus`, `OpenGap`, `BackToResults`
are its buttons and fields, `Answer` what `assessment-panel.tsx:60-160` does with an
answer, in whatever order they arrive.

### IdentityProviders, SsoLogin, SsoSettings

`IdentityProviders` is the administration side of `sso.service.ts` and the tables:
an access check and a read of the current provider (`Refuse`, `ReadCurrent`,
`AllowAssign`), then `RetireOthers` and `WriteProvider` (the queries of `upsertIdp`),
`MarkTesting`, `Probe`, `StoreVerdict` (the test), `AssignRole`. `Store` is the
partial unique index: a write that would put two providers in use fails.
`SsoLogin` adds logins: `StartLogin`, `TakeState` (GETDEL), `CheckProvider`,
`JoinMember`, `OpenSession` (`completeLogin`, `:325-380`). `SsoSettings` adds the
browser of an administrator: the chain upsert, test, read of `sso-wizard.tsx`, the
form it refuses when a field is missing, its "Annuler", its revocation dialog, and the
role buttons of the members page. `StartPreset` is what a visitor of the login page may
start: `Presets` are the ones that the environment configures, in production too
(section 5).

### Connectors, ConnectorsGrid

`Connectors` has the map of the process and one operator per handler, each of which
runs to its end without an await: whether it fails and what it leaves are two
operators, since a handler that throws keeps what it has written. `ConnectorsGrid` is
the page: one request at a time, a list after each, the confirmation dialog, the
consent that leaves the page, and everyone else.

### Boot

State: the processes (`pc`, `backend`, `store`, `sessions`), the schema, the seeds.
`Check` is `assertEuResidency`; `Connect`, `Migrate`, `Count`, `Insert` are
`PgService.onModuleInit`, statement by statement; `WithoutDatabase` its `catch`;
`Bind` is `StoreModule`, `Redis` is `RedisService.onModuleInit`. Processes that listen
edit seeds and insert rows meanwhile.

The `MC*` modules give the constants of the configurations their values: what the
events of a run carry, whose evidence is whose, the seeds, the symmetry.

## 4. The runs

| run | question | bounds |
|---|---|---|
| `billing_claims` | types; at most one effect; the ledger of claims; the audit trail names no status that no event wrote; nothing is active that nobody paid for; every event is answered in the end, and one that names its organisation takes effect or is lost | 2 handlers, 1 checkout, 3 events for 2 organisations (two of them compete for a customer), 1 failure |
| `billing_lost` | *violated*: an event that is refused has been processed | 1 handler, 1 event, 1 failed query |
| `billing_reactivated` | *violated*: an organisation becomes active only on a payment | 2 handlers, 1 checkout, 2 events, no failure |
| `incident_races` | types; evidence behind done steps; one organisation; links kept; every commit audited or cut off; the lifecycle is implemented | 2 requests, 1 incident, 2 steps (one requires evidence), 1 evidence and 2 organisations, failures and crashes, at most 3 distinct changes (constraint `MCChanges`) |
| `trust_races` | types; an unattested draft is never public; the trail names no publication or withdrawal that cannot have happened; how a center becomes public; the lifecycle is implemented | 2 requests of any kind, 2 centers (an attested draft, an unattested one), a patch that blanks the name and one that fills both fields, failures |
| `trust_editor` | the editor shows what is stored | 1 page, another client of the same center, 2 requests that overlap, failures and reloads; the name in the form is not blanked (constraint `MCForm`) |
| `trust_republished` | *violated*: public only while a publish request is served | 2 requests, 1 public center, no failure |
| `sessions` | types; links are one-shot; the gate needs an onboarding; an ended session stays ended | 2 requests, 2 links, 2 sessions, 2 organisations of which one is seeded, failures and restarts |
| `assessments` | types; results match answers; gaps are those under their thresholds, most urgent first; the page shows what is stored; serial saves are exact; the page leaves its skeleton | 1 page, 2 requests that overlap, 1 assessment, 1 control, failures and crashes |
| `sso` | types; a closed provider stays closed; one session per login; roles are those assigned; the badge is true | 1 page, 2 requests, 2 providers, 1 login whose callback may come twice, failures; 1 administrator, the founder or an appointed owner, who types the secret at each save; 1 preset of the environment |
| `connectors` | off until asked for; the flag of what was collected; the page shows what is | 1 page, other browsers, 2 connectors (OAuth and role), 2 exports, lost answers, restarts |
| `boot` | what the checks of the start guarantee of a process that listens; edits survive starts | 2 servers, the migrate script, 4 starts, 2 migrations, 2 tables of 2 seeds |

**Why the bounds are enough.** The races of this code are between a request that
has loaded something and one that writes it: two requests exhibit them, and a third
adds another stale copy of the same kind. One incident is enough because requests on
different incidents share only the registry and the trail. Two organisations are
needed for evidence that must not cross, and the one incident may be of either; two steps because a save overwrites the
steps it does not mean to change. For the claims a second failure adds nothing to
the first, since every failure ends in the same two sets. Two session ids and two
links are what a second session for the same link takes; one of the two
organisations is missing from the array after a restart. Two edits on their way are
enough for answers to overtake each other; the edits of the run change the scope and
move one domain across its threshold. Two providers are what the unique index
arbitrates; a second use of one callback is what GETDEL refuses. Two exports
separate what was collected before a reconnection from what came after. Two
processes and two rows per table are what a seeding cut short, or overtaken by a
process that serves, takes; a third start is one that finds a half-seeded table.
The theorems of section 6 remove the bounds for the properties they state.

**What some properties do not say.** `CommitsAccounted` is about sets of events: of
two requests that make the same change twice, it does not tell which one was audited.
A failure between the commit and the append leaves a change without its event, which
the property counts in `untold`: it says that nothing else does. `AuditTellsTruth`
says that what is in the trail can have happened, not that all that happened is there.
`AuditNeverAhead` says neither that the last audited status is the current one (with
two handlers the events may be appended in the other order) nor from which status a
transition went. The `LifecycleSpec` of either module does not say that a closed
incident stays closed or that a withdrawn center stays withdrawn, which is false
(section 5): it says how old what a save brings back may be; nor does it tell which of
the evidence of its organisation a completion links. `GatedPublication` names the
patch that puts back a public row as the one other way to become public.
`EndedForGood` leaves out the update that had read the session before it ended.
`CollectedIsStale` is about the flag of the connector: no evidence is ever marked.
`ServedWhenReady` says what the code checks, which is less than its messages say
(section 5). `RolesAreAppointed` is checked with one user, whose logins and
assignments meet on a row that exists; the theorem is for any users.
`ShownIsStored`, `SerialSavesExact`, `BadgeTellsTruth`, `GridTellsTruth` and
`EditorTellsTruth` are conditional on what a page can know; the conditions are
history variables of the models, and each property names the cases it leaves out.
`RevokedForGood` speaks of providers that no request in flight still holds: a test
or a callback that has read the provider before may still write, as section 5 says.

**Fairness.** *Billing.* `WF_vars(Serve(h))`: a handler that has received an event
goes on; Node schedules every settled promise, and the driver settles each query.
`SF_vars(... Deliver(h, e))` while `e` is not acknowledged: Stripe goes on repeating
an event that was not answered 2xx, and finds a handler again and again since
handlers always finish. `MaxFailures` makes failures stop. *Assessment page.*
`WF_vars` on the first rendering, and on each request being served or its answer
handed: a browser runs its effects, the API answers what it received or the
connection ends, which is an answer too. Failures and crashes are not fair and are
not bounded: the page settles in spite of them, since each of them is an answer.

**Deadlock** is checked in every run but `boot`, where the processes may all have
ended with no start left.

**Symmetry** is used in `incident_races`, `trust_races` and `trust_editor` (requests),
`sessions` (requests, session ids, links of one user), `sso` (providers, requests) and
`boot` (servers), where the values are interchangeable and only invariants,
single-step properties and refinements without fairness are checked.

## 5. Disagreements between the code and what it says

Three runs have a short counterexample to what the repository says of itself.

- `billing_lost`: **an event that is refused has not been processed.** The claim is
  inserted before the dispatch and kept when the dispatch fails
  (`billing.service.core.ts:221-238`), so Stripe's repetition is answered "duplicate"
  and the event never takes effect; `store/domain-store.ts:107` says of a refused
  claim "already processed (idempotent)".
- `billing_reactivated`: **a canceled organisation is active again without a
  payment.** A checkout writes back the status that it read before its call to Stripe
  (`:172`), over the cancellation that came in during the call; `:336` says "Pending
  until invoice.paid / subscription active".
- `trust_republished`: **a withdrawn trust center is public again.** A patch upserts
  the status it read (`postgres.domain-store.ts:535`);
  `trust/dto/publish-trust.dto.ts:5` says "Publish n'est jamais automatique".

The models show these too; each is a behaviour of the module named, reached when the
property in parentheses is read without its conditions.

*Lost or undone by an overlap.*

- A `checkout.session.completed` that arrives after `invoice.paid` writes `pending`
  over `active` (`billing.service.core.ts:240-285`, in whatever order Stripe posts).
- A closed incident reopens, and a done step is pending again: a completion or a
  link loaded before saves the loaded statuses (`incidents.service.ts:168`; `:95` and
  `:138` refuse closed incidents, `README.md:178` gives the order)
  (`IncidentPlaybook`: `LifecycleSpec`, of which this is a behaviour).
- A completed assessment is a draft again when an edit that was loaded before it is
  saved after it, from one browser even: an edit still on its way when "Valider" is
  pressed (`assessments.service.ts:69`; `:62` refuses completed ones)
  (`SerialSavesExact`, with `overlap`).
- A logout is undone: `SessionService.update` writes the record back without
  checking that the key still exists (`session.service.ts:71-85`;
  `auth.controller.ts:69`, `README.md:28`) (`SessionGate`: `EndedForGood`, which leaves
  that update out).
- A provider revoked during its test is connected again by the verdict, which is
  stored by id (`sso.service.ts:187`); a login let through just before the revocation
  still opens its session.
- A consent given after the revocation connects the connector again: the callback
  needs no session (`connectors.service.ts:108`).

*Of one request alone.*

- The founder of an organisation who logs in by SSO becomes a plain member, and
  nobody may configure it any more (`sso.service.ts:343`; the row counts before the
  session).
- A visitor of the login page who starts a preset revokes the provider that the
  organisation had configured (`sso.service.ts:239-253`; the comment at `:239` says
  "dev / bootstrap before wizard"). The controller refuses it in production only when
  the request names no provider (`sso-auth.controller.ts:55`); with an id that does not
  exist it goes through.
- A page that asks for a provider that does not exist gets an empty body, which is no
  JSON, and shows an error instead of the form.
- A refused connection leaves its connector "connecting" (`connectors.service.ts:69`);
  when the list fails, the page shows every connector disconnected, and its
  "Connecter" then downgrades one that is connected.
- `eu-residency.ts:74` announces regions "us-* / hors UE"; `looksNonEu` recognises
  those of the United States, and `ap-southeast-1` passes (`Boot`: `LooksNonEu`).
- "Postgres requis en production" (`pg.service.ts:94`) is about a connection that
  fails: without a `DATABASE_URL`, production runs in memory (`Boot`: `Connect`).
  `ServedWhenReady` states these two as the code has them: a run of its own would show
  one initial state and the steps of a start, and nothing that overlaps.
- A process that ends between two seeds leaves a table that is never completed.
- `create` of an organisation does not await its upsert, which may reset
  `onboarding_completed_at` after a completion; after a restart a completion may go
  to `org_acme` instead of the session's organisation.
- Ids are `inc_`, `asmt_`, `org_` or `ev_` followed by the milliseconds: of two
  requests of one millisecond, the second is answered 500 by the primary key.

*Read in the code, outside the models.* `/trust/acme` falls back to a published mock
when the API answers 404, and is rendered statically (`apps/web/lib/api.ts:24-30`,
`app/trust/[org]/page.tsx:12`), although `:33` says "draft → 404". The detail page of
a control calls `GET /controls/:id`, which the API does not have, and `controls` lacks
the `OnboardingGuard` of its siblings.

## 6. The proofs

TLAPS checks every theorem for all values of the constants, under the assumption
that each module names (`BillingAssumption`, `PlaybookAssumption`, `TrustAssumption`,
`EditorAssumption`, `SessionAssumption` and `NullIsNoRecord`, `ProvidersAssumption`,
`NullAssumption` and `SettingsAssumption`, `AssessmentsAssumption`, `RowAssumption`
and `PanelAssumption`, `ConnectorsAssumption` and `GridAssumption`,
`BootAssumption`): sets of ids are any sets, `Null` is none of them nor of what it
stands beside, and of each number only the least that the code needs is said.

Every invariant, every action property and every refinement that a passing run checks
is a theorem; the liveness properties are not. No theorem has a hypothesis beside these
assumptions: requests overlap, queries fail, processes crash, patches and checkouts
are there, in any number. Where the code promises less because of that, the property
says so itself (section 4).

*Billing* (`BillingWebhooks_proofs`). `TypeCorrect` is inductive as stated, with the
facts that a busy handler has an event and, past its lookup, an organisation.
`EveryClaimAccountedFor` is not inductive alone: `ClaimInv` adds, for each handler
that works on an event, that the event has not been applied before it writes and at
most once after. From it come `ClaimsAccounted` and `EffectAtMostOnce`. `ClaimStep`
has one step per action; `LedgerUntouched` and `LedgerClosed` factor the two ways in
which an action may touch the ledger. `TrailNeverAhead` adds that a handler about to
audit has written (`AuditInv`). `PaidInv` says that a row, and the copy that a checkout
holds of it, is active only if some payment has taken effect, and that a handler past
its lookup serves an event for its organisation: hence `OnlyPaidIsActive`, checkouts
included.

*Incidents* (`IncidentPlaybook_proofs`). That a done step has evidence is about the
tables, but a stale save writes what was loaded long ago. `SafeInv` therefore says of
every request that its snapshot is *sound*: the links in it are still in the table
(links only grow), a step that is done in it has a link in it, and links are of the
organisation of the incident, which never changes. `DoneStepsHaveEvidence`,
`LinksWithinOrg` and `LinksNeverTakenBack` follow. `CommitsAudited` is about the step
from the transaction to the append: a request at its last query owes one event, which
it appends, or which a failed query or a crash moves to `untold`, so that the three
sets always make up what was committed. The refinement rests on `SeenInv`, with
`SafeInv`: what a request has read is among what its incident has been since it was
received (`Viewed`, `UpToDate`), and the links it is about to insert are there
already, but for the one it was asked to make (`LinksReady`). `StepKinds` sorts the
steps of the code into those that ask, go on, end a call, save, append and crash; one
lemma for each maps it to a step of `IncidentLifecycle` or to a stutter
(`OpenEffect`, `LinkEffect`, `CompleteEffect`, `CloseEffect`, `CallEnds`,
`CrashEffect`, ...), hence `LifecycleImplemented`.

*Trust center* (`TrustCenter_proofs`). `PublicInv` says of every request that the row
it holds is not public unless its center is attested or was seeded public; hence
`UnattestedStaysDraft`. `TrailIsTruthful` needs that a request about to publish was let
through by an attestation, and one about to withdraw by a row that may have been
public (`TrailInv`): the event is appended two queries later, when the row may be
another, but the attestations do not change meanwhile. `SeenInv` is the argument for
overlapping requests: the row that a center has is among those that each of its pending requests
has seen, and what a request is about to save is its operation applied to one of them.
Each `SaveTrust` is then a step of `TrustLifecycle` (`LifecycleImplemented`), and one
that makes a center public is a publication of a row that passes the checklist, or a
patch that saw the center public (`PublicationGated`). Every step of the editor is one
of a client (`PageCalls`), so `EditorLifecycle` and `EditorGated` hold of the
composition. `TruthInv` is what makes `EditorTellsTruth` inductive: the request of the
page is about to be answered with the stored row, unless another client has changed it
since its last step, and until it saves the page shows the stored row, unless it is in
doubt (`EditorTruthful`).

*Sessions* (`SessionGate_proofs`). `LinkInv` says that a taken link is gone from Redis
and is with exactly one request or behind one session, and that a record about to be
written back belongs to the user its session was created for; hence
`LinkCreatesOneSession`. `GateInv` says that the organisations completed in memory and
in the table, and those of requests about to answer "completed", are all in
`onboarded`; hence `GateSound`. `EndedStaysEnded` has two parts: only a
request at its last command, or a new session, writes a session key
(`SessionWriters`), and only the read of a record that is there leads to that command
(`OnlyReloadSaves`); a session id is drawn once (`OriginStays`). An ended session is
thus neither written (`EndedUnwritten`) nor read for an update (`EndedUnread`).

*SSO* (`SsoSettings_proofs`). `LoginInv` is the argument for the one-shot state: a
login has its session, or one callback that may open it, or neither; hence
`LoginOpensOneSession`. For the administration, `AdminEffect` says once what any step
does to its request and to the providers: it takes up a provider in use or a new one,
and writes only to the one it holds or to those in use. `AdminTypes` is inductive by
it, and so is `ClosedInv`: a revoked provider that nobody holds is never taken up;
hence `RevocationIsFinal`. `RoleInv` adds to `RolesAreAppointed` that an appointed
user is a member, which is why a login leaves the role alone; hence `RolesAreKept`.
The badge is a chain of three requests. `BadgeInv` says that at most one provider is
in use (`OneLive`, the partial index); that without an overlap one request is in
flight, and what it has read or written is what is stored (`AloneInv`); that without
a doubt either there is a provider under test or the page shows none (`SureInv`);
that a preset started by a visitor counts as both (`PresetInv`); and that the page
agrees with the table whenever none of its own requests is on the way (`AgreeInv`);
hence `BadgeIsTruthful`. `TypeCorrect` adds the members and the page to `AdminTypes`.

*Assessments* (`AssessmentPanel_proofs`). The scoring is proved for any answers:
`ScoresType` and `MaturityType` bound the scores, and `SortedLists` says that the
sorted positions list what was found, each once, by descending priority, from
`ListsJoin`, which joins the buckets of the four priorities. `ApiInv` says that a row,
stored or about to be saved, is a draft without results or carries the results of its
own answers, and what each request holds at each of its awaits (`Sound`); it is an
invariant of any clients (`ApiResultsConsistent`), of which the page is one
(`PanelStep`). Hence `TypeCorrect`, `ResultsConsistent` and `GapsSorted`. For a user
who waits, `HistoryInv` says that without an overlap one request at most is in
progress (`Alone`), that what it loaded is still the stored row with its operation
applied (`LoadedIsFresh`), that what it is about to answer is what is stored
(`AnswerIsFresh`), and that the page shows what is stored unless it is in doubt
(`ShownIsFresh`); hence `SavesExact` and `PageIsCurrent`.

*Connectors* (`ConnectorsGrid_proofs`). `ServiceInv` says of each row that it is off
unless asked for and that a disconnected one is flagged exactly when it has collected
something; every handler keeps it (`HandlerKeeps`), and every step of the page or of
others is a handler, a restart, or none (`StepCalls`). `RevokedIsOff` and
`AllCollectedIsMarked` follow. `GridInv` relates the page to the rows: what it holds is
the list as served, unless it is in doubt or a change has been served and not yet
answered; hence `GridIsTruthful`.

*Start* (`Boot_proofs`). `ProcessInv` says of each process what it has passed
(`Checked`: the residency, its backends) and what it has left in the database
(`Worked`: the migrations up to its own, the seeds up to its own), which other
processes keep because schema and seeds only grow (`Grows`). `SeedInv` says of each
table that it is filled, or some process is filling it, or it is empty and nobody has
gone past it, or its own seeding was cut short. `ListensWhenReady` needs both,
`EditsAreKept` the types only.

Only model-checked: `EveryEventAcked`, `EveryAddressedEventApplied` and `PanelSettles`,
which are liveness under fairness and beyond the prover, and the three violations of
section 5, which are behaviours and not theorems.

## 7. What is abstracted, and what is left out

- Data that no property tells apart: names, amounts, texts, dates, URLs, and the
  answers of reads.
- Billing: organisations are identified by the event's own field or by customer, as
  `resolveOrgId` does; a checkout keeps the subscription it finds, as the SQL does.
- Incidents: ids are `inc_<milliseconds>`, so that two requests may draw the same
  one; the step queries of `getIncident` are read as one, since links only grow.
- Trust: of the contents, whether the name is blank and whether the disclaimer is
  acknowledged; these are what the checklist reads, with the attestations. The row
  that a save answers is read again after it (`Reread`), when it may be another.
- Sessions: the organisation found by the submitted name's slug is any organisation
  present; the first or most recent completed organisation is any completed one; a
  TTL is an expiry that may happen at any time. The development fallbacks (in-memory
  Redis, stub guard) are left out.
- Assessments: one sector; the texts of a control are any set that has the empty one;
  the order of `updated_at` in a list is left open; audit rows are part of the last
  step, since nothing here reads them.
- SSO: one organisation; what the libraries check of a token or an assertion, and
  the list of allowed domains, are reasons for `CallbackFails`, which may happen at
  any time; a login may start with any provider that is not revoked; the check of the
  caller and the query that follows it are one step; members are read only in guards.
  The session that a login opens is a count here, and a record in `SessionGate`.
- Connectors: the contents of an export; secrets are present or not.
- Boot: a file of migrations is one query; of the regions, only whether they are
  recognised.
- Pages: wording, layout, filters and selections; a page stays open while its request
  is on its way.
- The in-memory store, for development: its calls do not await, so its behaviours
  are among those of the Postgres store.
- Not modelled: the SLA clock, the playbook lists and the redirect allowlist (pure,
  without state), mail (its failure is swallowed), health, the webhook fixtures; the
  public trust page, whose rendering the framework decides; the billing and
  onboarding pages, which make one request; the incidents page, which is busy as the
  connectors page is, and whose copies, composed with `IncidentPlaybook`, exceed what
  TLC can enumerate in minutes; deployment files and assets.

## 8. Plan

Done: billing, incidents, trust center with its editor, sessions, assessments with
their page, SSO with its pages, connectors with their page, the start of the API, and
two abstract lifecycles that overlapping requests implement.

Every safety property of the passing runs is a theorem. Left, in this order:

1. The incidents page over `IncidentLifecycle` instead of the whole API: the
   refresh of its timer against the one that follows an action.
2. `SsoLogin` composed with `SessionGate`, so that a session opened by a login goes
   through the gate.

Configurations share runs where the instance fits several questions, so that a run
stays a question about the system and not one property.
