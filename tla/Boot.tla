--------------------------------- MODULE Boot ---------------------------------
(***************************************************************************)
(* How the processes of the API start: main.ts, and the onModuleInit of    *)
(* PgService, StoreModule and RedisService, which Nest awaits one after    *)
(* the other before it listens.  Several processes start at once over one  *)
(* database, which each migrates and seeds by separate statements without  *)
(* a transaction or a lock, while those that listen already write to it.   *)
(* The migrate script runs the migrations alone.                           *)
(***************************************************************************)
EXTENDS Integers, FiniteSets

CONSTANTS
    Servers,
    Scripts,        \* processes that run scripts/migrate.ts
    Migrations,     \* how many files infra/migrations holds, in lexical order
    Tables,         \* how many tables are seeded, in the order of the code
    SeedRows,       \* how many seeds each has
    Created,        \* tables that requests insert rows into (orgs)
    MaxStarts       \* bound: starts of all the processes together

Processes == Servers \cup Scripts

ASSUME BootAssumption ==
    /\ Servers \cap Scripts = {}
    /\ Migrations \in Nat \ {0} /\ Tables \in Nat \ {0}
    /\ SeedRows \in Nat \ {0} /\ MaxStarts \in Nat
    /\ Created \subseteq 1 .. Tables

VARIABLES
    env,        \* the environment variables, one deployment
    proc,       \* the processes
    starts,     \* how often one was started
    schema,     \* the migrations the database has
    seed,       \* the seeds of each table: absent, as seeded, or edited since
    others,     \* tables with rows that are no seeds
    cut         \* history: tables whose seeding was cut short

vars == <<env, proc, starts, schema, seed, others, cut>>

\* residency: DATA_RESIDENCY; region: the one that is farthest from the EU of
\* those that the *_REGION variables name.
Environments == [prod: BOOLEAN, warn: BOOLEAN, database: BOOLEAN,
                 residency: {"eu", "other"}, region: {"eu", "us", "elsewhere"}]

\* at: the migration, or the table, and row the process has reached.
Fresh == [pc |-> "start", backend |-> "memory", store |-> "memory",
          sessions |-> "none", at |-> 1, row |-> 1]

Exited == [Fresh EXCEPT !.pc = "exited"]

Init ==
    /\ env \in Environments
    /\ proc = [p \in Processes |-> Exited]
    /\ starts = 0
    /\ schema = {}
    /\ seed = [t \in 1 .. Tables |-> [r \in 1 .. SeedRows |-> "absent"]]
    /\ others = {}
    /\ cut = {}

-----------------------------------------------------------------------------
(* Steps of one process. *)

At(p, pc) == proc[p].pc = pc

Becomes(p, state) ==
    /\ proc' = [proc EXCEPT ![p] = state]
    /\ UNCHANGED <<env, starts>>

Moves(p, state) ==
    Becomes(p, state) /\ UNCHANGED <<schema, seed, others, cut>>

Start(p) ==
    /\ At(p, "exited") /\ starts < MaxStarts
    /\ starts' = starts + 1
    /\ proc' = [proc EXCEPT ![p] = Fresh]
    /\ UNCHANGED <<env, schema, seed, others, cut>>

\* A region of the United States is recognised; any other name passes.
LooksNonEu(region) == region = "us"

CheckEuResidency ==
    env.residency = "eu" /\ ~LooksNonEu(env.region)

\* The override is ignored in production.
AssertEuResidency == CheckEuResidency \/ (~env.prod /\ env.warn)

\* The script does not look at the residency.
Check(p) ==
    /\ At(p, "start")
    /\ Moves(p, IF p \in Scripts \/ AssertEuResidency
                THEN [proc[p] EXCEPT !.pc = "connect"] ELSE Exited)

\* Without a database URL the process keeps the memory backend, in production
\* too; only the script refuses to run.
Connect(p) ==
    /\ At(p, "connect")
    /\ Moves(p, IF env.database
                THEN [proc[p] EXCEPT !.pc = "migrate", !.backend = "postgres"]
                ELSE IF p \in Scripts THEN Exited
                ELSE [proc[p] EXCEPT !.pc = "bind"])

\* One query runs one file.
Migrate(p) ==
    /\ At(p, "migrate")
    /\ schema' = schema \cup {proc[p].at}
    /\ Becomes(p, IF proc[p].at < Migrations THEN [proc[p] EXCEPT !.at = @ + 1]
                  ELSE IF p \in Scripts THEN Exited
                  ELSE [proc[p] EXCEPT !.pc = "count", !.at = 1])
    /\ UNCHANGED <<seed, others, cut>>

NextTable(p) ==
    IF proc[p].at < Tables
    THEN [proc[p] EXCEPT !.pc = "count", !.at = @ + 1, !.row = 1]
    ELSE [proc[p] EXCEPT !.pc = "bind"]

IsEmpty(t) == t \notin others /\ \A r \in 1 .. SeedRows : seed[t][r] = "absent"

Count(p) ==
    /\ At(p, "count")
    /\ Moves(p, IF IsEmpty(proc[p].at) THEN [proc[p] EXCEPT !.pc = "insert"]
                ELSE NextTable(p))

\* Fault: ON CONFLICT DO UPDATE.
SeededAnew(old) == "seeded"

\* ON CONFLICT DO NOTHING.
Seeded(old) == IF old = "absent" THEN "seeded" ELSE old

Insert(p) ==
    /\ At(p, "insert")
    /\ seed' = [seed EXCEPT ![proc[p].at][proc[p].row] = Seeded(@)]
    /\ Becomes(p, IF proc[p].row < SeedRows THEN [proc[p] EXCEPT !.row = @ + 1]
                  ELSE NextTable(p))
    /\ UNCHANGED <<schema, others, cut>>

Seeding(p) == At(p, "count") \/ At(p, "insert")

\* The process ends its seeding, between two rows of a table or elsewhere.
Interrupts(p) ==
    cut' = IF At(p, "insert") THEN cut \cup {proc[p].at} ELSE cut

\* Fault: production goes on without its database as well.
FallBack(p) ==
    IF p \in Scripts THEN Exited
    ELSE [proc[p] EXCEPT !.pc = "bind", !.backend = "memory"]

\* Fail-fast in production; a developer goes on in memory.
WithoutDatabase(p) ==
    IF env.prod \/ p \in Scripts THEN Exited
    ELSE [proc[p] EXCEPT !.pc = "bind", !.backend = "memory"]

\* The connection, a migration or a statement of the seeding fails.
QueryFails(p) ==
    /\ At(p, "connect") => env.database
    /\ At(p, "connect") \/ At(p, "migrate") \/ Seeding(p)
    /\ Becomes(p, WithoutDatabase(p))
    /\ Interrupts(p)
    /\ UNCHANGED <<schema, seed, others>>

\* StoreModule binds the store to the backend there is.
Bind(p) ==
    /\ At(p, "bind")
    /\ Moves(p, [proc[p] EXCEPT !.pc = "redis", !.store = proc[p].backend])

Redis(p) ==
    /\ At(p, "redis")
    /\ \E reachable \in BOOLEAN :
           Moves(p, IF reachable
                    THEN [proc[p] EXCEPT !.pc = "listen", !.sessions = "redis"]
                    ELSE IF env.prod THEN Exited
                    ELSE [proc[p] EXCEPT !.pc = "listen",
                                         !.sessions = "memory"])

\* The process is killed.
Crash(p) ==
    /\ ~At(p, "exited")
    /\ Becomes(p, Exited)
    /\ Interrupts(p)
    /\ UNCHANGED <<schema, seed, others>>

-----------------------------------------------------------------------------
(* The requests that a listening process serves from Postgres. *)

OverPostgres(p) == At(p, "listen") /\ proc[p].store = "postgres"

EditSeed(t, r) ==
    /\ seed[t][r] = "seeded"
    /\ seed' = [seed EXCEPT ![t][r] = "edited"]
    /\ UNCHANGED <<env, proc, starts, schema, others, cut>>

Create(t) ==
    /\ others' = others \cup {t}
    /\ UNCHANGED <<env, proc, starts, schema, seed, cut>>

Requests ==
    \E p \in Servers :
        /\ OverPostgres(p)
        /\ \/ \E t \in 1 .. Tables, r \in 1 .. SeedRows : EditSeed(t, r)
           \/ \E t \in Created : Create(t)

Boots(p) ==
    Check(p) \/ Connect(p) \/ Migrate(p) \/ Count(p) \/ Insert(p)
        \/ QueryFails(p) \/ Bind(p) \/ Redis(p)

Next ==
    \/ \E p \in Processes : Start(p) \/ Boots(p) \/ Crash(p)
    \/ Requests

Spec == Init /\ [][Next]_vars

-----------------------------------------------------------------------------
(* Properties. *)

\* "Fail-fast" (eu-residency.ts:73-77), "Postgres requis en production"
\* (pg.service.ts:92-95), "Redis requis en production" (redis.service.ts:36-39):
\* what the checks of main.ts and of the three onModuleInit leave to a
\* production process that listens, whatever failed before.  It is declared to
\* be in the EU and no region it names is of the United States; if it was told
\* of a database, it serves from it and from nothing else; its sessions are in
\* Redis.  The code promises less than its messages: a region elsewhere outside
\* the EU passes, and so does production without a database URL.
ProductionIsReady ==
    \A p \in Servers : At(p, "listen") /\ env.prod =>
        /\ env.residency = "eu" /\ env.region # "us"
        /\ proc[p].store = IF env.database THEN "postgres" ELSE "memory"
        /\ proc[p].sessions = "redis"

\* All the seeds of the table are there.
Complete(t) == \A r \in 1 .. SeedRows : seed[t][r] # "absent"

\* Some process is between the first and the last INSERT of the table.
Filling(t) == \E p \in Servers : At(p, "insert") /\ proc[p].at = t

\* A process that serves from Postgres has its whole schema, and every table it
\* found there has all its seeds, unless some process is inserting them at this
\* moment, or stopped in the middle of that table: such a table is not empty
\* and is never completed (pg.service.ts:120-212).  A seeding cut short
\* elsewhere, or a request that created a row early, leaves no table short.
DatabaseIsReady ==
    \A p \in Servers : OverPostgres(p) =>
        /\ schema = 1 .. Migrations
        /\ \A t \in 1 .. Tables : Complete(t) \/ Filling(t) \/ t \in cut

ServedWhenReady == ProductionIsReady /\ DatabaseIsReady

\* No process that starts puts back a seed that a user has edited meanwhile,
\* a trust center unpublished or a control reassigned: not even one that
\* counted the table when it was empty (pg.service.ts:120-212).
EditsSurviveBoots ==
    [][\A t \in 1 .. Tables, r \in 1 .. SeedRows :
           seed[t][r] = "edited" => seed'[t][r] = "edited"]_vars

=============================================================================
