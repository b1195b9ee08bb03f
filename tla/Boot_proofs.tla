----------------------------- MODULE Boot_proofs -----------------------------
(***************************************************************************)
(* For any number of processes, migrations, tables, seeds and starts: what *)
(* a process that listens can rely on, and that no start undoes an edit.   *)
(***************************************************************************)
EXTENDS Boot, TLAPS

ProcessStates ==
    [pc: {"exited", "start", "connect", "migrate", "count", "insert", "bind",
          "redis", "listen"},
     backend: {"memory", "postgres"}, store: {"memory", "postgres"},
     sessions: {"none", "redis", "memory"},
     at: Nat \ {0}, row: Nat \ {0}]

SeedStates == {"absent", "seeded", "edited"}

TypeInv ==
    /\ env \in Environments
    /\ proc \in [Processes -> ProcessStates]
    /\ schema \subseteq 1 .. Migrations
    /\ seed \in [1 .. Tables -> [1 .. SeedRows -> SeedStates]]

\* The process has migrated the database, or found it migrated.
Migrated(q) ==
    \/ q.pc \in {"count", "insert"}
    \/ q.pc = "bind" /\ q.backend = "postgres"
    \/ q.pc \in {"redis", "listen"} /\ q.store = "postgres"

\* What a production process serves from.
Backend == IF env.database THEN "postgres" ELSE "memory"

\* A process in production has passed every check up to where it is.
Checked(p, q) ==
    env.prod /\ p \in Servers /\ q.pc \notin {"exited", "start"} =>
        /\ env.residency = "eu" /\ env.region # "us"
        /\ q.pc \in {"migrate", "count", "insert"} => env.database
        /\ q.pc = "bind" => q.backend = Backend
        /\ q.pc \in {"redis", "listen"} => q.store = Backend
        /\ q.pc = "listen" => q.sessions = "redis"

\* A process has left in the database what it has been through.
Worked(p, q) ==
    /\ q.pc \in {"start", "connect"} =>
           q.at = 1 /\ q.row = 1 /\ q.backend = "memory"
    /\ q.pc = "migrate" =>
           /\ q.at <= Migrations /\ 1 .. (q.at - 1) \subseteq schema
           /\ q.row = 1 /\ q.backend = "postgres"
    /\ Migrated(q) => p \in Servers /\ schema = 1 .. Migrations
    /\ q.pc \in {"count", "insert"} =>
           q.at <= Tables /\ q.row <= SeedRows /\ q.backend = "postgres"
    /\ q.pc = "count" => q.row = 1
    /\ q.pc = "insert" => \A r \in 1 .. (q.row - 1) : seed[q.at][r] # "absent"
    /\ q.pc = "bind" => p \in Servers

ProcessInv ==
    TypeInv /\ \A p \in Processes : Checked(p, proc[p]) /\ Worked(p, proc[p])

\* No migration and no seed goes away.
Grows ==
    /\ schema \subseteq schema' /\ schema' \subseteq 1 .. Migrations
    /\ seed' \in [1 .. Tables -> [1 .. SeedRows -> SeedStates]]
    /\ \A t \in 1 .. Tables, r \in 1 .. SeedRows :
           seed[t][r] # "absent" => seed'[t][r] # "absent"
    /\ env' = env

-----------------------------------------------------------------------------

LEMMA ExitedFacts ==
    /\ Exited \in ProcessStates /\ Exited.pc = "exited"
    /\ Fresh \in ProcessStates /\ Fresh.pc = "start"
    /\ Fresh.at = 1 /\ Fresh.row = 1 /\ Fresh.backend = "memory"
  BY DEF Exited, Fresh, ProcessStates

\* A process that is not at work has nothing to show for.
LEMMA IdleWorked ==
    ASSUME NEW p, NEW q, q \in {Exited, Fresh}
    PROVE  Checked(p, q)' /\ Worked(p, q)'
  BY ExitedFacts DEF Checked, Backend, Worked, Migrated

LEMMA GrowsKeeps ==
    ASSUME TypeInv, Grows, NEW p \in Processes, NEW q \in ProcessStates,
           Checked(p, q), Worked(p, q)
    PROVE  Checked(p, q)' /\ Worked(p, q)'
  <1>1. Checked(p, q)'
    BY DEF Checked, Backend, Grows
  <1>2. ASSUME q.pc = "insert", NEW r \in 1 .. (q.row - 1)
        PROVE  seed'[q.at][r] # "absent"
    <2>1. q.at \in 1 .. Tables /\ r \in 1 .. SeedRows
      BY <1>2, BootAssumption DEF Worked, ProcessStates
    <2> QED
      BY <1>2, <2>1 DEF Worked, Grows
  <1>3. Migrated(q) => schema' = 1 .. Migrations
    BY DEF Worked, Grows
  <1>4. q.pc = "migrate" => 1 .. (q.at - 1) \subseteq schema'
    BY DEF Worked, Grows
  <1>5. Worked(p, q)'
    BY <1>2, <1>3, <1>4 DEF Worked, Migrated
  <1> QED
    BY <1>1, <1>5

LEMMA BecomesKeeps ==
    ASSUME ProcessInv, Grows,
           NEW p \in Processes, NEW state \in ProcessStates,
           proc' = [proc EXCEPT ![p] = state],
           Checked(p, state)', Worked(p, state)'
    PROVE  ProcessInv'
  <1>1. TypeInv'
    BY DEF ProcessInv, TypeInv, Grows
  <1>2. ASSUME NEW q \in Processes
        PROVE  (Checked(q, proc[q]) /\ Worked(q, proc[q]))'
    <2>1. CASE q = p
      <3>1. proc'[q] = state
        BY <2>1 DEF ProcessInv, TypeInv
      <3> QED
        BY <2>1, <3>1 DEF Checked, Backend, Worked, Migrated
    <2>2. CASE q # p
      <3>1. proc'[q] = proc[q] /\ proc[q] \in ProcessStates
        BY <2>2 DEF ProcessInv, TypeInv
      <3>2. Checked(q, proc[q]) /\ Worked(q, proc[q])
        BY DEF ProcessInv
      <3> DEFINE old == proc[q]
      <3>3. TypeInv
        BY DEF ProcessInv
      <3>4. \A s \in ProcessStates : Checked(q, s) /\ Worked(q, s)
                => Checked(q, s)' /\ Worked(q, s)'
        BY <3>3, GrowsKeeps
      <3> QED
        BY <3>1, <3>2, <3>4 DEF Checked, Backend, Worked, Migrated
    <2> QED
      BY <2>1, <2>2
  <1> QED
    BY <1>1, <1>2 DEF ProcessInv

\* A step that leaves the database alone, or that a process takes for itself.
LEMMA MovesKeeps ==
    ASSUME ProcessInv, NEW p \in Processes, NEW state \in ProcessStates,
           Becomes(p, state), UNCHANGED <<schema, seed>>,
           Checked(p, state), Worked(p, state)
    PROVE  ProcessInv'
  <1>1. TypeInv /\ Grows
    BY DEF ProcessInv, TypeInv, Grows, Becomes
  <1>2. Checked(p, state)' /\ Worked(p, state)'
    BY <1>1, GrowsKeeps
  <1> QED
    BY <1>1, <1>2, BecomesKeeps DEF Becomes

LEMMA ExitKeeps ==
    ASSUME ProcessInv, NEW p \in Processes, Becomes(p, Exited),
           UNCHANGED <<schema, seed>>
    PROVE  ProcessInv'
  <1>1. PICK state \in ProcessStates : state = Exited /\ state.pc = "exited"
    BY ExitedFacts
  <1>2. Checked(p, state) /\ Worked(p, state)
    BY <1>1 DEF Checked, Backend, Worked, Migrated
  <1> QED
    BY <1>1, <1>2, MovesKeeps

LEMMA ProcessStep ==
    ASSUME ProcessInv, [Next]_vars
    PROVE  ProcessInv'
  <1>0. /\ TypeInv
        /\ \A p \in Processes :
               /\ proc[p] \in ProcessStates
               /\ Checked(p, proc[p]) /\ Worked(p, proc[p])
    BY DEF ProcessInv, TypeInv
  <1>1. ASSUME NEW p \in Processes, Start(p)
        PROVE  ProcessInv'
    <2> DEFINE next == Fresh
    <2>1a. /\ next \in ProcessStates
           /\ next.pc = "start"
      BY ExitedFacts
    <2>1. PICK state \in ProcessStates : state = next
      BY <2>1a
    <2>2. Checked(p, state)' /\ Worked(p, state)'
      BY <2>1, <2>1a, IdleWorked
    <2>3. proc' = [proc EXCEPT ![p] = state] /\ Grows
      BY <1>0, <1>1, <2>1, <2>1a DEF Start, Grows, TypeInv
    <2> QED
      BY <1>0, <2>2, <2>3, BecomesKeeps DEF TypeInv
  <1>2. ASSUME NEW p \in Processes, Check(p)
        PROVE  ProcessInv'
    <2>1. /\ UNCHANGED <<schema, seed>> /\ At(p, "start")
          /\ Becomes(p, IF p \in Scripts \/ AssertEuResidency
                        THEN [proc[p] EXCEPT !.pc = "connect"] ELSE Exited)
      BY <1>2 DEF Check, Moves
    <2>2. CASE p \in Scripts \/ AssertEuResidency
      <3> DEFINE next == [proc[p] EXCEPT !.pc = "connect"]
      <3>1a. /\ next \in ProcessStates
             /\ next.pc = "connect"
             /\ next.at = 1 /\ next.row = 1 /\ next.backend = "memory"
        BY <1>0, <2>1 DEF ProcessStates, Worked, At
      <3>1. PICK state \in ProcessStates : state = next
        BY <3>1a
      <3>2. Checked(p, state)
        BY <1>0, <2>2, <3>1, <3>1a, BootAssumption
           DEF Checked, Backend, AssertEuResidency, CheckEuResidency, LooksNonEu
      <3>3. Worked(p, state)
        BY <3>1, <3>1a DEF Worked, Migrated
      <3> QED
        BY <1>0, <2>1, <2>2, <3>1, <3>1a, <3>2, <3>3, MovesKeeps DEF TypeInv
    <2> QED
      BY <1>0, <2>1, <2>2, ExitKeeps DEF TypeInv
  <1>3. ASSUME NEW p \in Processes, Connect(p)
        PROVE  ProcessInv'
    <2> DEFINE migrates == [proc[p] EXCEPT !.pc = "migrate",
                                           !.backend = "postgres"]
               binds == [proc[p] EXCEPT !.pc = "bind"]
    <2>1. /\ UNCHANGED <<schema, seed>> /\ At(p, "connect")
          /\ Becomes(p, IF env.database THEN migrates
                        ELSE IF p \in Scripts THEN Exited ELSE binds)
      BY <1>3 DEF Connect, Moves
    <2>2. CASE env.database
      <3> DEFINE next == migrates
      <3>1a. /\ next \in ProcessStates
             /\ next.pc = "migrate"
             /\ next.at = 1 /\ next.row = 1 /\ next.backend = "postgres"
        BY <1>0, <2>1 DEF ProcessStates, Worked, At
      <3>1. PICK state \in ProcessStates : state = next
        BY <3>1a
      <3>2. Checked(p, state)
        BY <1>0, <2>1, <2>2, <3>1, <3>1a DEF Checked, Backend, At
      <3>3. Worked(p, state)
        BY <1>0, <2>1, <3>1, <3>1a, BootAssumption DEF Worked, Migrated, At
      <3> QED
        BY <1>0, <2>1, <2>2, <3>1, <3>1a, <3>2, <3>3, MovesKeeps DEF TypeInv
    <2>3. CASE ~env.database /\ p \notin Scripts
      <3> DEFINE next == binds
      <3>1a. /\ next \in ProcessStates
             /\ next.pc = "bind"
             /\ next.backend = proc[p].backend
        BY <1>0 DEF ProcessStates
      <3>1. PICK state \in ProcessStates : state = next
        BY <3>1a
      <3>2. Checked(p, state)
        BY <1>0, <2>1, <2>3, <3>1, <3>1a DEF Checked, Backend, Worked, At
      <3>3. Worked(p, state)
        BY <1>0, <2>1, <2>3, <3>1, <3>1a DEF Worked, Migrated, At, Processes
      <3> QED
        BY <1>0, <2>1, <2>3, <3>1, <3>1a, <3>2, <3>3, MovesKeeps DEF TypeInv
    <2> QED
      BY <1>0, <2>1, <2>2, <2>3, ExitKeeps DEF TypeInv
  <1>4. ASSUME NEW p \in Processes, Migrate(p)
        PROVE  ProcessInv'
    <2> DEFINE m == proc[p].at
    <2>1. /\ proc[p].pc = "migrate" /\ proc[p].row = 1
          /\ proc[p].backend = "postgres"
          /\ m \in 1 .. Migrations /\ 1 .. (m - 1) \subseteq schema
      BY <1>0, <1>4, BootAssumption DEF Migrate, At, Worked, ProcessStates
    <2>2. /\ schema' = schema \cup {m} /\ UNCHANGED <<seed, env>>
          /\ proc' = [proc EXCEPT ![p] =
                 IF m < Migrations THEN [proc[p] EXCEPT !.at = @ + 1]
                 ELSE IF p \in Scripts THEN Exited
                 ELSE [proc[p] EXCEPT !.pc = "count", !.at = 1]]
      BY <1>4 DEF Migrate, Becomes
    <2>3. Grows
      BY <1>0, <2>1, <2>2 DEF Grows, TypeInv
    <2>4. CASE m < Migrations
      <3> DEFINE next == [proc[p] EXCEPT !.at = @ + 1]
      <3>1a. /\ next \in ProcessStates
             /\ next.pc = "migrate"
             /\ next.at = m + 1
             /\ next.row = 1
             /\ next.backend = "postgres"
        BY <1>0, <2>1 DEF ProcessStates
      <3>1. PICK state \in ProcessStates : state = next
        BY <3>1a
      <3>2. Checked(p, state)'
        BY <1>0, <2>1, <2>2, <3>1, <3>1a DEF Checked, Backend
      <3>3. 1 .. m \subseteq schema'
        BY <2>1, <2>2, BootAssumption
      <3>4. Worked(p, state)'
        BY <2>1, <2>4, <3>1, <3>1a, <3>3, BootAssumption DEF Worked, Migrated
      <3> QED
        BY <1>0, <2>2, <2>3, <2>4, <3>1, <3>1a, <3>2, <3>4, BecomesKeeps
           DEF TypeInv
    <2>5. CASE ~(m < Migrations) /\ p \in Scripts
      <3>1. PICK state \in ProcessStates : state = Exited
        BY ExitedFacts
      <3>2. Checked(p, state)' /\ Worked(p, state)'
        BY <3>1, IdleWorked
      <3> QED
        BY <1>0, <2>2, <2>3, <2>5, <3>1, <3>2, BecomesKeeps DEF TypeInv
    <2>6. CASE ~(m < Migrations) /\ p \notin Scripts
      <3> DEFINE next == [proc[p] EXCEPT !.pc = "count", !.at = 1]
      <3>1a. /\ next \in ProcessStates
             /\ next.pc = "count"
             /\ next.at = 1
             /\ next.row = 1
             /\ next.backend = "postgres"
        BY <1>0, <2>1 DEF ProcessStates
      <3>1. PICK state \in ProcessStates : state = next
        BY <3>1a
      <3>2. Checked(p, state)'
        BY <1>0, <2>1, <2>2, <3>1, <3>1a DEF Checked, Backend
      <3>3. schema' = 1 .. Migrations
        BY <1>0, <2>1, <2>2, <2>6, BootAssumption DEF TypeInv
      <3>4. Worked(p, state)'
        BY <2>6, <3>1, <3>1a, <3>3, BootAssumption
           DEF Worked, Migrated, Processes
      <3> QED
        BY <1>0, <2>2, <2>3, <2>6, <3>1, <3>1a, <3>2, <3>4, BecomesKeeps
           DEF TypeInv
    <2> QED
      BY <2>4, <2>5, <2>6
  <1>5. ASSUME NEW p \in Processes, proc[p].pc \in {"count", "insert"},
               Grows,
               proc' = [proc EXCEPT ![p] = NextTable(p)]
        PROVE  ProcessInv'
    <2>1. p \in Servers /\ schema = 1 .. Migrations
          /\ proc[p].backend = "postgres" /\ proc[p].at \in 1 .. Tables
          /\ proc[p] \in ProcessStates
      BY <1>0, <1>5, BootAssumption DEF Worked, Migrated, ProcessStates
    <2>2. schema' = 1 .. Migrations
      BY <1>5, <2>1 DEF Grows
    <2>3. CASE proc[p].at < Tables
      <3> DEFINE n == proc[p].at + 1
                 next == [proc[p] EXCEPT !.pc = "count", !.at = n, !.row = 1]
      <3>0. NextTable(p) = next /\ n \in Nat \ {0}
        BY <2>1, <2>3, BootAssumption DEF NextTable
      <3>1a. /\ next \in ProcessStates
             /\ next.pc = "count" /\ next.at = n /\ next.row = 1
             /\ next.backend = "postgres"
        <4>1. 1 \in Nat \ {0}
          OBVIOUS
        <4> HIDE DEF n
        <4> QED
          BY <2>1, <3>0, <4>1 DEF ProcessStates
      <3>1. PICK state \in ProcessStates : state = next
        BY <3>1a
      <3>2. Checked(p, state)'
        BY <1>0, <1>5, <2>1, <3>1, <3>1a DEF Checked, Backend, Grows
      <3>3. Worked(p, state)'
        BY <1>0, <2>1, <2>2, <2>3, <3>1, <3>1a, BootAssumption
           DEF Worked, Migrated, ProcessStates
      <3> QED
        BY <1>0, <1>5, <3>0, <3>1, <3>1a, <3>2, <3>3, BecomesKeeps DEF TypeInv
    <2>4. CASE ~(proc[p].at < Tables)
      <3> DEFINE next == NextTable(p)
      <3>1a. /\ next \in ProcessStates
             /\ next.pc = "bind"
             /\ next.backend = "postgres"
        BY <1>0, <2>1, <2>4 DEF ProcessStates, NextTable
      <3>1. PICK state \in ProcessStates : state = next
        BY <3>1a
      <3>2. Checked(p, state)'
        BY <1>0, <1>5, <2>1, <3>1, <3>1a DEF Checked, Backend, Grows
      <3>3. Worked(p, state)'
        BY <2>1, <2>2, <3>1, <3>1a DEF Worked, Migrated
      <3> QED
        BY <1>0, <1>5, <3>1, <3>1a, <3>2, <3>3, BecomesKeeps DEF TypeInv
    <2> QED
      BY <2>3, <2>4
  <1>6. ASSUME NEW p \in Processes, Count(p)
        PROVE  ProcessInv'
    <2>1. /\ proc[p].pc = "count" /\ proc[p].row = 1
          /\ proc[p].backend = "postgres" /\ proc[p].at <= Tables
          /\ UNCHANGED <<schema, seed, env>>
          /\ proc' = [proc EXCEPT ![p] =
                 IF IsEmpty(proc[p].at) THEN [proc[p] EXCEPT !.pc = "insert"]
                 ELSE NextTable(p)]
      BY <1>0, <1>6 DEF Count, At, Worked, Moves, Becomes
    <2>2. Grows
      BY <1>0, <2>1 DEF Grows, TypeInv
    <2>3. CASE IsEmpty(proc[p].at)
      <3> DEFINE next == [proc[p] EXCEPT !.pc = "insert"]
      <3>1a. /\ next \in ProcessStates
             /\ next.pc = "insert"
             /\ next.at = proc[p].at
             /\ next.row = 1
             /\ next.backend = "postgres"
        BY <1>0, <2>1 DEF ProcessStates
      <3>1. PICK state \in ProcessStates : state = next
        BY <3>1a
      <3>2. Checked(p, state)'
        BY <1>0, <2>1, <3>1, <3>1a DEF Checked, Backend
      <3>3. Worked(p, state)'
        BY <1>0, <2>1, <3>1, <3>1a, BootAssumption DEF Worked, Migrated
      <3> QED
        BY <1>0, <2>1, <2>2, <2>3, <3>1, <3>1a, <3>2, <3>3, BecomesKeeps
           DEF TypeInv
    <2> QED
      BY <1>5, <2>1, <2>2, <2>3
  <1>7. ASSUME NEW p \in Processes, Insert(p)
        PROVE  ProcessInv'
    <2> DEFINE t == proc[p].at
               n == proc[p].row
    <2>1. /\ proc[p].pc = "insert" /\ p \in Servers
          /\ t \in 1 .. Tables /\ n \in 1 .. SeedRows
          /\ proc[p].backend = "postgres" /\ schema = 1 .. Migrations
          /\ \A r \in 1 .. (n - 1) : seed[t][r] # "absent"
      BY <1>0, <1>7, BootAssumption
         DEF Insert, At, Worked, Migrated, ProcessStates
    <2>2. /\ seed' = [seed EXCEPT ![t][n] = Seeded(@)]
          /\ UNCHANGED <<schema, env>>
          /\ proc' = [proc EXCEPT ![p] =
                 IF n < SeedRows THEN [proc[p] EXCEPT !.row = @ + 1]
                 ELSE NextTable(p)]
      BY <1>7 DEF Insert, Becomes
    <2>3. Seeded(seed[t][n]) \in {"seeded", "edited"}
      BY <1>0, <2>1 DEF Seeded, TypeInv, SeedStates
    <2>4. seed' \in [1 .. Tables -> [1 .. SeedRows -> SeedStates]]
      BY <1>0, <2>1, <2>2, <2>3 DEF TypeInv, SeedStates
    <2>5. \A u \in 1 .. Tables, r \in 1 .. SeedRows :
              seed'[u][r] = IF u = t /\ r = n THEN Seeded(seed[t][n])
                            ELSE seed[u][r]
      BY <1>0, <2>1, <2>2 DEF TypeInv
    <2>6. Grows
      BY <1>0, <2>2, <2>3, <2>4, <2>5 DEF Grows, TypeInv
    <2>7. CASE n < SeedRows
      <3> DEFINE next == [proc[p] EXCEPT !.row = @ + 1]
      <3>1a. /\ next \in ProcessStates
             /\ next.pc = "insert"
             /\ next.at = t
             /\ next.row = n + 1
             /\ next.backend = "postgres"
        BY <1>0, <2>1 DEF ProcessStates
      <3>1. PICK state \in ProcessStates : state = next
        BY <3>1a
      <3>2. Checked(p, state)'
        BY <1>0, <2>1, <2>2, <3>1, <3>1a DEF Checked, Backend
      <3>3. \A r \in 1 .. n : seed'[t][r] # "absent"
        BY <2>1, <2>3, <2>5, BootAssumption
      <3>4. Worked(p, state)'
        BY <2>1, <2>2, <2>7, <3>1, <3>1a, <3>3, BootAssumption
           DEF Worked, Migrated
      <3> QED
        BY <1>0, <2>2, <2>6, <2>7, <3>1, <3>1a, <3>2, <3>4, BecomesKeeps
           DEF TypeInv
    <2> QED
      BY <1>5, <2>1, <2>2, <2>6, <2>7
  <1>8. ASSUME NEW p \in Processes, QueryFails(p)
        PROVE  ProcessInv'
    <2>1. /\ UNCHANGED <<schema, seed>> /\ Becomes(p, WithoutDatabase(p))
          /\ At(p, "connect") \/ At(p, "migrate") \/ Seeding(p)
      BY <1>8 DEF QueryFails
    <2>3. CASE env.prod \/ p \in Scripts
      BY <2>1, <2>3, ExitKeeps DEF WithoutDatabase
    <2>4. CASE ~(env.prod \/ p \in Scripts)
      <3> DEFINE next == WithoutDatabase(p)
      <3>1a. /\ next \in ProcessStates
             /\ next.pc = "bind"
             /\ next.backend = "memory"
        BY <1>0, <2>4 DEF ProcessStates, WithoutDatabase
      <3>1. PICK state \in ProcessStates : state = next
        BY <3>1a
      <3>2. Checked(p, state) /\ Worked(p, state)
        BY <2>4, <3>1, <3>1a DEF Checked, Backend, Worked, Migrated, Processes
      <3> QED
        BY <2>1, <3>1, <3>1a, <3>2, MovesKeeps
    <2> QED
      BY <2>3, <2>4
  <1>9. ASSUME NEW p \in Processes, Bind(p)
        PROVE  ProcessInv'
    <2>1. /\ UNCHANGED <<schema, seed>> /\ proc[p].pc = "bind"
          /\ Becomes(p, [proc[p] EXCEPT !.pc = "redis",
                                        !.store = proc[p].backend])
      BY <1>9 DEF Bind, Moves, At
    <2> DEFINE next == [proc[p] EXCEPT !.pc = "redis",
                                       !.store = proc[p].backend]
    <2>2a. /\ next \in ProcessStates
           /\ next.pc = "redis"
           /\ next.store = proc[p].backend
      BY <1>0 DEF ProcessStates
    <2>2. PICK state \in ProcessStates : state = next
      BY <2>2a
    <2>3. Checked(p, state)
      BY <1>0, <2>1, <2>2, <2>2a DEF Checked, Backend
    <2>4. Worked(p, state)
      BY <1>0, <2>1, <2>2, <2>2a DEF Worked, Migrated
    <2> QED
      BY <1>0, <2>1, <2>2, <2>2a, <2>3, <2>4, MovesKeeps DEF TypeInv
  <1>10. ASSUME NEW p \in Processes, Redis(p)
         PROVE  ProcessInv'
    <2>1. PICK reachable \in BOOLEAN :
              /\ UNCHANGED <<schema, seed>> /\ proc[p].pc = "redis"
              /\ Becomes(p,
                     IF reachable
                     THEN [proc[p] EXCEPT !.pc = "listen", !.sessions = "redis"]
                     ELSE IF env.prod THEN Exited
                     ELSE [proc[p] EXCEPT !.pc = "listen",
                                          !.sessions = "memory"])
      BY <1>10 DEF Redis, Moves, At
    <2>2. CASE ~reachable /\ env.prod
      BY <1>0, <2>1, <2>2, ExitKeeps DEF TypeInv
    <2>3. CASE reachable \/ ~env.prod
      <3> DEFINE kept == IF reachable THEN "redis" ELSE "memory"
      <3> DEFINE next == [proc[p] EXCEPT !.pc = "listen", !.sessions = kept]
      <3>1a. /\ next \in ProcessStates
             /\ next.pc = "listen"
             /\ next.sessions = kept
             /\ next.store = proc[p].store
        BY <1>0 DEF ProcessStates
      <3>1. PICK state \in ProcessStates : state = next
        BY <3>1a
      <3>2. Becomes(p, state)
        BY <2>1, <2>3, <3>1, <3>1a
      <3>3. Checked(p, state)
        BY <1>0, <2>1, <2>3, <3>1, <3>1a DEF Checked, Backend
      <3>4. Worked(p, state)
        BY <1>0, <2>1, <3>1, <3>1a DEF Worked, Migrated
      <3> QED
        BY <1>0, <2>1, <3>2, <3>3, <3>4, MovesKeeps DEF TypeInv
    <2> QED
      BY <2>2, <2>3
  <1>11. ASSUME NEW p \in Processes, Crash(p)
         PROVE  ProcessInv'
    <2>1. UNCHANGED <<schema, seed>> /\ Becomes(p, Exited)
      BY <1>11 DEF Crash
    <2> QED
      BY <2>1, ExitKeeps
  <1>12. ASSUME Grows, UNCHANGED proc
         PROVE  ProcessInv'
    BY <1>0, <1>12, GrowsKeeps DEF ProcessInv, TypeInv, Grows, Checked, Backend,
                                  Worked, Migrated
  <1>13. ASSUME Requests
         PROVE  ProcessInv'
    <2>1. ASSUME NEW t \in 1 .. Tables, NEW r \in 1 .. SeedRows,
                 EditSeed(t, r)
          PROVE  Grows
      BY <1>0, <2>1 DEF EditSeed, Grows, TypeInv, SeedStates
    <2>2. ASSUME NEW t, Create(t)
          PROVE  Grows
      BY <1>0, <2>2 DEF Create, Grows, TypeInv
    <2>3. Grows /\ UNCHANGED proc
      BY <1>13, <2>1, <2>2 DEF Requests, EditSeed, Create
    <2> QED
      BY <1>12, <2>3
  <1>14. CASE UNCHANGED vars
    <2>1. Grows /\ UNCHANGED proc
      BY <1>0, <1>14 DEF vars, Grows, TypeInv
    <2> QED
      BY <1>12, <2>1
  <1> QED
    BY <1>1, <1>2, <1>3, <1>4, <1>6, <1>7, <1>8, <1>9, <1>10, <1>11, <1>13,
       <1>14 DEF Next, Boots

LEMMA ProcessInvariant == Spec => []ProcessInv
  <1>1. Init => ProcessInv
    <2> SUFFICES ASSUME Init PROVE ProcessInv
      OBVIOUS
    <2>1. /\ env \in Environments /\ schema = {}
          /\ proc = [p \in Processes |-> Exited]
          /\ seed = [t \in 1 .. Tables |-> [r \in 1 .. SeedRows |-> "absent"]]
      BY DEF Init
    <2>2. TypeInv
      BY <2>1, ExitedFacts DEF TypeInv, SeedStates
    <2>3. ASSUME NEW p \in Processes
          PROVE  Checked(p, proc[p]) /\ Worked(p, proc[p])
      BY <2>1, ExitedFacts DEF Checked, Backend, Worked, Migrated
    <2> QED
      BY <2>2, <2>3 DEF ProcessInv
  <1>2. ProcessInv /\ [Next]_vars => ProcessInv'
    BY ProcessStep
  <1> QED
    BY <1>1, <1>2, PTL DEF Spec

-----------------------------------------------------------------------------
(* The seeds.  A table that is neither filled nor being filled is empty,     *)
(* and no process that would have filled it has been past it.                *)

Passed(q, t) ==
    \/ q.pc \in {"count", "insert"} /\ t < q.at
    \/ q.pc = "bind" /\ q.backend = "postgres"
    \/ q.pc \in {"redis", "listen"} /\ q.store = "postgres"

Untouched(t) == IsEmpty(t) /\ \A p \in Servers : ~Passed(proc[p], t)

SeedInv ==
    \A t \in 1 .. Tables :
        Complete(t) \/ Filling(t) \/ Untouched(t) \/ t \in cut

\* A step of a process that inserts nothing and goes past no table.
LEMMA SeedKeeps ==
    ASSUME TypeInv, SeedInv, NEW p \in Processes, NEW state,
           proc' = [proc EXCEPT ![p] = state], UNCHANGED <<seed, others>>,
           cut \subseteq cut',
           At(p, "insert") => proc[p].at \in cut',
           \A t \in 1 .. Tables :
               Passed(state, t) =>
                   \/ Passed(proc[p], t) \/ Complete(t) \/ Filling(t)
                   \/ t \in cut
    PROVE  SeedInv'
  <1> SUFFICES ASSUME NEW t \in 1 .. Tables, t \notin cut'
               PROVE  (Complete(t) \/ Filling(t) \/ Untouched(t))'
    BY DEF SeedInv
  <1>1. \A q \in Processes :
            proc'[q] = IF q = p THEN state ELSE proc[q]
    BY DEF TypeInv
  <1>2. CASE Complete(t)
    BY <1>2 DEF Complete
  <1>3. CASE Filling(t)
    <2>1. PICK q \in Servers : At(q, "insert") /\ proc[q].at = t
      BY <1>3 DEF Filling
    <2>2. q # p /\ proc'[q] = proc[q]
      BY <1>1, <2>1 DEF Processes
    <2> QED
      BY <2>1, <2>2 DEF Filling, At
  <1>4. CASE Untouched(t) /\ ~Complete(t) /\ ~Filling(t)
    <2>1. IsEmpty(t)'
      BY <1>4 DEF Untouched, IsEmpty
    <2>2. ASSUME NEW q \in Servers
          PROVE  ~Passed(proc[q], t)'
      <3>1. ~Passed(proc[q], t)
        BY <1>4 DEF Untouched
      <3>2. CASE q = p
        <4>1. ~Passed(state, t)
          BY <1>4, <3>1, <3>2
        <4> QED
          BY <1>1, <3>2, <4>1 DEF Passed, Processes
      <3>3. CASE q # p
        BY <1>1, <3>1, <3>3 DEF Passed, Processes
      <3> QED
        BY <3>2, <3>3
    <2> QED
      BY <2>1, <2>2 DEF Untouched
  <1> QED
    BY <1>2, <1>3, <1>4 DEF SeedInv

LEMMA NextTablePassed ==
    ASSUME TypeInv, NEW p \in Processes, proc[p].pc \in {"count", "insert"},
           NEW t \in 1 .. Tables, Passed(NextTable(p), t)
    PROVE  t <= proc[p].at
  <1>1. proc[p] \in ProcessStates
    BY DEF TypeInv
  <1>2. CASE proc[p].at < Tables
    <2> DEFINE n == proc[p].at + 1
               next == [proc[p] EXCEPT !.pc = "count", !.at = n, !.row = 1]
    <2>1. NextTable(p) = next /\ next.pc = "count" /\ next.at = n
      BY <1>1, <1>2 DEF NextTable, ProcessStates
    <2>2. t < n
      BY <2>1 DEF Passed
    <2>3. proc[p].at \in Nat
      BY <1>1 DEF ProcessStates
    <2> QED
      BY <2>2, <2>3, BootAssumption
  <1>3. CASE ~(proc[p].at < Tables)
    <2>1. proc[p].at \in Nat
      BY <1>1 DEF ProcessStates
    <2> QED
      BY <1>3, <2>1, BootAssumption
  <1> QED
    BY <1>2, <1>3

\* The row that a process inserts is the last one of its table, or not.
LEMMA InsertKeeps ==
    ASSUME ProcessInv, SeedInv, NEW p \in Processes, Insert(p)
    PROVE  SeedInv'
  <1> DEFINE t == proc[p].at
             n == proc[p].row
  <1>0. /\ TypeInv /\ proc[p] \in ProcessStates
        /\ Checked(p, proc[p]) /\ Worked(p, proc[p])
    BY DEF ProcessInv, TypeInv
  <1>1. /\ proc[p].pc = "insert" /\ p \in Servers
        /\ t \in 1 .. Tables /\ n \in 1 .. SeedRows
        /\ \A r \in 1 .. (n - 1) : seed[t][r] # "absent"
    BY <1>0, BootAssumption DEF Insert, At, Worked, Migrated, ProcessStates
  <1>2. /\ seed' = [seed EXCEPT ![t][n] = Seeded(@)]
        /\ UNCHANGED <<cut, others>>
        /\ proc' = [proc EXCEPT ![p] =
               IF n < SeedRows THEN [proc[p] EXCEPT !.row = @ + 1]
               ELSE NextTable(p)]
    BY DEF Insert, Becomes
  <1>3. Seeded(seed[t][n]) # "absent"
    BY DEF Seeded
  <1>4. \A u \in 1 .. Tables, r \in 1 .. SeedRows :
            seed'[u][r] = IF u = t /\ r = n THEN Seeded(seed[t][n])
                          ELSE seed[u][r]
    BY <1>0, <1>1, <1>2 DEF TypeInv
  <1>5. \A u \in 1 .. Tables : Complete(u) => Complete(u)'
    BY <1>3, <1>4 DEF Complete
  <1> SUFFICES ASSUME NEW u \in 1 .. Tables, u \notin cut
               PROVE  (Complete(u) \/ Filling(u) \/ Untouched(u))'
    BY <1>2 DEF SeedInv
  <1>6. CASE u = t /\ n < SeedRows
    <2> DEFINE next == [proc[p] EXCEPT !.row = @ + 1]
    <2>1. next.pc = "insert" /\ next.at = t
      BY <1>0, <1>1 DEF ProcessStates
    <2>2. proc'[p] = next
      BY <1>0, <1>2, <1>6 DEF TypeInv
    <2> QED
      BY <1>1, <1>6, <2>1, <2>2 DEF Filling, At
  <1>7. CASE u = t /\ ~(n < SeedRows)
    <2>1. n = SeedRows
      BY <1>1, <1>7, BootAssumption
    <2>2. \A r \in 1 .. SeedRows : r = n \/ r \in 1 .. (n - 1)
      BY <1>1, <2>1, BootAssumption
    <2> QED
      BY <1>1, <1>3, <1>4, <1>7, <2>2 DEF Complete
  <1>8. CASE u # t
    <2>1. CASE Complete(u)
      BY <1>5, <2>1
    <2>2. CASE Filling(u)
      <3>1. PICK q \in Servers : At(q, "insert") /\ proc[q].at = u
        BY <2>2 DEF Filling
      <3>2. proc'[q] = proc[q]
        BY <1>0, <1>2, <1>8, <3>1 DEF TypeInv, Processes
      <3> QED
        BY <3>1, <3>2 DEF Filling, At
    <2>3. CASE Untouched(u)
      <3>1. IsEmpty(u)'
        BY <1>2, <1>4, <1>8, <2>3 DEF Untouched, IsEmpty
      <3>2. ASSUME NEW q \in Servers
            PROVE  ~Passed(proc[q], u)'
        <4>1. ~Passed(proc[q], u)
          BY <2>3 DEF Untouched
        <4>2. CASE q # p
          <5>1. proc'[q] = proc[q]
            BY <1>0, <1>2, <4>2 DEF TypeInv, Processes
          <5> QED
            BY <4>1, <5>1 DEF Passed
        <4>3. CASE q = p /\ n < SeedRows
          <5> DEFINE next == [proc[p] EXCEPT !.row = @ + 1]
          <5>1. next.pc = "insert" /\ next.at = t
            BY <1>0, <1>1 DEF ProcessStates
          <5>2. proc'[p] = next
            BY <1>0, <1>2, <4>3 DEF TypeInv
          <5> QED
            BY <1>1, <4>1, <4>3, <5>1, <5>2 DEF Passed
        <4>4. CASE q = p /\ ~(n < SeedRows)
          <5>1. proc'[p] = NextTable(p)
            BY <1>0, <1>2, <4>4 DEF TypeInv
          <5>2. ~(u < t)
            BY <1>1, <4>1, <4>4 DEF Passed
          <5>3. ~(u <= t)
            BY <1>1, <1>8, <5>2, BootAssumption
          <5>4. ~Passed(NextTable(p), u)
            BY <1>0, <1>1, <5>3, NextTablePassed
          <5> QED
            BY <4>4, <5>1, <5>4 DEF Passed
        <4> QED
          BY <4>2, <4>3, <4>4
      <3> QED
        BY <3>1, <3>2 DEF Untouched
    <2> QED
      BY <2>1, <2>2, <2>3 DEF SeedInv
  <1> QED
    BY <1>6, <1>7, <1>8

LEMMA ExitPassesNothing ==
    ASSUME NEW t
    PROVE  ~Passed(Exited, t) /\ ~Passed(Fresh, t)
  BY DEF Passed, Exited, Fresh

LEMMA SeedStep ==
    ASSUME ProcessInv, SeedInv, [Next]_vars
    PROVE  SeedInv'
  <1>0. /\ TypeInv
        /\ \A p \in Processes :
               /\ proc[p] \in ProcessStates
               /\ Checked(p, proc[p]) /\ Worked(p, proc[p])
    BY DEF ProcessInv, TypeInv
  <1>1. ASSUME NEW p \in Processes, Start(p)
        PROVE  SeedInv'
    <2>1. /\ proc' = [proc EXCEPT ![p] = Fresh] /\ cut' = cut
          /\ UNCHANGED <<seed, others>> /\ ~At(p, "insert")
      BY <1>1 DEF Start, At
    <2> QED
      BY <1>0, <2>1, ExitPassesNothing, SeedKeeps
  <1>2. ASSUME NEW p \in Processes, Check(p)
        PROVE  SeedInv'
    <2> DEFINE next == [proc[p] EXCEPT !.pc = "connect"]
               state == IF p \in Scripts \/ AssertEuResidency THEN next
                        ELSE Exited
    <2>1. /\ proc' = [proc EXCEPT ![p] = state] /\ cut' = cut
          /\ UNCHANGED <<seed, others>> /\ ~At(p, "insert")
      BY <1>2 DEF Check, Moves, Becomes, At
    <2>2. next.pc = "connect"
      BY <1>0 DEF ProcessStates
    <2>3. \A t : ~Passed(next, t)
      BY <2>2 DEF Passed
    <2>4. \A t : ~Passed(state, t)
      BY <2>3, ExitPassesNothing
    <2> HIDE DEF state
    <2> QED
      BY <1>0, <2>1, <2>4, SeedKeeps
  <1>3. ASSUME NEW p \in Processes, Connect(p)
        PROVE  SeedInv'
    <2> DEFINE migrates == [proc[p] EXCEPT !.pc = "migrate",
                                           !.backend = "postgres"]
               binds == [proc[p] EXCEPT !.pc = "bind"]
               state == IF env.database THEN migrates
                        ELSE IF p \in Scripts THEN Exited ELSE binds
    <2>1. /\ proc' = [proc EXCEPT ![p] = state] /\ cut' = cut
          /\ UNCHANGED <<seed, others>> /\ proc[p].pc = "connect"
      BY <1>3 DEF Connect, Moves, Becomes, At
    <2>2. /\ migrates.pc = "migrate"
          /\ binds.pc = "bind" /\ binds.backend = "memory"
      BY <1>0, <2>1 DEF ProcessStates, Worked
    <2>3. \A t : ~Passed(migrates, t) /\ ~Passed(binds, t)
      BY <2>2 DEF Passed
    <2>4. \A t : ~Passed(state, t)
      BY <2>3, ExitPassesNothing
    <2> HIDE DEF state
    <2> QED
      BY <1>0, <2>1, <2>4, SeedKeeps DEF At
  <1>4. ASSUME NEW p \in Processes, Migrate(p)
        PROVE  SeedInv'
    <2> DEFINE goes == [proc[p] EXCEPT !.at = @ + 1]
               counts == [proc[p] EXCEPT !.pc = "count", !.at = 1]
               state == IF proc[p].at < Migrations THEN goes
                        ELSE IF p \in Scripts THEN Exited ELSE counts
    <2>1. /\ proc' = [proc EXCEPT ![p] = state] /\ cut' = cut
          /\ UNCHANGED <<seed, others>> /\ proc[p].pc = "migrate"
      BY <1>4 DEF Migrate, Becomes, At
    <2>2. goes.pc = "migrate" /\ counts.pc = "count" /\ counts.at = 1
      BY <1>0, <2>1 DEF ProcessStates
    <2>3. \A t \in 1 .. Tables : ~Passed(goes, t) /\ ~Passed(counts, t)
      BY <2>2, BootAssumption DEF Passed
    <2>4. \A t \in 1 .. Tables : ~Passed(state, t)
      BY <2>3, ExitPassesNothing
    <2> HIDE DEF state
    <2> QED
      BY <1>0, <2>1, <2>4, SeedKeeps DEF At
  <1>5. ASSUME NEW p \in Processes, Count(p)
        PROVE  SeedInv'
    <2> DEFINE next == [proc[p] EXCEPT !.pc = "insert"]
               state == IF IsEmpty(proc[p].at) THEN next ELSE NextTable(p)
    <2>1. /\ proc' = [proc EXCEPT ![p] = state] /\ cut' = cut
          /\ UNCHANGED <<seed, others>> /\ proc[p].pc = "count"
      BY <1>5 DEF Count, Moves, Becomes, At
    <2>2. /\ next.pc = "insert" /\ next.at = proc[p].at
          /\ proc[p].at \in 1 .. Tables
      BY <1>0, <2>1, BootAssumption DEF ProcessStates, Worked
    <2>3. ASSUME NEW t \in 1 .. Tables, Passed(state, t)
          PROVE  Passed(proc[p], t) \/ Complete(t) \/ Filling(t) \/ t \in cut
      <3>1. CASE IsEmpty(proc[p].at)
        BY <2>1, <2>2, <2>3, <3>1 DEF Passed
      <3>2. CASE ~IsEmpty(proc[p].at) /\ t = proc[p].at
        BY <2>3, <3>2 DEF SeedInv, Untouched
      <3>3. CASE ~IsEmpty(proc[p].at) /\ t # proc[p].at
        <4>1. t <= proc[p].at
          BY <1>0, <2>1, <2>3, <3>3, NextTablePassed
        <4>2. t < proc[p].at
          BY <2>2, <3>3, <4>1, BootAssumption
        <4> QED
          BY <2>1, <4>2 DEF Passed
      <3> QED
        BY <3>1, <3>2, <3>3
    <2> HIDE DEF state
    <2> QED
      BY <1>0, <2>1, <2>3, SeedKeeps DEF At
  <1>6. ASSUME NEW p \in Processes, Insert(p)
        PROVE  SeedInv'
    BY <1>6, InsertKeeps
  <1>7. ASSUME NEW p \in Processes, QueryFails(p)
        PROVE  SeedInv'
    <2> DEFINE binds == [proc[p] EXCEPT !.pc = "bind", !.backend = "memory"]
               state == IF env.prod \/ p \in Scripts THEN Exited ELSE binds
    <2>1. /\ proc' = [proc EXCEPT ![p] = state]
          /\ Interrupts(p) /\ UNCHANGED <<seed, others>>
      BY <1>7 DEF QueryFails, WithoutDatabase, Becomes
    <2>2. binds.pc = "bind" /\ binds.backend = "memory"
      BY <1>0 DEF ProcessStates
    <2>3. \A t : ~Passed(binds, t)
      BY <2>2 DEF Passed
    <2>4. \A t : ~Passed(state, t)
      BY <2>3, ExitPassesNothing
    <2>5. cut \subseteq cut' /\ (At(p, "insert") => proc[p].at \in cut')
      BY <2>1 DEF Interrupts
    <2> HIDE DEF state
    <2> QED
      BY <1>0, <2>1, <2>4, <2>5, SeedKeeps
  <1>8. ASSUME NEW p \in Processes, Bind(p)
        PROVE  SeedInv'
    <2> DEFINE state == [proc[p] EXCEPT !.pc = "redis",
                                        !.store = proc[p].backend]
    <2>1. /\ proc' = [proc EXCEPT ![p] = state] /\ cut' = cut
          /\ UNCHANGED <<seed, others>> /\ proc[p].pc = "bind"
      BY <1>8 DEF Bind, Moves, Becomes, At
    <2>2. state.pc = "redis" /\ state.store = proc[p].backend
      BY <1>0 DEF ProcessStates
    <2>3. \A t : Passed(state, t) => Passed(proc[p], t)
      BY <2>1, <2>2 DEF Passed
    <2> HIDE DEF state
    <2> QED
      BY <1>0, <2>1, <2>3, SeedKeeps DEF At
  <1>9. ASSUME NEW p \in Processes, Redis(p)
        PROVE  SeedInv'
    <2>1. PICK kept \in {"redis", "memory"} :
              /\ \/ proc' = [proc EXCEPT ![p] = [@ EXCEPT
                                 !.pc = "listen", !.sessions = kept]]
                 \/ proc' = [proc EXCEPT ![p] = Exited]
              /\ cut' = cut /\ UNCHANGED <<seed, others>>
              /\ proc[p].pc = "redis"
      BY <1>9 DEF Redis, Moves, Becomes, At
    <2> DEFINE next == [proc[p] EXCEPT !.pc = "listen", !.sessions = kept]
    <2>2. next.pc = "listen" /\ next.store = proc[p].store
      BY <1>0 DEF ProcessStates
    <2>3. \A t : Passed(next, t) => Passed(proc[p], t)
      BY <2>1, <2>2 DEF Passed
    <2>4. \/ proc' = [proc EXCEPT ![p] = next]
          \/ proc' = [proc EXCEPT ![p] = Exited]
      BY <2>1
    <2> HIDE DEF next
    <2> QED
      BY <1>0, <2>1, <2>3, <2>4, ExitPassesNothing, SeedKeeps DEF At
  <1>10. ASSUME NEW p \in Processes, Crash(p)
         PROVE  SeedInv'
    <2>1. /\ proc' = [proc EXCEPT ![p] = Exited]
          /\ Interrupts(p) /\ UNCHANGED <<seed, others>>
      BY <1>10 DEF Crash, Becomes
    <2>2. cut \subseteq cut' /\ (At(p, "insert") => proc[p].at \in cut')
      BY <2>1 DEF Interrupts
    <2> QED
      BY <1>0, <2>1, <2>2, ExitPassesNothing, SeedKeeps
  <1>11. ASSUME NEW t \in 1 .. Tables, NEW r \in 1 .. SeedRows,
                EditSeed(t, r)
         PROVE  SeedInv'
    <2>1. /\ seed[t][r] = "seeded" /\ seed' = [seed EXCEPT ![t][r] = "edited"]
          /\ UNCHANGED <<proc, others, cut>>
      BY <1>11 DEF EditSeed
    <2>2. \A u \in 1 .. Tables, s \in 1 .. SeedRows :
              seed'[u][s] # "absent" <=> seed[u][s] # "absent"
      BY <1>0, <2>1 DEF TypeInv
    <2> QED
      BY <2>1, <2>2
       DEF SeedInv, Complete, Filling, At, Untouched, IsEmpty, Passed
  <1>12. ASSUME NEW p \in Servers, OverPostgres(p), NEW t, Create(t)
         PROVE  SeedInv'
    <2>1. UNCHANGED <<proc, seed, cut>>
      BY <1>12 DEF Create
    <2>2. \A u \in 1 .. Tables : ~Untouched(u)
      BY <1>12 DEF OverPostgres, At, Untouched, Passed
    <2> QED
      BY <2>1, <2>2 DEF SeedInv, Complete, Filling, At
  <1>13. CASE UNCHANGED vars
    BY <1>13
       DEF vars, SeedInv, Complete, Filling, At, Untouched, IsEmpty, Passed
  <1> QED
    BY <1>1, <1>2, <1>3, <1>4, <1>5, <1>6, <1>7, <1>8, <1>9, <1>10, <1>11,
       <1>12, <1>13, BootAssumption DEF Next, Boots, Requests

LEMMA SeedInvariant == Spec => [](ProcessInv /\ SeedInv)
  <1>1. Init => SeedInv
    <2> SUFFICES ASSUME Init, NEW t \in 1 .. Tables
                 PROVE  Untouched(t)
      BY DEF SeedInv
    <2>1. /\ proc = [p \in Processes |-> Exited] /\ others = {}
          /\ seed = [u \in 1 .. Tables |-> [r \in 1 .. SeedRows |-> "absent"]]
      BY DEF Init
    <2> QED
      BY <2>1, ExitPassesNothing DEF Untouched, IsEmpty, Processes
  <1>2. ProcessInv /\ SeedInv /\ [Next]_vars => SeedInv'
    BY SeedStep
  <1> QED
    BY <1>1, <1>2, ProcessInvariant, PTL DEF Spec

\* eu-residency.ts:73-77, pg.service.ts:92-95 and 120-212: however many
\* processes start, fail and are killed over one database, one that listens in
\* production is declared in the EU with no region recognised as American,
\* keeps its sessions in Redis and serves from the database it was told of, if
\* any; one that serves from Postgres has the whole schema, and all the seeds
\* of each table but those being seeded now or cut short in the middle.
THEOREM ListensWhenReady == Spec => []ServedWhenReady
  <1>1. ASSUME ProcessInv, SeedInv
        PROVE  ServedWhenReady
    <2>1. ProductionIsReady
      BY <1>1 DEF ProductionIsReady, ProcessInv, Checked, Backend, At, Processes
    <2>2. ASSUME NEW p \in Servers, OverPostgres(p)
          PROVE  schema = 1 .. Migrations
      BY <1>1, <2>2 DEF OverPostgres, At, ProcessInv, Worked, Migrated,
                        Processes
    <2>3. ASSUME NEW p \in Servers, OverPostgres(p), NEW t \in 1 .. Tables
          PROVE  Complete(t) \/ Filling(t) \/ t \in cut
      <3>1. ~Untouched(t)
        BY <2>3 DEF Untouched, Passed, OverPostgres, At
      <3> QED
        BY <1>1, <2>3, <3>1 DEF SeedInv
    <2> QED
      BY <2>1, <2>2, <2>3 DEF ServedWhenReady, DatabaseIsReady
  <1> QED
    BY <1>1, SeedInvariant, PTL

\* pg.service.ts:120-212: no process puts back what a user has edited, not
\* even one that counted the table before it had rows.
THEOREM EditsAreKept == Spec => EditsSurviveBoots
  <1> DEFINE Kept == \A t \in 1 .. Tables, r \in 1 .. SeedRows :
                 seed[t][r] = "edited" => seed'[t][r] = "edited"
  <1>1. ASSUME ProcessInv, [Next]_vars
        PROVE  Kept
    <2>1. ASSUME NEW p \in Processes, Insert(p)
          PROVE  Kept
      <3> DEFINE n == proc[p].row
                 u == proc[p].at
      <3>1. seed' = [seed EXCEPT ![u][n] = Seeded(@)] /\ TypeInv
        BY <1>1, <2>1 DEF Insert, ProcessInv
      <3>2. ASSUME NEW t \in 1 .. Tables, NEW r \in 1 .. SeedRows
            PROVE  seed'[t][r] = IF t = u /\ r = n THEN Seeded(seed[t][r])
                                 ELSE seed[t][r]
        <4> HIDE DEF u, n
        <4> QED
          BY <3>1 DEF TypeInv
      <3> QED
        BY <3>2 DEF Seeded
    <2>2. ASSUME NEW t \in 1 .. Tables, NEW r \in 1 .. SeedRows,
                 EditSeed(t, r)
          PROVE  Kept
      BY <1>1, <2>2 DEF EditSeed, ProcessInv, TypeInv
    <2>3. UNCHANGED seed => Kept
      OBVIOUS
    <2> HIDE DEF Kept
    <2> QED
      BY <1>1, <2>1, <2>2, <2>3
         DEF Next, Boots, Requests, Start, Check, Moves, Connect, Migrate,
             Count, QueryFails, Bind, Redis, Crash, Create, vars
  <1>2. ProcessInv /\ [Next]_vars => [Kept]_vars
    BY <1>1
  <1> HIDE DEF Kept
  <1>3. Spec => [][Kept]_vars
    BY <1>2, ProcessInvariant, PTL DEF Spec
  <1> QED
    BY <1>3 DEF EditsSurviveBoots, Kept
=============================================================================
