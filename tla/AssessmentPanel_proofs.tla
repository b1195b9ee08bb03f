------------------------ MODULE AssessmentPanel_proofs ------------------------
(***************************************************************************)
(* For any number of assessments, controls, requests and answers: types, a *)
(* completed assessment carries the results of the answers stored with it, *)
(* its gaps are the right ones in the right order, and the page of a       *)
(* browser that waits for its answers loses nothing and shows what is      *)
(* stored.                                                                 *)
(***************************************************************************)
EXTENDS AssessmentPanel, SequenceTheorems, TLAPS

-----------------------------------------------------------------------------
(* Scoring: what the results of any answers are.                            *)

LEMMA ScopeType ==
    ASSUME NEW answers
    PROVE  computeScope(answers) \in ScopeStatuses
  BY DEF computeScope, ScopeStatuses

LEMMA ScoresType ==
    ASSUME NEW answers \in Answers
    PROVE  computeDomainScores(answers) \in [DOMAINS -> 0 .. 100]
  <1>1. ASSUME NEW v \in Int
        PROVE  Clamp(v) \in 0 .. 100
    BY DEF Clamp
  <1>2. /\ 50 \in 0 .. 100
        /\ answers.domainMaturity # Null =>
               \A d \in DOMAINS : answers.domainMaturity[d] \in Int \cup {Null}
    <2>1. answers.domainMaturity \in [DOMAINS -> Int \cup {Null}] \cup {Null}
      BY DEF Answers
    <2> QED
      BY <2>1
  <1> DEFINE score(d) ==
                 IF answers.domainMaturity = Null THEN 50
                 ELSE IF answers.domainMaturity[d] = Null THEN 50
                 ELSE Clamp(answers.domainMaturity[d])
  <1>3. ASSUME NEW d \in DOMAINS
        PROVE  score(d) \in 0 .. 100
    <2>1. CASE answers.domainMaturity = Null
      BY <1>2, <2>1
    <2>2. CASE answers.domainMaturity # Null
      <3>1. answers.domainMaturity[d] \in Int \cup {Null}
        BY <1>2, <2>2
      <3> QED
        BY <1>1, <1>2, <2>2, <3>1
    <2> QED
      BY <2>1, <2>2
  <1>4. computeDomainScores(answers) = [d \in DOMAINS |-> score(d)]
    BY DEF computeDomainScores
  <1> HIDE DEF score
  <1> QED
    BY <1>3, <1>4

LEMMA MaturityType ==
    ASSUME NEW scores \in [DOMAINS -> 0 .. 100]
    PROVE  computeMaturity(scores) \in 0 .. 100
  <1> DEFINE g == scores["gouvernance"]
             r == scores["risques"]
             c == scores["continuite"]
             i == scores["incidents"]
             s == scores["supply_chain"]
             f == scores["formation"]
  <1>1. /\ g \in 0 .. 100 /\ r \in 0 .. 100 /\ c \in 0 .. 100
        /\ i \in 0 .. 100 /\ s \in 0 .. 100 /\ f \in 0 .. 100
    BY DEF DOMAINS
  <1>2. computeMaturity(scores) = (2 * (g + r + c + i + s + f) + 6) \div 12
    BY DEF computeMaturity
  <1> HIDE DEF g, r, c, i, s, f
  <1>3. g + r + c \in 0 .. 300 /\ i + s + f \in 0 .. 300
    BY <1>1
  <1>4. g + r + c + i + s + f \in 0 .. 600
    BY <1>1, <1>3
  <1> QED
    BY <1>2, <1>4

-----------------------------------------------------------------------------
(* The order of the gaps.  A sequence of positions lists a set, each once,  *)
(* the most urgent first.                                                   *)

Priority(n) == GapCatalog[n].priority

Lists(s, positions) ==
    /\ s \in Seq(1 .. 6)
    /\ \A k \in 1 .. Len(s) : s[k] \in positions
    /\ \A n \in positions : \E k \in 1 .. Len(s) : s[k] = n
    /\ \A j, k \in 1 .. Len(s) :
           j < k => s[j] # s[k] /\ Priority(s[j]) >= Priority(s[k])

LEMMA CatalogFacts ==
    /\ \A n \in 1 .. 6 : /\ GapCatalog[n].domain \in DOMAINS
                         /\ Priority(n) \in {2, 4, 6, 9}
    /\ \A m, n \in 1 .. 6 :
           GapCatalog[m].domain = GapCatalog[n].domain => m = n
  <1>1. /\ GapCatalog[1].domain = "risques" /\ GapCatalog[1].priority = 6
        /\ GapCatalog[2].domain = "continuite" /\ GapCatalog[2].priority = 9
        /\ GapCatalog[3].domain = "supply_chain" /\ GapCatalog[3].priority = 6
        /\ GapCatalog[4].domain = "formation" /\ GapCatalog[4].priority = 2
        /\ GapCatalog[5].domain = "incidents" /\ GapCatalog[5].priority = 6
        /\ GapCatalog[6].domain = "gouvernance" /\ GapCatalog[6].priority = 4
    BY DEF GapCatalog, Gap
  <1>2. \A n \in 1 .. 6 : n \in {1, 2, 3, 4, 5, 6}
    OBVIOUS
  <1> QED
    BY <1>1, <1>2 DEF DOMAINS, Priority

\* Two lists are joined when the first is at least as urgent.
LEMMA ListsJoin ==
    ASSUME NEW s, NEW t, NEW S, NEW T, Lists(s, S), Lists(t, T),
           S \subseteq 1 .. 6, T \subseteq 1 .. 6,
           \A m \in S, n \in T : m # n /\ Priority(m) >= Priority(n)
    PROVE  Lists(s \o t, S \cup T)
  <1>1. /\ s \in Seq(1 .. 6) /\ t \in Seq(1 .. 6)
        /\ Len(s) \in Nat /\ Len(t) \in Nat
    BY LenProperties DEF Lists
  <1>2. /\ s \o t \in Seq(1 .. 6) /\ Len(s \o t) = Len(s) + Len(t)
        /\ \A k \in 1 .. Len(s) + Len(t) :
               (s \o t)[k] = IF k <= Len(s) THEN s[k] ELSE t[k - Len(s)]
    BY <1>1, ConcatProperties
  <1> DEFINE u == s \o t
  <1> HIDE DEF u
  <1>3. /\ u \in Seq(1 .. 6) /\ Len(u) = Len(s) + Len(t)
        /\ \A k \in 1 .. Len(u) :
               \/ k \in 1 .. Len(s) /\ u[k] = s[k]
               \/ k > Len(s) /\ k - Len(s) \in 1 .. Len(t)
                  /\ u[k] = t[k - Len(s)]
    BY <1>1, <1>2 DEF u
  <1>4. \A k \in 1 .. Len(u) : u[k] \in S \cup T
    BY <1>3 DEF Lists
  <1>5. ASSUME NEW n \in S \cup T
        PROVE  \E k \in 1 .. Len(u) : u[k] = n
    <2>1. CASE n \in S
      <3>1. PICK k \in 1 .. Len(s) : s[k] = n
        BY <2>1 DEF Lists
      <3>2. k \in 1 .. Len(u) /\ u[k] = n
        BY <1>1, <1>2, <3>1 DEF u
      <3> QED
        BY <3>2
    <2>2. CASE n \in T
      <3>1. PICK k \in 1 .. Len(t) : t[k] = n
        BY <2>2 DEF Lists
      <3>2. Len(s) + k \in 1 .. Len(u) /\ u[Len(s) + k] = n
        BY <1>1, <1>2, <3>1 DEF u
      <3> QED
        BY <3>2
    <2> QED
      BY <2>1, <2>2
  <1>6. ASSUME NEW j \in 1 .. Len(u), NEW k \in 1 .. Len(u), j < k
        PROVE  u[j] # u[k] /\ Priority(u[j]) >= Priority(u[k])
    <2>1. CASE k \in 1 .. Len(s) /\ u[k] = s[k]
      <3>1. j \in 1 .. Len(s) /\ u[j] = s[j]
        BY <1>1, <1>3, <1>6, <2>1
      <3> QED
        BY <1>6, <2>1, <3>1 DEF Lists
    <2>2. CASE k > Len(s) /\ k - Len(s) \in 1 .. Len(t) /\ u[k] = t[k - Len(s)]
      <3>1. CASE j \in 1 .. Len(s) /\ u[j] = s[j]
        <4>1. u[j] \in S /\ u[k] \in T
          BY <2>2, <3>1 DEF Lists
        <4> QED
          BY <4>1
      <3>2. CASE j > Len(s) /\ j - Len(s) \in 1 .. Len(t)
                 /\ u[j] = t[j - Len(s)]
        <4>1. j - Len(s) < k - Len(s)
          BY <1>1, <1>6
        <4> QED
          BY <2>2, <3>2, <4>1 DEF Lists
      <3> QED
        BY <1>3, <3>1, <3>2
    <2> QED
      BY <1>3, <2>1, <2>2
  <1>7. Lists(u, S \cup T)
    BY <1>3, <1>4, <1>5, <1>6 DEF Lists
  <1> QED
    BY <1>7 DEF u

\* Positions of one priority, in the order of the catalogue.
LEMMA InOrderLists ==
    ASSUME NEW p, NEW positions \in SUBSET {n \in 1 .. 6 : Priority(n) = p},
           p \in {2, 4, 6, 9}
    PROVE  Lists(InOrder(positions), positions)
  <1> DEFINE listed(n) == IF n \in positions THEN <<n>> ELSE <<>>
  <1>1. ASSUME NEW n \in 1 .. 6
        PROVE  Lists(listed(n), positions \cap {n})
    <2>1. CASE n \in positions
      <3>1. <<n>> \in Seq(1 .. 6) /\ Len(<<n>>) = 1 /\ <<n>>[1] = n
        OBVIOUS
      <3> DEFINE s == <<n>>
      <3>2. listed(n) = s /\ positions \cap {n} = {n}
        BY <2>1
      <3> HIDE DEF s, listed
      <3>3. s \in Seq(1 .. 6) /\ Len(s) = 1 /\ s[1] = n
        BY <3>1 DEF s
      <3>4. Lists(s, {n})
        BY <3>3 DEF Lists
      <3> QED
        BY <3>2, <3>4
    <2>2. CASE n \notin positions
      <3>1. <<>> \in Seq(1 .. 6) /\ Len(<<>>) = 0 /\ positions \cap {n} = {}
        BY <2>2
      <3>2. Lists(<<>>, {})
        BY <3>1 DEF Lists
      <3> QED
        BY <2>2, <3>1, <3>2
    <2> QED
      BY <2>1, <2>2
  <1> HIDE DEF listed
  <1>2. ASSUME NEW s, NEW o \in 1 .. 5, NEW n \in 2 .. 6, n = o + 1,
               Lists(s, positions \cap (1 .. o))
        PROVE  Lists(s \o listed(n), positions \cap (1 .. n))
    <2> DEFINE S == positions \cap (1 .. o)
               T == positions \cap {n}
    <2>1. Lists(listed(n), T)
      BY <1>1
    <2>2. /\ S \subseteq 1 .. 6 /\ T \subseteq 1 .. 6
          /\ S \cup T = positions \cap (1 .. n)
      BY <1>2
    <2>3. \A a \in S, b \in T : a # b /\ Priority(a) >= Priority(b)
      <3>1. \A a \in S, b \in T : a # b /\ Priority(a) = p /\ Priority(b) = p
        BY <1>2
      <3> QED
        BY <3>1
    <2>4. Lists(s, S)
      BY <1>2
    <2> HIDE DEF S, T
    <2> QED
      BY <2>1, <2>2, <2>3, <2>4, ListsJoin
  <1>3. Lists(listed(1), positions \cap (1 .. 1))
    <2>1. positions \cap (1 .. 1) = positions \cap {1}
      OBVIOUS
    <2> QED
      BY <1>1, <2>1
  <1> DEFINE l2 == listed(1) \o listed(2)
             l3 == l2 \o listed(3)
             l4 == l3 \o listed(4)
             l5 == l4 \o listed(5)
             l6 == l5 \o listed(6)
  <1>4. Lists(l2, positions \cap (1 .. 2))
    BY <1>2, <1>3
  <1> HIDE DEF l2
  <1>5. Lists(l3, positions \cap (1 .. 3))
    BY <1>2, <1>4
  <1> HIDE DEF l3
  <1>6. Lists(l4, positions \cap (1 .. 4))
    BY <1>2, <1>5
  <1> HIDE DEF l4
  <1>7. Lists(l5, positions \cap (1 .. 5))
    BY <1>2, <1>6
  <1> HIDE DEF l5
  <1>8. Lists(l6, positions \cap (1 .. 6))
    BY <1>2, <1>7
  <1>9. positions \cap (1 .. 6) = positions
    OBVIOUS
  <1>10. InOrder(positions) = l6
    BY DEF InOrder, listed, l2, l3, l4, l5
  <1> QED
    BY <1>8, <1>9, <1>10

LEMMA SortedLists ==
    ASSUME NEW found \in SUBSET (1 .. 6)
    PROVE  Lists(SortedGaps(found), found)
  <1> DEFINE of(p) == {n \in found : Priority(n) = p}
  <1>1. ASSUME NEW p \in {2, 4, 6, 9}
        PROVE  Lists(InOrder(of(p)), of(p))
    BY InOrderLists
  <1>2. /\ \A p : of(p) \subseteq 1 .. 6
        /\ \A p, o \in {2, 4, 6, 9} : p > o =>
               \A m \in of(p), n \in of(o) :
                   m # n /\ Priority(m) >= Priority(n)
    <2>1. ASSUME NEW p \in {2, 4, 6, 9}, NEW o \in {2, 4, 6, 9}, p > o,
                 NEW m \in of(p), NEW n \in of(o)
          PROVE  m # n /\ Priority(m) >= Priority(n)
      <3>1. Priority(m) = p /\ Priority(n) = o /\ p >= o /\ p # o
        BY <2>1
      <3> QED
        BY <3>1
    <2>2. \A p : of(p) \subseteq 1 .. 6
      OBVIOUS
    <2> HIDE DEF of
    <2> QED
      BY <2>1, <2>2
  <1>3. found = of(9) \cup of(6) \cup of(4) \cup of(2)
    BY CatalogFacts
  <1>4. SortedGaps(found) = InOrder(of(9)) \o InOrder(of(6)) \o InOrder(of(4))
                            \o InOrder(of(2))
    BY DEF SortedGaps, Priority
  <1> HIDE DEF of
  <1>5. Lists(InOrder(of(9)) \o InOrder(of(6)), of(9) \cup of(6))
    BY <1>1, <1>2, ListsJoin
  <1>6. Lists(InOrder(of(9)) \o InOrder(of(6)) \o InOrder(of(4)),
              of(9) \cup of(6) \cup of(4))
    <2>1. \A m \in of(9) \cup of(6), n \in of(4) :
              m # n /\ Priority(m) >= Priority(n)
      BY <1>2
    <2>2. of(9) \cup of(6) \subseteq 1 .. 6 /\ of(4) \subseteq 1 .. 6
      BY <1>2
    <2> QED
      BY <1>1, <1>5, <2>1, <2>2, ListsJoin
  <1>7. Lists(InOrder(of(9)) \o InOrder(of(6)) \o InOrder(of(4))
              \o InOrder(of(2)), of(9) \cup of(6) \cup of(4) \cup of(2))
    <2>1. \A m \in of(9) \cup of(6) \cup of(4), n \in of(2) :
              m # n /\ Priority(m) >= Priority(n)
      BY <1>2
    <2>2. of(9) \cup of(6) \cup of(4) \subseteq 1 .. 6 /\ of(2) \subseteq 1 .. 6
      BY <1>2
    <2> QED
      BY <1>1, <1>6, <2>1, <2>2, ListsJoin
  <1> QED
    BY <1>3, <1>4, <1>7
-----------------------------------------------------------------------------
(* The gaps of any scores.                                                  *)

GapRows == [domain: DOMAINS, priority: 1 .. 9, severity: Severities]

\* What GapsPrioritised says of one row.
Prioritised(gaps, scores) ==
    /\ {gaps[n].domain : n \in DOMAIN gaps}
         = {g.domain : g \in {GapCatalog[n] : n \in {x \in 1 .. 6 :
                scores[GapCatalog[x].domain] < GapCatalog[x].threshold}}}
    /\ \A m, n \in DOMAIN gaps : m < n =>
           /\ gaps[m].domain # gaps[n].domain
           /\ gaps[m].priority >= gaps[n].priority

\* computeGaps (assessment-scoring.ts:129): each gap found is described once,
\* and none comes before a more urgent one.
LEMMA GapsOfScores ==
    ASSUME NEW scores \in [DOMAINS -> 0 .. 100]
    PROVE  /\ computeGaps(scores) \in Seq(GapRows)
           /\ Prioritised(computeGaps(scores), scores)
  <1> DEFINE found == GapsFound(scores)
             sorted == SortedGaps(found)
             gaps == computeGaps(scores)
             row(n) == [domain |-> GapCatalog[n].domain,
                        priority |-> GapCatalog[n].priority,
                        severity |->
                            severityFromPriority(GapCatalog[n].priority)]
  <1>1. found \in SUBSET (1 .. 6)
    BY DEF GapsFound
  <1>2. gaps = [k \in 1 .. Len(sorted) |-> row(sorted[k])]
    BY DEF computeGaps
  <1> HIDE DEF found
  <1>3. Lists(sorted, found)
    BY <1>1, SortedLists
  <1>4. ASSUME NEW n \in 1 .. 6
        PROVE  /\ row(n) \in GapRows
               /\ row(n).domain = GapCatalog[n].domain
               /\ row(n).priority = Priority(n)
    <2>1. GapCatalog[n].domain \in DOMAINS /\ GapCatalog[n].priority \in 1 .. 9
      BY CatalogFacts DEF Priority
    <2>2. ASSUME NEW p PROVE severityFromPriority(p) \in Severities
      BY DEF severityFromPriority, Severities
    <2> QED
      BY <2>1, <2>2 DEF GapRows, Priority
  <1> HIDE DEF row, gaps, sorted
  <1>5. /\ Len(sorted) \in Nat
        /\ \A k \in 1 .. Len(sorted) : sorted[k] \in 1 .. 6
    BY <1>3, LenProperties, ElementOfSeq DEF Lists
  <1>6. /\ DOMAIN gaps = 1 .. Len(sorted)
        /\ \A k \in 1 .. Len(sorted) :
               /\ gaps[k] \in GapRows
               /\ gaps[k].domain = GapCatalog[sorted[k]].domain
               /\ gaps[k].priority = Priority(sorted[k])
    BY <1>2, <1>4, <1>5
  <1>7. gaps \in Seq(GapRows)
    <2>1. gaps = [k \in 1 .. Len(sorted) |-> gaps[k]]
      BY <1>2
    <2> QED
      BY <1>5, <1>6, <2>1, IsASeq
  <1>8. {gaps[k].domain : k \in DOMAIN gaps}
            = {GapCatalog[n].domain : n \in found}
    <2>1. ASSUME NEW k \in 1 .. Len(sorted)
          PROVE  \E n \in found : GapCatalog[n].domain = gaps[k].domain
      BY <1>3, <1>6 DEF Lists
    <2>2. ASSUME NEW n \in found
          PROVE  \E k \in 1 .. Len(sorted) : gaps[k].domain
                                                 = GapCatalog[n].domain
      <3>1. PICK k \in 1 .. Len(sorted) : sorted[k] = n
        BY <1>3 DEF Lists
      <3>2. gaps[k].domain = GapCatalog[n].domain
        BY <1>6, <3>1
      <3> QED
        BY <3>2
    <2>3. {gaps[k].domain : k \in DOMAIN gaps}
              \subseteq {GapCatalog[n].domain : n \in found}
      BY <1>6, <2>1
    <2>4. {GapCatalog[n].domain : n \in found}
              \subseteq {gaps[k].domain : k \in DOMAIN gaps}
      BY <1>6, <2>2
    <2> QED
      BY <2>3, <2>4
  <1>9. {GapCatalog[n].domain : n \in found}
            = {g.domain : g \in {GapCatalog[n] : n \in {x \in 1 .. 6 :
                   scores[GapCatalog[x].domain] < GapCatalog[x].threshold}}}
    BY DEF found, GapsFound
  <1>10. ASSUME NEW j \in DOMAIN gaps, NEW k \in DOMAIN gaps, j < k
         PROVE  /\ gaps[j].domain # gaps[k].domain
                /\ gaps[j].priority >= gaps[k].priority
    <2>1. sorted[j] # sorted[k] /\ Priority(sorted[j]) >= Priority(sorted[k])
      BY <1>3, <1>6, <1>10 DEF Lists
    <2>2. GapCatalog[sorted[j]].domain # GapCatalog[sorted[k]].domain
      BY <1>5, <1>6, <2>1, CatalogFacts
    <2> QED
      BY <1>6, <2>1, <2>2
  <1>11. Prioritised(gaps, scores)
    BY <1>8, <1>9, <1>10 DEF Prioritised
  <1> QED
    BY <1>7, <1>11 DEF gaps

\* ResultOf (assessments.service.ts:86) on any answers a client may send.
LEMMA ResultOfAnswers ==
    ASSUME NEW answers \in Answers
    PROVE  /\ ResultOf(answers) \in Results
           /\ Prioritised(ResultOf(answers).gaps,
                          ResultOf(answers).domainScores)
  <1> DEFINE scores == computeDomainScores(answers)
  <1>1. scores \in [DOMAINS -> 0 .. 100]
    BY ScoresType
  <1>2. ResultOf(answers) = [scopeStatus |-> computeScope(answers),
                             domainScores |-> scores,
                             maturityScore |-> computeMaturity(scores),
                             gaps |-> computeGaps(scores)]
    BY DEF ResultOf
  <1> HIDE DEF scores
  <1>3. /\ computeGaps(scores) \in Seq(GapRows)
        /\ Prioritised(computeGaps(scores), scores)
        /\ computeMaturity(scores) \in 0 .. 100
        /\ computeScope(answers) \in ScopeStatuses
    BY <1>1, GapsOfScores, MaturityType, ScopeType
  <1> QED
    BY <1>1, <1>2, <1>3 DEF Results, GapRows
-----------------------------------------------------------------------------
(* The tables and the requests, whoever the clients are.                    *)

QueryStates ==
    [pc: Pcs, op: Ops \cup {Null}, id: Ids \cup {Null},
     patch: Answers \cup ControlChanges \cup {Null},
     row: AssessmentRows \cup ControlRows \cup {Null}]

\* What ResultsMatchAnswers says of one row.
Matches(row) ==
    \/ row.status = "draft" /\ row.result = Null /\ row.version = 1
    \/ /\ row.status = "completed"
       /\ row.result = ResultOf(row.answers) /\ row.version = 2

Tables(table) ==
    /\ table \in [Ids -> AssessmentRows \cup ControlRows \cup {Null}]
    /\ \A i \in Assessments :
           table[i] = Null \/ (table[i] \in AssessmentRows /\ Matches(table[i]))
    /\ \A c \in Controls : table[c] \in ControlRows

\* A request, between two awaits, against the tables it runs on: the row it
\* loaded is of the table its operation is about, and already consistent.
Sound(q, table) ==
    /\ q \in QueryStates
    /\ q.pc # "idle" =>
           /\ q.op \in Ops
           /\ q.pc = "insert" => q.op = "create"
           /\ q.pc \in {"load", "save"} =>
                  q.op \in {"update", "complete", "control"}
           /\ q.pc = "reread" => q.op # "list"
           /\ q.pc = "list" => q.op = "list"
           /\ q.op \in {"create", "update", "complete"} => q.id \in Assessments
           /\ q.op \in {"create", "update"} => q.patch \in Answers
           /\ q.op = "control" =>
                  q.id \in Controls /\ q.patch \in ControlChanges
           /\ q.pc = "save" =>
                  IF q.op = "control" THEN q.row \in ControlRows
                  ELSE q.row \in AssessmentRows /\ Matches(q.row)
           /\ q.pc \in {"save", "reread"} => table[q.id] # Null
           /\ q.pc = "ok" /\ q.op \in {"create", "update", "complete"} =>
                  q.row \in AssessmentRows
           /\ q.pc = "ok" /\ q.op = "list" =>
                  \/ q.id = Null /\ q.row = Null
                  \/ q.id \in Assessments /\ q.row \in AssessmentRows

ApiInv ==
    /\ Tables(stored)
    /\ request \in [Requests -> QueryStates]
    /\ \A r \in Requests : Sound(request[r], stored)

PanelInv ==
    /\ panel \in PanelStates
    /\ panel.shown # Null => panel.id \in Assessments
    /\ overlap \in BOOLEAN
    /\ doubt \in BOOLEAN

\* A browser that waits has one request at a time; what it loaded or is
\* about to be told is what is stored, and so is what the page shows.
Alone ==
    ~overlap => \A r, s \in Requests : r # s => At(r, "idle") \/ At(s, "idle")

LoadedIsFresh ==
    ~overlap => \A r \in Requests : At(r, "save") =>
        LET q == request[r] IN
        /\ q.row = Effect(q.op, stored[q.id], q.patch)
        /\ q.id \in Assessments => stored[q.id].status = "draft"

AnswerIsFresh ==
    ~overlap => \A r \in Requests :
        At(r, "ok") /\ request[r].op # "control" =>
            request[r].row = IF request[r].id = Null THEN Null
                             ELSE stored[request[r].id]

ShownIsFresh ==
    /\ ~doubt /\ panel.shown # Null
    /\ \A r \in Requests : At(r, "idle") \/ request[r].op = "control"
    => stored[panel.id] = panel.shown

HistoryInv == Alone /\ LoadedIsFresh /\ AnswerIsFresh /\ ShownIsFresh

-----------------------------------------------------------------------------
(* What the operations make of a row.                                       *)

LEMMA PatchedAnswers ==
    ASSUME NEW answers \in Answers, NEW patch \in Answers
    PROVE  Patched(answers, patch) \in Answers
  <1>1. DOMAIN answers = {"sector", "headcountBand", "digitalActivities",
                          "criticalDependencies", "domainMaturity"}
    BY DEF Answers
  <1> DEFINE kept(f) == IF patch[f] = Null THEN answers[f] ELSE patch[f]
  <1>2. Patched(answers, patch) =
            [sector |-> kept("sector"), headcountBand |-> kept("headcountBand"),
             digitalActivities |-> kept("digitalActivities"),
             criticalDependencies |-> kept("criticalDependencies"),
             domainMaturity |-> kept("domainMaturity")]
    BY <1>1 DEF Patched
  <1>3. /\ kept("sector") \in {"", "industrie", Null}
        /\ kept("headcountBand") \in {"lt50", "50_249", "250_plus", Null}
    BY DEF Answers
  <1>4. /\ kept("digitalActivities") \in BOOLEAN \cup {Null}
        /\ kept("criticalDependencies") \in BOOLEAN \cup {Null}
    BY DEF Answers
  <1>5. kept("domainMaturity") \in [DOMAINS -> Int \cup {Null}] \cup {Null}
    BY DEF Answers
  <1> DEFINE A == {"", "industrie", Null}
             B == {"lt50", "50_249", "250_plus", Null}
             C == BOOLEAN \cup {Null}
             D == [DOMAINS -> Int \cup {Null}] \cup {Null}
  <1>6. Answers = [sector: A, headcountBand: B, digitalActivities: C,
                   criticalDependencies: C, domainMaturity: D]
    BY DEF Answers
  <1>7. /\ kept("sector") \in A /\ kept("headcountBand") \in B
        /\ kept("digitalActivities") \in C /\ kept("criticalDependencies") \in C
        /\ kept("domainMaturity") \in D
    BY <1>3, <1>4, <1>5
  <1> HIDE DEF kept, A, B, C, D
  <1> QED
    BY <1>2, <1>6, <1>7

LEMMA PatchedControl ==
    ASSUME NEW row \in ControlRows, NEW patch \in ControlChanges
    PROVE  Patched(row, patch) \in ControlRows
  <1>1. DOMAIN row = {"status", "owner", "dueAt"}
    BY DEF ControlRows
  <1>2. Patched(row, patch) =
            [status |-> IF patch.status = Null THEN row.status
                        ELSE patch.status,
             owner |-> IF patch.owner = Null THEN row.owner ELSE patch.owner,
             dueAt |-> IF patch.dueAt = Null THEN row.dueAt ELSE patch.dueAt]
    BY <1>1 DEF Patched
  <1> QED
    BY <1>2 DEF ControlRows, ControlChanges

\* update (assessments.service.ts:65) changes the answers of a draft only.
LEMMA UpdateEffect ==
    ASSUME NEW row \in AssessmentRows, Matches(row), row.status = "draft",
           NEW patch \in Answers
    PROVE  /\ Effect("update", row, patch) \in AssessmentRows
           /\ Matches(Effect("update", row, patch))
  <1>1. Patched(row.answers, patch) \in Answers
    BY PatchedAnswers DEF AssessmentRows
  <1>2. Effect("update", row, patch)
            = [row EXCEPT !.answers = Patched(row.answers, patch)]
    BY DEF Effect
  <1> DEFINE new == Patched(row.answers, patch)
  <1> HIDE DEF new
  <1>3. [row EXCEPT !.answers = new]
            = [status |-> row.status, answers |-> new, result |-> row.result,
               version |-> row.version]
    BY DEF AssessmentRows
  <1>4. [row EXCEPT !.answers = new] \in AssessmentRows
    <2>1. new \in Answers
      BY <1>1 DEF new
    <2> QED
      BY <1>3, <2>1 DEF AssessmentRows
  <1>5. Matches([row EXCEPT !.answers = new])
    BY <1>3 DEF Matches
  <1> QED
    BY <1>2, <1>4, <1>5 DEF new

\* complete (assessments.service.ts:92) scores the answers of the row it
\* writes.
LEMMA CompleteEffect ==
    ASSUME NEW row \in AssessmentRows, Matches(row), row.status = "draft",
           NEW patch
    PROVE  /\ Effect("complete", row, patch) \in AssessmentRows
           /\ Matches(Effect("complete", row, patch))
  <1> DEFINE result == ResultOf(row.answers)
  <1>1. result \in Results
    <2>1. row.answers \in Answers
      BY DEF AssessmentRows
    <2> QED
      BY <2>1, ResultOfAnswers
  <1> DEFINE next == row.version + 1
  <1>2. Effect("complete", row, patch)
            = [row EXCEPT !.status = "completed", !.result = result,
                          !.version = next]
    BY DEF Effect, Completed
  <1>3. next = 2
    BY DEF Matches
  <1> HIDE DEF result, next
  <1>4. [row EXCEPT !.status = "completed", !.result = result,
                    !.version = next]
            = [status |-> "completed", answers |-> row.answers,
               result |-> result, version |-> 2]
    <2> DEFINE e == [row EXCEPT !.status = "completed", !.result = result,
                                !.version = next]
    <2>1. row = [status |-> row.status, answers |-> row.answers,
                 result |-> row.result, version |-> row.version]
      BY DEF AssessmentRows
    <2>2. /\ e.status = "completed" /\ e.result = result /\ e.version = next
          /\ e.answers = row.answers
          /\ DOMAIN e = {"status", "answers", "result", "version"}
          /\ e = [f \in DOMAIN e |-> e[f]]
      BY <2>1
    <2> HIDE DEF e
    <2>3. e = [status |-> "completed", answers |-> row.answers,
               result |-> result, version |-> 2]
      BY <1>3, <2>2
    <2> QED
      BY <2>3 DEF e
  <1>5. [status |-> "completed", answers |-> row.answers,
         result |-> result, version |-> 2] \in AssessmentRows
    BY <1>1 DEF AssessmentRows
  <1>6. Matches([status |-> "completed", answers |-> row.answers,
                 result |-> result, version |-> 2])
    BY DEF Matches, result
  <1> QED
    BY <1>2, <1>4, <1>5, <1>6

\* What Load puts in the hands of Save.
LEMMA EffectSound ==
    ASSUME NEW table, Tables(table), NEW q, Sound(q, table), q.pc = "load",
           ~Refused(q.op, table[q.id])
    PROVE  /\ IF q.op = "control"
              THEN Effect(q.op, table[q.id], q.patch) \in ControlRows
              ELSE /\ Effect(q.op, table[q.id], q.patch) \in AssessmentRows
                   /\ Matches(Effect(q.op, table[q.id], q.patch))
           /\ table[q.id] # Null
           /\ q.id \in Assessments => table[q.id].status = "draft"
  <1> DEFINE row == table[q.id]
  <1>1. /\ row # Null
        /\ q.op \in {"update", "complete"} => row.status # "completed"
    BY DEF Refused
  <1>2. q.op \in {"update", "complete", "control"}
    BY DEF Sound
  <1>3. CASE q.op = "control"
    <2>1. q.id \in Controls /\ q.patch \in ControlChanges
      BY <1>3 DEF Sound
    <2>2. row \in ControlRows
      BY <2>1 DEF Tables
    <2>3. Effect("control", row, q.patch) \in ControlRows
      BY <2>1, <2>2, PatchedControl DEF Effect
    <2> QED
      BY <1>1, <1>3, <2>1, <2>3, AssessmentsAssumption
  <1>4. CASE q.op \in {"update", "complete"}
    <2>1. q.id \in Assessments
      BY <1>4 DEF Sound
    <2>2. row \in AssessmentRows /\ Matches(row) /\ row.status = "draft"
      BY <1>1, <1>4, <2>1 DEF Tables, Matches
    <2>3. CASE q.op = "update"
      <3>1. q.patch \in Answers
        BY <2>3 DEF Sound
      <3> QED
        BY <1>1, <2>2, <2>3, <3>1, UpdateEffect
    <2>4. CASE q.op = "complete"
      BY <1>1, <2>2, <2>4, CompleteEffect
    <2> QED
      BY <1>4, <2>3, <2>4
  <1> QED
    BY <1>2, <1>3, <1>4

-----------------------------------------------------------------------------
(* The states a request goes through.                                       *)

LEMMA QueryFields ==
    ASSUME NEW q, q = [f \in DOMAIN q |-> q[f]],
           DOMAIN q = {"pc", "op", "id", "patch", "row"},
           q.pc \in Pcs, q.op \in Ops \cup {Null}, q.id \in Ids \cup {Null},
           q.patch \in Answers \cup ControlChanges \cup {Null},
           q.row \in AssessmentRows \cup ControlRows \cup {Null}
    PROVE  q \in QueryStates
  <1> DEFINE P == Answers \cup ControlChanges \cup {Null}
             R == AssessmentRows \cup ControlRows \cup {Null}
             O == Ops \cup {Null}
             I == Ids \cup {Null}
  <1>1. QueryStates = [pc: Pcs, op: O, id: I, patch: P, row: R]
    BY DEF QueryStates
  <1>2. q.op \in O /\ q.id \in I /\ q.patch \in P /\ q.row \in R
    OBVIOUS
  <1> HIDE DEF P, R, O, I
  <1>3. q = [pc |-> q.pc, op |-> q.op, id |-> q.id, patch |-> q.patch,
             row |-> q.row]
    OBVIOUS
  <1> QED
    BY <1>1, <1>2, <1>3

LEMMA QueryShape ==
    ASSUME NEW q \in QueryStates
    PROVE  /\ q = [f \in DOMAIN q |-> q[f]]
           /\ DOMAIN q = {"pc", "op", "id", "patch", "row"}
           /\ q.pc \in Pcs /\ q.op \in Ops \cup {Null}
           /\ q.id \in Ids \cup {Null}
           /\ q.patch \in Answers \cup ControlChanges \cup {Null}
           /\ q.row \in AssessmentRows \cup ControlRows \cup {Null}
  BY DEF QueryStates

LEMMA IdleState ==
    /\ Idle \in QueryStates /\ Idle.pc = "idle"
    /\ Idle.row = Null /\ Idle.op = Null /\ Idle.id = Null
    /\ Idle.patch = Null
  <1>1. /\ Idle = [f \in DOMAIN Idle |-> Idle[f]]
        /\ DOMAIN Idle = {"pc", "op", "id", "patch", "row"}
        /\ Idle.pc = "idle" /\ Idle.op = Null /\ Idle.id = Null
        /\ Idle.patch = Null /\ Idle.row = Null
    BY DEF Idle
  <1> QED
    BY <1>1, QueryFields DEF Pcs

\* What is set when a client asks.
Asked(pc, op, id, patch) ==
    [Idle EXCEPT !.pc = pc, !.op = op, !.id = id, !.patch = patch]

AskedFor(pc, op, id) == [Idle EXCEPT !.pc = pc, !.op = op, !.id = id]

AskedAll(pc, op) == [Idle EXCEPT !.pc = pc, !.op = op]

LEMMA AskedStates ==
    ASSUME NEW pc \in Pcs, NEW op \in Ops, NEW id \in Ids,
           NEW patch \in Answers \cup ControlChanges
    PROVE  /\ /\ Asked(pc, op, id, patch) \in QueryStates
              /\ Asked(pc, op, id, patch).pc = pc
              /\ Asked(pc, op, id, patch).op = op
              /\ Asked(pc, op, id, patch).id = id
              /\ Asked(pc, op, id, patch).patch = patch
           /\ /\ AskedFor(pc, op, id) \in QueryStates
              /\ AskedFor(pc, op, id).pc = pc
              /\ AskedFor(pc, op, id).op = op
              /\ AskedFor(pc, op, id).id = id
           /\ /\ AskedAll(pc, op) \in QueryStates
              /\ AskedAll(pc, op).pc = pc
              /\ AskedAll(pc, op).op = op
  <1> DEFINE a == Asked(pc, op, id, patch)
             f == AskedFor(pc, op, id)
             l == AskedAll(pc, op)
  <1>1. /\ a = [x \in DOMAIN a |-> a[x]]
        /\ DOMAIN a = {"pc", "op", "id", "patch", "row"}
        /\ a.pc = pc /\ a.op = op /\ a.id = id /\ a.patch = patch
        /\ a.row = Null
    BY DEF Asked, Idle
  <1>2. /\ f = [x \in DOMAIN f |-> f[x]]
        /\ DOMAIN f = {"pc", "op", "id", "patch", "row"}
        /\ f.pc = pc /\ f.op = op /\ f.id = id /\ f.patch = Null
        /\ f.row = Null
    BY DEF AskedFor, Idle
  <1>3. /\ l = [x \in DOMAIN l |-> l[x]]
        /\ DOMAIN l = {"pc", "op", "id", "patch", "row"}
        /\ l.pc = pc /\ l.op = op /\ l.id = Null /\ l.patch = Null
        /\ l.row = Null
    BY DEF AskedAll, Idle
  <1> HIDE DEF a, f, l
  <1>4. a \in QueryStates
    BY <1>1, QueryFields
  <1>5. f \in QueryStates
    BY <1>2, QueryFields
  <1>6. l \in QueryStates
    BY <1>3, QueryFields
  <1> QED
    BY <1>1, <1>2, <1>3, <1>4, <1>5, <1>6 DEF a, f, l

\* What is set while the request is served.
Moved(q, pc) == [q EXCEPT !.pc = pc]

Held(q, pc, row) == [q EXCEPT !.pc = pc, !.row = row]

Found(q, id, row) == [q EXCEPT !.pc = "ok", !.id = id, !.row = row]

LEMMA MovedState ==
    ASSUME NEW q \in QueryStates, NEW pc \in Pcs
    PROVE  /\ Moved(q, pc) \in QueryStates
           /\ Moved(q, pc).pc = pc /\ Moved(q, pc).op = q.op
           /\ Moved(q, pc).id = q.id /\ Moved(q, pc).patch = q.patch
           /\ Moved(q, pc).row = q.row
  <1> DEFINE e == Moved(q, pc)
  <1>1. /\ e = [x \in DOMAIN e |-> e[x]]
        /\ DOMAIN e = {"pc", "op", "id", "patch", "row"}
        /\ e.pc = pc /\ e.op = q.op /\ e.id = q.id /\ e.patch = q.patch
        /\ e.row = q.row
    BY QueryShape DEF Moved
  <1> HIDE DEF e
  <1>2. e \in QueryStates
    BY <1>1, QueryFields, QueryShape
  <1> QED
    BY <1>1, <1>2 DEF e

LEMMA HeldState ==
    ASSUME NEW q \in QueryStates, NEW pc \in Pcs,
           NEW row \in AssessmentRows \cup ControlRows \cup {Null}
    PROVE  /\ Held(q, pc, row) \in QueryStates
           /\ Held(q, pc, row).pc = pc /\ Held(q, pc, row).op = q.op
           /\ Held(q, pc, row).id = q.id /\ Held(q, pc, row).patch = q.patch
           /\ Held(q, pc, row).row = row
  <1> DEFINE e == Held(q, pc, row)
  <1>1. /\ e = [x \in DOMAIN e |-> e[x]]
        /\ DOMAIN e = {"pc", "op", "id", "patch", "row"}
        /\ e.pc = pc /\ e.op = q.op /\ e.id = q.id /\ e.patch = q.patch
        /\ e.row = row
    BY QueryShape DEF Held
  <1> HIDE DEF e
  <1>2. e \in QueryStates
    BY <1>1, QueryFields, QueryShape
  <1> QED
    BY <1>1, <1>2 DEF e

LEMMA FoundState ==
    ASSUME NEW q \in QueryStates, NEW id \in Ids \cup {Null},
           NEW row \in AssessmentRows \cup ControlRows \cup {Null}
    PROVE  /\ Found(q, id, row) \in QueryStates
           /\ Found(q, id, row).pc = "ok" /\ Found(q, id, row).op = q.op
           /\ Found(q, id, row).id = id /\ Found(q, id, row).row = row
  <1> DEFINE e == Found(q, id, row)
  <1>1. /\ e = [x \in DOMAIN e |-> e[x]]
        /\ DOMAIN e = {"pc", "op", "id", "patch", "row"}
        /\ e.pc = "ok" /\ e.op = q.op /\ e.id = id /\ e.patch = q.patch
        /\ e.row = row
    BY QueryShape DEF Found
  <1> HIDE DEF e
  <1>2. e \in QueryStates
    BY <1>1, QueryFields, QueryShape DEF Pcs
  <1> QED
    BY <1>1, <1>2 DEF e

-----------------------------------------------------------------------------
(* Any number of clients, which may send whatever the API accepts.          *)

ClientNext ==
    \/ \E r \in Requests :
           \/ \E i \in Assessments, a \in Answers :
                  Create(r, i, a) \/ Update(r, i, a)
           \/ \E i \in Assessments : Complete(r, i)
           \/ \E c \in Controls, p \in ControlChanges : UpdateControl(r, c, p)
           \/ List(r) \/ Serve(r) \/ QueryFails(r) \/ Hand(r)
    \/ Crash

LEMMA ApiInvInit == ApiInit => ApiInv
  <1> SUFFICES ASSUME ApiInit PROVE ApiInv
    OBVIOUS
  <1>1. NewControl \in ControlRows
    BY AssessmentsAssumption DEF NewControl, ControlRows, ControlStatuses
  <1>2. Tables(stored)
    BY <1>1, AssessmentsAssumption DEF ApiInit, Tables, Ids
  <1>3. \A r \in Requests : request[r] = Idle
    BY DEF ApiInit
  <1>4. request \in [Requests -> QueryStates]
    BY IdleState DEF ApiInit
  <1>5. Sound(Idle, stored)
    BY IdleState DEF Sound
  <1> QED
    BY <1>2, <1>3, <1>4, <1>5 DEF ApiInv

\* A row is never deleted, so what a request knows of it stays true.
LEMMA SoundStays ==
    ASSUME NEW q, NEW table, NEW next, Sound(q, table),
           \A i \in Ids : table[i] # Null => next[i] # Null
    PROVE  Sound(q, next)
  <1>1. CASE q.pc = "idle"
    BY <1>1 DEF Sound
  <1>2. CASE q.pc # "idle"
    <2>1. q.pc \in {"save", "reread"} => q.id \in Ids /\ table[q.id] # Null
      BY <1>2 DEF Sound, Ids, Ops
    <2>2. q.pc \in {"save", "reread"} => next[q.id] # Null
      BY <2>1
    <2> QED
      BY <1>2, <2>2 DEF Sound
  <1> QED
    BY <1>1, <1>2

LEMMA RequestStep ==
    ASSUME ApiInv, NEW r \in Requests, NEW q, Sound(q, stored'),
           Tables(stored'),
           \A i \in Ids : stored[i] # Null => stored'[i] # Null,
           request' = [request EXCEPT ![r] = q]
    PROVE  ApiInv'
  <1>1. q \in QueryStates
    BY DEF Sound
  <1>2. request' \in [Requests -> QueryStates]
    BY <1>1 DEF ApiInv
  <1>3. ASSUME NEW s \in Requests
        PROVE  Sound(request'[s], stored')
    <2>1. CASE s = r
      BY <2>1 DEF ApiInv
    <2>2. CASE s # r
      <3>1. request'[s] = request[s] /\ Sound(request[s], stored)
        BY <2>2 DEF ApiInv
      <3> QED
        BY <3>1, SoundStays
    <2> QED
      BY <2>1, <2>2
  <1> QED
    BY <1>2, <1>3 DEF ApiInv

\* A step that leaves the tables alone.
LEMMA BecomesStep ==
    ASSUME ApiInv, NEW r \in Requests, NEW q, Sound(q, stored), Becomes(r, q)
    PROVE  ApiInv'
  <1>1. stored' = stored /\ request' = [request EXCEPT ![r] = q]
    BY DEF Becomes
  <1>2. Sound(q, stored') /\ Tables(stored')
    BY <1>1 DEF ApiInv
  <1> QED
    BY <1>1, <1>2, RequestStep

\* What is asked is what the API accepts.
LEMMA AskedSound ==
    /\ \A i \in Assessments, a \in Answers :
           /\ Sound(Asked("insert", "create", i, a), stored)
           /\ Sound(Asked("load", "update", i, a), stored)
    /\ \A i \in Assessments : Sound(AskedFor("load", "complete", i), stored)
    /\ \A c \in Controls, p \in ControlChanges :
           Sound(Asked("load", "control", c, p), stored)
    /\ Sound(AskedAll("list", "list"), stored)
  <1>1. /\ {"insert", "load", "list"} \subseteq Pcs
        /\ {"create", "update", "complete", "control", "list"} \subseteq Ops
    BY DEF Pcs, Ops
  <1>2. ASSUME NEW i \in Assessments, NEW a \in Answers
        PROVE  /\ Sound(Asked("insert", "create", i, a), stored)
               /\ Sound(Asked("load", "update", i, a), stored)
    <2> DEFINE c == Asked("insert", "create", i, a)
               u == Asked("load", "update", i, a)
    <2>1. /\ c \in QueryStates /\ c.pc = "insert" /\ c.op = "create"
          /\ c.id = i /\ c.patch = a
      BY <1>1, AskedStates DEF Ids
    <2>2. /\ u \in QueryStates /\ u.pc = "load" /\ u.op = "update"
          /\ u.id = i /\ u.patch = a
      BY <1>1, AskedStates DEF Ids
    <2> HIDE DEF c, u
    <2>3. Sound(c, stored)
      BY <1>1, <2>1 DEF Sound
    <2>4. Sound(u, stored)
      BY <1>1, <2>2 DEF Sound
    <2> QED
      BY <2>3, <2>4 DEF c, u
  <1>3. ASSUME NEW i \in Assessments
        PROVE  Sound(AskedFor("load", "complete", i), stored)
    <2> DEFINE q == AskedFor("load", "complete", i)
    <2>1. q \in QueryStates /\ q.pc = "load" /\ q.op = "complete" /\ q.id = i
      <3>1. NoAnswers \in Answers
        BY DEF NoAnswers, Answers
      <3> QED
        BY <1>1, <3>1, AskedStates DEF Ids
    <2> HIDE DEF q
    <2>2. Sound(q, stored)
      BY <1>1, <2>1 DEF Sound
    <2> QED
      BY <2>2 DEF q
  <1>4. ASSUME NEW c \in Controls, NEW p \in ControlChanges
        PROVE  Sound(Asked("load", "control", c, p), stored)
    <2> DEFINE q == Asked("load", "control", c, p)
    <2>1. /\ q \in QueryStates /\ q.pc = "load" /\ q.op = "control"
          /\ q.id = c /\ q.patch = p
      BY <1>1, AskedStates DEF Ids
    <2> HIDE DEF q
    <2>2. Sound(q, stored)
      BY <1>1, <2>1 DEF Sound
    <2> QED
      BY <2>2 DEF q
  <1>5. Sound(AskedAll("list", "list"), stored)
    <2> DEFINE q == AskedAll("list", "list")
    <2>1. q = [Idle EXCEPT !.pc = "list", !.op = "list"]
      BY DEF AskedAll
    <2>2. /\ q = [x \in DOMAIN q |-> q[x]]
          /\ DOMAIN q = {"pc", "op", "id", "patch", "row"}
          /\ q.pc = "list" /\ q.op = "list" /\ q.id = Null
          /\ q.patch = Null /\ q.row = Null
      BY DEF AskedAll, Idle
    <2> HIDE DEF q
    <2>3. q \in QueryStates
      BY <1>1, <2>2, QueryFields
    <2>4. Sound(q, stored)
      BY <1>1, <2>2, <2>3 DEF Sound
    <2> QED
      BY <2>4 DEF q
  <1> QED
    BY <1>2, <1>3, <1>4, <1>5

\* Each step of a request, as the state it sets.
LEMMA InsertStep ==
    ASSUME ApiInv, NEW r \in Requests, Insert(r)
    PROVE  ApiInv'
  <1> DEFINE q == request[r]
             i == q.id
  <1>1. Sound(q, stored) /\ Tables(stored)
    BY DEF ApiInv
  <1>2. q \in QueryStates /\ q.pc = "insert"
    BY <1>1 DEF Sound, Insert, At
  <1>3. q.op = "create" /\ i \in Assessments /\ q.patch \in Answers
    BY <1>1, <1>2 DEF Sound
  <1>4. CASE stored[i] = Null
    <2> DEFINE new == NewAssessment(q.patch)
               e == Moved(q, "reread")
    <2>1. /\ stored' = [stored EXCEPT ![i] = new]
          /\ request' = [request EXCEPT ![r] = e]
      BY <1>4 DEF Insert, Moved
    <2>2. new = [status |-> "draft", answers |-> q.patch, result |-> Null,
                 version |-> 1]
      BY DEF NewAssessment
    <2>3. new \in AssessmentRows /\ Matches(new)
      BY <1>3, <2>2 DEF AssessmentRows, Matches
    <2>4. new # Null /\ i \in Ids /\ i \notin Controls
      BY <1>3, <2>3, AssessmentsAssumption, RowAssumption DEF Ids
    <2>5. /\ e \in QueryStates /\ e.pc = "reread" /\ e.op = "create"
          /\ e.id = i /\ e.patch = q.patch
      BY <1>2, <1>3, MovedState DEF Pcs
    <2> HIDE DEF new, e, i, q
    <2>6. \A j \in Ids : stored'[j] = IF j = i THEN new ELSE stored[j]
      BY <1>1, <2>1 DEF Tables
    <2>7. Tables(stored')
      <3>1. stored' \in [Ids -> AssessmentRows \cup ControlRows \cup {Null}]
        BY <1>1, <2>1, <2>3 DEF Tables
      <3>2. \A j \in Assessments :
                stored'[j] = Null
                \/ (stored'[j] \in AssessmentRows /\ Matches(stored'[j]))
        BY <1>1, <2>3, <2>6 DEF Tables, Ids
      <3>3. \A c \in Controls : stored'[c] \in ControlRows
        BY <1>1, <2>4, <2>6 DEF Tables, Ids
      <3> QED
        BY <3>1, <3>2, <3>3 DEF Tables
    <2>8. Sound(e, stored')
      BY <1>3, <2>4, <2>5, <2>6 DEF Sound, Ops, Ids
    <2>9. \A j \in Ids : stored[j] # Null => stored'[j] # Null
      BY <2>4, <2>6
    <2> QED
      BY <2>1, <2>7, <2>8, <2>9, RequestStep
  <1>5. CASE stored[i] # Null
    <2> DEFINE e == Moved(q, "failed")
    <2>1. Becomes(r, e)
      BY <1>5 DEF Insert, Moved
    <2>2. /\ e \in QueryStates /\ e.pc = "failed" /\ e.op = "create"
          /\ e.id = i /\ e.patch = q.patch
      BY <1>2, <1>3, MovedState DEF Pcs
    <2> HIDE DEF e
    <2>3. Sound(e, stored)
      BY <1>3, <2>2 DEF Sound, Ops
    <2> QED
      BY <2>1, <2>3, BecomesStep
  <1> QED
    BY <1>4, <1>5

LEMMA LoadStep ==
    ASSUME ApiInv, NEW r \in Requests, Load(r)
    PROVE  ApiInv'
  <1> DEFINE q == request[r]
             row == stored[q.id]
  <1>1. Sound(q, stored) /\ Tables(stored)
    BY DEF ApiInv
  <1>2. q \in QueryStates /\ q.pc = "load"
    BY <1>1 DEF Sound, Load, At
  <1>3. CASE Refused(q.op, row)
    <2> DEFINE e == Moved(q, "failed")
    <2>1. Becomes(r, e)
      BY <1>3 DEF Load, Moved
    <2>2. /\ e \in QueryStates /\ e.pc = "failed" /\ e.op = q.op
          /\ e.id = q.id /\ e.patch = q.patch
      BY <1>2, MovedState DEF Pcs
    <2> HIDE DEF e, q
    <2>3. Sound(e, stored)
      BY <1>1, <1>2, <2>2 DEF Sound
    <2> QED
      BY <2>1, <2>3, BecomesStep
  <1>4. CASE ~Refused(q.op, row)
    <2> DEFINE new == Effect(q.op, row, q.patch)
               e == Held(q, "save", new)
    <2>1. Becomes(r, e)
      BY <1>4 DEF Load, Held
    <2>2. /\ IF q.op = "control" THEN new \in ControlRows
             ELSE new \in AssessmentRows /\ Matches(new)
          /\ row # Null
      BY <1>1, <1>2, <1>4, EffectSound
    <2> HIDE DEF new
    <2>3. /\ e \in QueryStates /\ e.pc = "save" /\ e.op = q.op
          /\ e.id = q.id /\ e.patch = q.patch /\ e.row = new
      <3>1. "save" \in Pcs
        BY DEF Pcs
      <3>2. new \in AssessmentRows \cup ControlRows \cup {Null}
        BY <2>2
      <3> QED
        BY <1>2, <3>1, <3>2, HeldState
    <2>4. stored[e.id] # Null
      BY <2>2, <2>3
    <2> HIDE DEF e, q, row
    <2>5. Sound(e, stored)
      BY <1>1, <1>2, <2>2, <2>3, <2>4 DEF Sound
    <2> QED
      BY <2>1, <2>5, BecomesStep
  <1> QED
    BY <1>3, <1>4

LEMMA SaveStep ==
    ASSUME ApiInv, NEW r \in Requests, Save(r)
    PROVE  ApiInv'
  <1> DEFINE q == request[r]
             i == q.id
             e == Moved(q, "reread")
  <1>1. Sound(q, stored) /\ Tables(stored)
    BY DEF ApiInv
  <1>2. q \in QueryStates /\ q.pc = "save"
    BY <1>1 DEF Sound, Save, At
  <1>3. /\ stored' = [stored EXCEPT ![i] = q.row]
        /\ request' = [request EXCEPT ![r] = e]
    BY DEF Save, Moved
  <1>4. /\ e \in QueryStates /\ e.pc = "reread" /\ e.op = q.op
        /\ e.id = i /\ e.patch = q.patch
    BY <1>2, MovedState DEF Pcs
  <1>5. \/ q.op = "control" /\ i \in Controls /\ q.row \in ControlRows
        \/ /\ q.op \in {"update", "complete"} /\ i \in Assessments
           /\ q.row \in AssessmentRows /\ Matches(q.row)
    BY <1>1, <1>2 DEF Sound
  <1>6. i \in Ids /\ q.row # Null /\ ~(i \in Assessments /\ i \in Controls)
    BY <1>5, AssessmentsAssumption, RowAssumption DEF Ids
  <1> HIDE DEF q, i, e
  <1>7. \A j \in Ids : stored'[j] = IF j = i THEN q.row ELSE stored[j]
    BY <1>1, <1>3 DEF Tables
  <1>8. Tables(stored')
    <2>1. stored' \in [Ids -> AssessmentRows \cup ControlRows \cup {Null}]
      BY <1>1, <1>3, <1>5 DEF Tables
    <2>2. \A j \in Assessments :
              stored'[j] = Null
              \/ (stored'[j] \in AssessmentRows /\ Matches(stored'[j]))
      BY <1>1, <1>5, <1>6, <1>7 DEF Tables, Ids
    <2>3. \A c \in Controls : stored'[c] \in ControlRows
      BY <1>1, <1>5, <1>6, <1>7 DEF Tables, Ids
    <2> QED
      BY <2>1, <2>2, <2>3 DEF Tables
  <1>9. Sound(e, stored')
    <2>1. stored'[e.id] # Null
      BY <1>4, <1>6, <1>7
    <2> QED
      BY <1>1, <1>2, <1>4, <1>5, <2>1 DEF Sound
  <1>10. \A j \in Ids : stored[j] # Null => stored'[j] # Null
    BY <1>6, <1>7
  <1> QED
    BY <1>3, <1>8, <1>9, <1>10, RequestStep

LEMMA RereadStep ==
    ASSUME ApiInv, NEW r \in Requests, Reread(r)
    PROVE  ApiInv'
  <1> DEFINE q == request[r]
             row == stored[q.id]
             e == Held(q, "ok", row)
  <1>1. Sound(q, stored) /\ Tables(stored)
    BY DEF ApiInv
  <1>2. q \in QueryStates /\ q.pc = "reread"
    BY <1>1 DEF Sound, Reread, At
  <1>3. Becomes(r, e)
    BY DEF Reread, Held
  <1>4. /\ q.op \in {"create", "update", "complete", "control"}
        /\ q.id \in Ids /\ row # Null
    BY <1>1, <1>2 DEF Sound, Ops, Ids
  <1>5. row \in AssessmentRows \cup ControlRows \cup {Null}
    BY <1>1, <1>4 DEF Tables
  <1>6. q.op # "control" => row \in AssessmentRows
    BY <1>1, <1>2, <1>4 DEF Sound, Tables
  <1> HIDE DEF row
  <1>7. /\ e \in QueryStates /\ e.pc = "ok" /\ e.op = q.op
        /\ e.id = q.id /\ e.patch = q.patch /\ e.row = row
    <2>1. "ok" \in Pcs
      BY DEF Pcs
    <2> QED
      BY <1>2, <1>5, <2>1, HeldState
  <1> HIDE DEF e, q
  <1>8. Sound(e, stored)
    BY <1>1, <1>2, <1>4, <1>6, <1>7 DEF Sound
  <1> QED
    BY <1>3, <1>8, BecomesStep

LEMMA ReadLatestStep ==
    ASSUME ApiInv, NEW r \in Requests, ReadLatest(r)
    PROVE  ApiInv'
  <1> DEFINE q == request[r]
  <1>1. Sound(q, stored) /\ Tables(stored)
    BY DEF ApiInv
  <1>2. q \in QueryStates /\ q.pc = "list"
    BY <1>1 DEF Sound, ReadLatest, At
  <1>3. PICK i : /\ i = Null \/ (i \in Assessments /\ stored[i] # Null)
                 /\ Becomes(r, Found(q, i, IF i = Null THEN Null
                                           ELSE stored[i]))
    BY DEF ReadLatest, Found
  <1> DEFINE row == IF i = Null THEN Null ELSE stored[i]
             e == Found(q, i, row)
  <1>4. \/ i = Null /\ row = Null
        \/ i \in Assessments /\ row \in AssessmentRows
    BY <1>1, <1>3 DEF Tables
  <1> HIDE DEF row
  <1>5. /\ e \in QueryStates /\ e.pc = "ok" /\ e.op = q.op
        /\ e.id = i /\ e.row = row
    <2>1. /\ i \in Ids \cup {Null}
          /\ row \in AssessmentRows \cup ControlRows \cup {Null}
      BY <1>4 DEF Ids
    <2> QED
      BY <1>2, <2>1, FoundState
  <1>6. q.op = "list"
    BY <1>1, <1>2 DEF Sound
  <1>7. Becomes(r, e)
    BY <1>3 DEF row
  <1> HIDE DEF e, q
  <1>8. Sound(e, stored)
    BY <1>4, <1>5, <1>6 DEF Sound, Ops
  <1> QED
    BY <1>7, <1>8, BecomesStep

LEMMA QueryFailsStep ==
    ASSUME ApiInv, NEW r \in Requests, QueryFails(r)
    PROVE  ApiInv'
  <1> DEFINE q == request[r]
             e == Moved(q, "failed")
  <1>1. Sound(q, stored) /\ q.pc # "idle" /\ q \in QueryStates
    BY DEF ApiInv, QueryFails, Sound
  <1>2. Becomes(r, e)
    BY DEF QueryFails, Moved
  <1>3. /\ e \in QueryStates /\ e.pc = "failed" /\ e.op = q.op
        /\ e.id = q.id /\ e.patch = q.patch
    BY <1>1, MovedState DEF Pcs
  <1> HIDE DEF e, q
  <1>4. Sound(e, stored)
    BY <1>1, <1>3 DEF Sound
  <1> QED
    BY <1>2, <1>4, BecomesStep

LEMMA CrashStep ==
    ASSUME ApiInv, Crash
    PROVE  ApiInv'
  <1>1. /\ stored' = stored
        /\ request' = [r \in Requests |-> IF At(r, "idle") THEN Idle
                                          ELSE Moved(request[r], "failed")]
    BY DEF Crash, Moved
  <1>2. ASSUME NEW r \in Requests
        PROVE  Sound(request'[r], stored)
    <2> DEFINE q == request[r]
               e == Moved(q, "failed")
    <2>1. Sound(q, stored) /\ q \in QueryStates
      BY DEF ApiInv, Sound
    <2>2. CASE At(r, "idle")
      BY <1>1, <2>2, IdleState DEF Sound
    <2>3. CASE ~At(r, "idle")
      <3>1. /\ e \in QueryStates /\ e.pc = "failed" /\ e.op = q.op
            /\ e.id = q.id /\ e.patch = q.patch
        BY <2>1, MovedState DEF Pcs
      <3>2. request'[r] = e /\ q.pc # "idle"
        BY <1>1, <2>3 DEF At
      <3> HIDE DEF e, q
      <3>3. Sound(e, stored)
        BY <2>1, <3>1, <3>2 DEF Sound
      <3> QED
        BY <3>2, <3>3
    <2> QED
      BY <2>2, <2>3
  <1>3. request' \in [Requests -> QueryStates]
    BY <1>1, <1>2 DEF Sound
  <1> QED
    BY <1>1, <1>2, <1>3 DEF ApiInv

LEMMA ApiInvStep ==
    ASSUME ApiInv, [ClientNext]_apiVars
    PROVE  ApiInv'
  <1>1. CASE UNCHANGED apiVars
    BY <1>1 DEF ApiInv, apiVars
  <1>2. CASE Crash
    BY <1>2, CrashStep
  <1>3. ASSUME NEW r \in Requests, NEW i \in Assessments, NEW a \in Answers,
               Create(r, i, a) \/ Update(r, i, a)
        PROVE  ApiInv'
    <2>1. \/ Becomes(r, Asked("insert", "create", i, a))
          \/ Becomes(r, Asked("load", "update", i, a))
      BY <1>3 DEF Create, Update, Asked
    <2> QED
      BY <2>1, AskedSound, BecomesStep
  <1>4. ASSUME NEW r \in Requests, NEW i \in Assessments, Complete(r, i)
        PROVE  ApiInv'
    <2>1. Becomes(r, AskedFor("load", "complete", i))
      BY <1>4 DEF Complete, AskedFor
    <2> QED
      BY <2>1, AskedSound, BecomesStep
  <1>5. ASSUME NEW r \in Requests, NEW c \in Controls, NEW p \in ControlChanges,
               UpdateControl(r, c, p)
        PROVE  ApiInv'
    <2>1. Becomes(r, Asked("load", "control", c, p))
      BY <1>5 DEF UpdateControl, Asked
    <2> QED
      BY <2>1, AskedSound, BecomesStep
  <1>6. ASSUME NEW r \in Requests, List(r)
        PROVE  ApiInv'
    <2>1. Becomes(r, AskedAll("list", "list"))
      BY <1>6 DEF List, AskedAll
    <2> QED
      BY <2>1, AskedSound, BecomesStep
  <1>7. ASSUME NEW r \in Requests, Serve(r)
        PROVE  ApiInv'
    BY <1>7, InsertStep, LoadStep, SaveStep, RereadStep, ReadLatestStep
       DEF Serve
  <1>8. ASSUME NEW r \in Requests, Hand(r)
        PROVE  ApiInv'
    <2>1. Becomes(r, Idle)
      BY <1>8 DEF Hand
    <2>2. Sound(Idle, stored)
      BY IdleState DEF Sound
    <2> QED
      BY <2>1, <2>2, BecomesStep
  <1> QED
    BY <1>1, <1>2, <1>3, <1>4, <1>5, <1>6, <1>7, <1>8, QueryFailsStep
       DEF ClientNext

\* Whoever the clients are, the rows of the tables are consistent.
LEMMA ApiInvariant == ApiSpec => []ApiInv
  <1>1. ApiNext => ClientNext
    BY AssessmentsAssumption DEF ApiNext, ClientNext, Receive
  <1>2. ApiInv /\ [ApiNext]_apiVars => ApiInv'
    BY <1>1, ApiInvStep
  <1> QED
    BY ApiInvInit, <1>2, PTL DEF ApiSpec

-----------------------------------------------------------------------------
(* The page.                                                                *)

LEMMA PanelFields ==
    ASSUME NEW p, p = [f \in DOMAIN p |-> p[f]],
           DOMAIN p = {"view", "id", "shown", "busy", "ack"},
           p.view \in Views, p.id \in Assessments \cup {Null},
           p.shown \in AssessmentRows \cup {Null},
           p.busy \in BOOLEAN, p.ack \in BOOLEAN
    PROVE  p \in PanelStates
  <1> DEFINE I == Assessments \cup {Null}
             S == AssessmentRows \cup {Null}
  <1>1. PanelStates = [view: Views, id: I, shown: S, busy: BOOLEAN,
                       ack: BOOLEAN]
    BY DEF PanelStates
  <1>2. p.id \in I /\ p.shown \in S
    OBVIOUS
  <1> HIDE DEF I, S
  <1>3. p = [view |-> p.view, id |-> p.id, shown |-> p.shown,
             busy |-> p.busy, ack |-> p.ack]
    OBVIOUS
  <1> QED
    BY <1>1, <1>2, <1>3

LEMMA PanelShape ==
    ASSUME NEW p \in PanelStates
    PROVE  /\ p = [f \in DOMAIN p |-> p[f]]
           /\ DOMAIN p = {"view", "id", "shown", "busy", "ack"}
           /\ p.view \in Views /\ p.id \in Assessments \cup {Null}
           /\ p.shown \in AssessmentRows \cup {Null}
           /\ p.busy \in BOOLEAN /\ p.ack \in BOOLEAN
  BY DEF PanelStates

\* The assessment on the page stays.
Same(p) == p \in PanelStates /\ p.id = panel.id /\ p.shown = panel.shown

LEMMA PanelKeeps ==
    ASSUME panel \in PanelStates, NEW view \in Views, NEW b \in BOOLEAN
    PROVE  /\ Same([panel EXCEPT !.view = view])
           /\ Same([panel EXCEPT !.busy = b])
           /\ Same([panel EXCEPT !.ack = b])
           /\ Same([panel EXCEPT !.view = view, !.busy = b])
  <1> DEFINE v == [panel EXCEPT !.view = view]
             u == [panel EXCEPT !.busy = b]
             a == [panel EXCEPT !.ack = b]
             w == [panel EXCEPT !.view = view, !.busy = b]
             Shaped(p) == /\ p = [f \in DOMAIN p |-> p[f]]
                          /\ DOMAIN p = {"view", "id", "shown", "busy", "ack"}
                          /\ p.id = panel.id /\ p.shown = panel.shown
  <1>1. Shaped(v) /\ v.view = view /\ v.busy = panel.busy /\ v.ack = panel.ack
    BY PanelShape
  <1>2. Shaped(u) /\ u.view = panel.view /\ u.busy = b /\ u.ack = panel.ack
    BY PanelShape
  <1>3. Shaped(a) /\ a.view = panel.view /\ a.busy = panel.busy /\ a.ack = b
    BY PanelShape
  <1>4. Shaped(w) /\ w.view = view /\ w.busy = b /\ w.ack = panel.ack
    BY PanelShape
  <1> HIDE DEF v, u, a, w
  <1>5. Same(v)
    BY <1>1, PanelFields, PanelShape DEF Same
  <1>6. Same(u)
    BY <1>2, PanelFields, PanelShape DEF Same
  <1>7. Same(a)
    BY <1>3, PanelFields, PanelShape DEF Same
  <1>8. Same(w)
    BY <1>4, PanelFields, PanelShape DEF Same
  <1> QED
    BY <1>5, <1>6, <1>7, <1>8 DEF v, u, a, w

\* An answer with a row replaces what is on the page.
LEMMA PanelShows ==
    ASSUME panel \in PanelStates, NEW q, NEW view \in Views,
           q.id \in Assessments \cup {Null},
           q.row \in AssessmentRows \cup {Null}
    PROVE  LET p == Shows(q, view)
               u == [Shows(q, view) EXCEPT !.busy = FALSE]
           IN  /\ p \in PanelStates /\ p.id = q.id /\ p.shown = q.row
               /\ u \in PanelStates /\ u.id = q.id /\ u.shown = q.row
  <1> DEFINE p == Shows(q, view)
             u == [p EXCEPT !.busy = FALSE]
  <1>1. /\ p = [f \in DOMAIN p |-> p[f]]
        /\ DOMAIN p = {"view", "id", "shown", "busy", "ack"}
        /\ p.view = view /\ p.id = q.id /\ p.shown = q.row
        /\ p.busy = panel.busy /\ p.ack = panel.ack
    BY PanelShape DEF Shows
  <1> HIDE DEF p
  <1>2. p \in PanelStates
    BY <1>1, PanelFields, PanelShape
  <1>3. /\ u = [f \in DOMAIN u |-> u[f]]
        /\ DOMAIN u = {"view", "id", "shown", "busy", "ack"}
        /\ u.view = view /\ u.id = q.id /\ u.shown = q.row
        /\ u.busy = FALSE /\ u.ack = panel.ack
    BY <1>1
  <1> HIDE DEF u
  <1>4. u \in PanelStates
    BY <1>3, PanelFields, PanelShape
  <1> QED
    BY <1>1, <1>2, <1>3, <1>4 DEF p, u

\* What the page makes of an answer, whatever happened to the request.
LEMMA AnswerShows ==
    ASSUME ApiInv, PanelInv, NEW r \in Requests, Answer(r)
    PROVE  IF request[r].pc = "ok" /\ request[r].op # "control"
           THEN /\ panel' \in PanelStates
                /\ panel'.id = request[r].id /\ panel'.shown = request[r].row
                /\ request[r].row # Null => request[r].id \in Assessments
           ELSE Same(panel')
  <1> DEFINE q == request[r]
  <1>1. /\ Sound(q, stored) /\ q.pc \in {"ok", "failed"}
        /\ panel \in PanelStates /\ panel.view \in Views
    BY PanelShape DEF ApiInv, PanelInv, Answer, Hand, Answered
  <1>2. q.op \in {"create", "update", "complete", "control", "list"}
    BY <1>1 DEF Sound, Ops
  <1>3. /\ "error" \in Views /\ "draft" \in Views /\ "result" \in Views
        /\ FALSE \in BOOLEAN
    BY DEF Views
  <1>4. CASE q.pc = "failed"
    <2>1. panel' = AfterFailure(q)
      BY <1>4 DEF Answer
    <2>2. Same(panel)
      BY <1>1 DEF Same
    <2> HIDE DEF q
    <2>3. \/ AfterFailure(q) = panel
          \/ AfterFailure(q) = [panel EXCEPT !.view = "error"]
          \/ AfterFailure(q) = [panel EXCEPT !.view = "error", !.busy = FALSE]
          \/ AfterFailure(q) = [panel EXCEPT !.busy = FALSE]
          \/ AfterFailure(q) = [panel EXCEPT !.view = "draft", !.busy = FALSE]
      BY <1>2 DEF AfterFailure
    <2>4. Same(AfterFailure(q))
      BY <1>1, <1>3, <2>2, <2>3, PanelKeeps
    <2>5. Same(panel')
      BY <2>1, <2>4 DEF Same
    <2> QED
      BY <1>4, <2>5 DEF q
  <1>5. CASE q.pc = "ok" /\ q.op = "control"
    <2>1. panel' = panel
      BY <1>5 DEF Answer, AfterSuccess
    <2>2. Same(panel')
      BY <1>1, <2>1 DEF Same
    <2> QED
      BY <1>5, <2>2
  <1>6. CASE q.pc = "ok" /\ q.op # "control"
    <2>1. \/ q.id = Null /\ q.row = Null
          \/ q.id \in Assessments /\ q.row \in AssessmentRows
      BY <1>1, <1>2, <1>6 DEF Sound
    <2>2. panel' = AfterSuccess(q)
      BY <1>6 DEF Answer
    <2> HIDE DEF q
    <2>3. \E view \in Views :
              \/ AfterSuccess(q) = Shows(q, view)
              \/ AfterSuccess(q) = [Shows(q, view) EXCEPT !.busy = FALSE]
      <3>1. CASE q.op = "list"
        <4>1. ViewOf(q.row) \in Views
          BY DEF ViewOf, Views
        <4>2. AfterSuccess(q) = Shows(q, ViewOf(q.row))
          BY <3>1 DEF AfterSuccess
        <4> QED
          BY <4>1, <4>2
      <3>2. CASE q.op = "create"
        BY <1>3, <3>2 DEF AfterSuccess
      <3>3. CASE q.op = "update"
        BY <1>1, <3>3 DEF AfterSuccess
      <3>4. CASE q.op = "complete"
        BY <1>3, <3>4 DEF AfterSuccess
      <3> QED
        BY <1>2, <1>6, <3>1, <3>2, <3>3, <3>4
    <2>4. PICK view \in Views :
              \/ AfterSuccess(q) = Shows(q, view)
              \/ AfterSuccess(q) = [Shows(q, view) EXCEPT !.busy = FALSE]
      BY <2>3
    <2>5. /\ q.id \in Assessments \cup {Null}
          /\ q.row \in AssessmentRows \cup {Null}
      BY <2>1
    <2>6. /\ AfterSuccess(q) \in PanelStates
          /\ AfterSuccess(q).id = q.id /\ AfterSuccess(q).shown = q.row
      BY <1>1, <2>4, <2>5, PanelShows
    <2>7. q.row # Null => q.id \in Assessments
      BY <2>1
    <2>8. /\ panel' \in PanelStates /\ panel'.id = q.id /\ panel'.shown = q.row
      BY <2>2, <2>6
    <2> QED
      BY <1>6, <2>7, <2>8 DEF q
  <1> QED
    BY <1>1, <1>4, <1>5, <1>6

\* What the page sends is what the API accepts.
LEMMA FirstAnswersTyped == FirstAnswers \in Answers
  <1> DEFINE f == [d \in DOMAINS |->
                      CASE d = "gouvernance" -> 70 [] d = "risques" -> 55
                        [] d = "continuite" -> 48 [] d = "incidents" -> 72
                        [] d = "supply_chain" -> 40 [] d = "formation" -> 60]
  <1>1. f \in [DOMAINS -> Int \cup {Null}]
    BY DEF DOMAINS
  <1>2. FirstAnswers = [sector |-> "industrie", headcountBand |-> "50_249",
                        digitalActivities |-> TRUE,
                        criticalDependencies |-> TRUE, domainMaturity |-> f]
    BY DEF FirstAnswers
  <1> HIDE DEF f
  <1> QED
    BY <1>1, <1>2 DEF Answers

LEMMA SlidePatchTyped ==
    ASSUME PanelInv, panel.shown # Null, NEW slide \in Slides
    PROVE  SlidePatch(slide) \in Answers
  <1> DEFINE known == panel.shown.answers.domainMaturity
             f == [d \in DOMAINS |-> IF d = slide.domain THEN slide.value
                                     ELSE IF known = Null THEN Null
                                     ELSE known[d]]
  <1>1. known \in [DOMAINS -> Int \cup {Null}] \cup {Null}
    <2>1. panel.shown \in AssessmentRows
      BY PanelShape DEF PanelInv
    <2>2. panel.shown.answers \in Answers
      BY <2>1 DEF AssessmentRows
    <2> QED
      BY <2>2 DEF Answers
  <1>2. slide.value \in Int
    BY PanelAssumption
  <1>3. SlidePatch(slide) = [NoAnswers EXCEPT !.domainMaturity = f]
    BY DEF SlidePatch
  <1> HIDE DEF known
  <1>4. f \in [DOMAINS -> Int \cup {Null}]
    <2>1. ASSUME NEW d \in DOMAINS
          PROVE  (IF d = slide.domain THEN slide.value
                  ELSE IF known = Null THEN Null ELSE known[d])
                     \in Int \cup {Null}
      BY <1>1, <1>2
    <2> QED
      BY <2>1
  <1> HIDE DEF f
  <1>5. [NoAnswers EXCEPT !.domainMaturity = f]
            = [sector |-> Null, headcountBand |-> Null,
               digitalActivities |-> Null, criticalDependencies |-> Null,
               domainMaturity |-> f]
    BY DEF NoAnswers
  <1>6. [sector |-> Null, headcountBand |-> Null,
         digitalActivities |-> Null, criticalDependencies |-> Null,
         domainMaturity |-> f] \in Answers
    BY <1>4 DEF Answers
  <1> QED
    BY <1>3, <1>5, <1>6

LEMMA StatusPatchTyped ==
    ASSUME NEW s \in StatusChoices
    PROVE  [status |-> s, owner |-> Null, dueAt |-> Null] \in ControlChanges
  <1>1. s \in ControlStatuses \cup {Null}
    BY PanelAssumption
  <1> QED
    BY <1>1 DEF ControlChanges

LEMMA DraftPage ==
    ASSUME PanelInv, Page = "draft"
    PROVE  panel.shown # Null /\ panel.id \in Assessments
  BY DEF Page, PanelInv

\* Every step of the page is one of a client of the API, and leaves on the
\* page either the assessment that was there or the one of an answer.
LEMMA PanelStep ==
    ASSUME ApiInv, PanelInv, [Next]_vars
    PROVE  [ClientNext]_apiVars /\ PanelInv'
  <1>1. /\ panel \in PanelStates /\ panel.view \in Views
        /\ panel.busy \in BOOLEAN /\ panel.ack \in BOOLEAN
        /\ panel.shown # Null => panel.id \in Assessments
        /\ overlap \in BOOLEAN /\ doubt \in BOOLEAN
    BY PanelShape DEF PanelInv
  <1>2. /\ "loading" \in Views /\ "gap" \in Views /\ "result" \in Views
        /\ TRUE \in BOOLEAN
    BY DEF Views
  <1>3. ASSUME Same(panel'), overlap' \in BOOLEAN, doubt' \in BOOLEAN
        PROVE  PanelInv'
    BY <1>1, <1>3 DEF Same, PanelInv
  <1>4. ASSUME NEW state, Sends(state), Same(state)
        PROVE  PanelInv'
    <2>1. panel' = state /\ overlap' \in BOOLEAN /\ doubt' \in BOOLEAN
      BY <1>1, <1>4 DEF Sends
    <2>2. Same(panel')
      BY <1>4, <2>1 DEF Same
    <2> QED
      BY <1>3, <2>1, <2>2
  <1>5. ASSUME NEW state, Stays(state), Same(state)
        PROVE  UNCHANGED apiVars /\ PanelInv'
    <2>1. /\ panel' = state /\ overlap' \in BOOLEAN /\ doubt' \in BOOLEAN
          /\ UNCHANGED apiVars
      BY <1>1, <1>5 DEF Stays, apiVars
    <2>2. Same(panel')
      BY <1>5, <2>1 DEF Same
    <2> QED
      BY <1>3, <2>1, <2>2
  <1>6. ASSUME NEW r \in Requests, Refresh(r)
        PROVE  ClientNext /\ PanelInv'
    <2> DEFINE view == IF panel.view = "mount" THEN "loading" ELSE panel.view
    <2>1. Sends([panel EXCEPT !.view = view]) /\ List(r)
      BY <1>6 DEF Refresh
    <2>2. view \in Views
      BY <1>1, <1>2
    <2> HIDE DEF view
    <2>3. Same([panel EXCEPT !.view = view])
      BY <1>1, <1>2, <2>2, PanelKeeps
    <2> QED
      BY <1>4, <2>1, <2>3 DEF ClientNext
  <1>7. ASSUME NEW r \in Requests, StartAssessment(r)
        PROVE  ClientNext /\ PanelInv'
    <2>1. /\ \E i \in Assessments : Create(r, i, FirstAnswers)
          /\ Sends([panel EXCEPT !.view = "loading", !.busy = TRUE])
      BY <1>7 DEF StartAssessment
    <2>2. Same([panel EXCEPT !.view = "loading", !.busy = TRUE])
      BY <1>1, <1>2, PanelKeeps
    <2> QED
      BY <1>4, <2>1, <2>2, FirstAnswersTyped DEF ClientNext
  <1>8. ASSUME NEW r \in Requests, PatchAnswers(r)
        PROVE  ClientNext /\ PanelInv'
    <2>1. panel.shown # Null /\ panel.id \in Assessments
      BY <1>8, DraftPage DEF PatchAnswers
    <2>2. \E patch \in FieldEdits \cup {SlidePatch(s) : s \in Slides} :
              Update(r, panel.id, patch)
      BY <1>8 DEF PatchAnswers
    <2>3. FieldEdits \cup {SlidePatch(s) : s \in Slides} \subseteq Answers
      BY <2>1, SlidePatchTyped, PanelAssumption
    <2>4. Sends([panel EXCEPT !.busy = TRUE])
      BY <1>8 DEF PatchAnswers
    <2>5. Same([panel EXCEPT !.busy = TRUE])
      BY <1>1, <1>2, PanelKeeps
    <2>6. \E i \in Assessments, a \in Answers : Update(r, i, a)
      BY <2>1, <2>2, <2>3
    <2> QED
      BY <1>4, <2>4, <2>5, <2>6 DEF ClientNext
  <1>9. ASSUME NEW r \in Requests, Finish(r)
        PROVE  ClientNext /\ PanelInv'
    <2>1. panel.id \in Assessments /\ Complete(r, panel.id)
      BY <1>9, DraftPage DEF Finish
    <2>2. Sends([panel EXCEPT !.view = "loading", !.busy = TRUE])
      BY <1>9 DEF Finish
    <2>3. Same([panel EXCEPT !.view = "loading", !.busy = TRUE])
      BY <1>1, <1>2, PanelKeeps
    <2> QED
      BY <1>4, <2>1, <2>2, <2>3 DEF ClientNext
  <1>10. ASSUME NEW r \in Requests, OnControlStatus(r)
         PROVE  ClientNext /\ PanelInv'
    <2>1. \E c \in Controls, p \in ControlChanges : UpdateControl(r, c, p)
      BY <1>10, StatusPatchTyped DEF OnControlStatus
    <2>2. Sends(panel)
      BY <1>10 DEF OnControlStatus
    <2>3. Same(panel)
      BY <1>1 DEF Same
    <2> QED
      BY <1>4, <2>1, <2>2, <2>3 DEF ClientNext
  <1>11. ASSUME NEW r \in Requests, Answer(r)
         PROVE  ClientNext /\ PanelInv'
    <2>1. Hand(r) /\ overlap' \in BOOLEAN /\ doubt' \in BOOLEAN
      BY <1>1, <1>11 DEF Answer
    <2>2. CASE Same(panel')
      BY <1>3, <2>1, <2>2 DEF ClientNext
    <2>3. CASE ~Same(panel')
      <3>1. /\ panel' \in PanelStates
            /\ panel'.shown # Null => panel'.id \in Assessments
        BY <1>11, <2>3, AnswerShows
      <3> QED
        BY <2>1, <3>1 DEF PanelInv, ClientNext
    <2> QED
      BY <2>2, <2>3
  <1>12. ASSUME ToggleAck \/ OpenGap \/ BackToResults
         PROVE  UNCHANGED apiVars /\ PanelInv'
    <2> DEFINE ack == ~panel.ack
    <2>1. \/ Stays([panel EXCEPT !.ack = ack])
          \/ Stays([panel EXCEPT !.view = "gap"])
          \/ Stays([panel EXCEPT !.view = "result"])
      BY <1>12 DEF ToggleAck, OpenGap, BackToResults
    <2>2. ack \in BOOLEAN
      OBVIOUS
    <2> HIDE DEF ack
    <2>3. /\ Same([panel EXCEPT !.ack = ack])
          /\ Same([panel EXCEPT !.view = "gap"])
          /\ Same([panel EXCEPT !.view = "result"])
      BY <1>1, <1>2, <2>2, PanelKeeps
    <2> QED
      BY <1>5, <2>1, <2>3
  <1>13. ASSUME Crash \/ \E r \in Requests : Serve(r) \/ QueryFails(r),
                UNCHANGED <<panel, overlap, doubt>>
         PROVE  ClientNext /\ PanelInv'
    <2>1. Same(panel') /\ overlap' \in BOOLEAN /\ doubt' \in BOOLEAN
      BY <1>1, <1>13 DEF Same
    <2> QED
      BY <1>3, <1>13, <2>1 DEF ClientNext
  <1>14. ASSUME UNCHANGED vars
         PROVE  UNCHANGED apiVars /\ PanelInv'
    <2>1. /\ Same(panel') /\ overlap' \in BOOLEAN /\ doubt' \in BOOLEAN
          /\ UNCHANGED apiVars
      BY <1>1, <1>14 DEF Same, vars, apiVars
    <2> QED
      BY <1>3, <2>1
  <1> QED
    BY <1>6, <1>7, <1>8, <1>9, <1>10, <1>11, <1>12, <1>13, <1>14 DEF Next

LEMMA PanelInvariant == Spec => [](ApiInv /\ PanelInv)
  <1>1. Init => ApiInv /\ PanelInv
    <2> SUFFICES ASSUME Init PROVE ApiInv /\ PanelInv
      OBVIOUS
    <2>1. ApiInv
      BY ApiInvInit DEF Init
    <2>2. panel = [view |-> "mount", id |-> Null, shown |-> Null,
                   busy |-> FALSE, ack |-> FALSE]
      BY DEF Init
    <2>3. panel \in PanelStates /\ panel.shown = Null
      BY <2>2 DEF PanelStates, Views
    <2> QED
      BY <2>1, <2>3 DEF Init, PanelInv
  <1>2. ApiInv /\ PanelInv /\ [Next]_vars => (ApiInv /\ PanelInv)'
    BY PanelStep, ApiInvStep
  <1> QED
    BY <1>1, <1>2, PTL DEF Spec

\* Tables, requests and page have the values that the code gives them: an
\* id of the controls never holds an assessment, and what the page shows
\* is a row with all of its columns (postgres.domain-store.ts:49).
THEOREM TypeCorrect == Spec => []TypeOK
  <1>1. ApiInv /\ PanelInv => TypeOK
    <2> SUFFICES ASSUME ApiInv, PanelInv PROVE TypeOK
      OBVIOUS
    <2>1. \A r \in Requests : request[r].pc \in Pcs
      BY QueryShape DEF ApiInv
    <2> QED
      BY <2>1 DEF ApiInv, Tables, PanelInv, TypeOK
  <1> QED
    BY <1>1, PanelInvariant, PTL

LEMMA RowsConsistent == ApiInv => ResultsMatchAnswers
  BY DEF ApiInv, Tables, Matches, ResultsMatchAnswers

LEMMA RowsPrioritised == ApiInv => GapsPrioritised
  <1> SUFFICES ASSUME ApiInv, NEW i \in Assessments, stored[i] # Null,
                      stored[i].result # Null
               PROVE  Prioritised(stored[i].result.gaps,
                                  stored[i].result.domainScores)
    BY DEF GapsPrioritised, Prioritised
  <1>1. stored[i] \in AssessmentRows /\ Matches(stored[i])
    BY DEF ApiInv, Tables
  <1>2. stored[i].answers \in Answers
    BY <1>1 DEF AssessmentRows
  <1>3. stored[i].result = ResultOf(stored[i].answers)
    BY <1>1 DEF Matches
  <1> QED
    BY <1>2, <1>3, ResultOfAnswers

\* Whatever the page sends, in whatever order the requests that overlap
\* load, save and fail: the results of a completed assessment are those of
\* the answers stored with it, and a draft has none
\* (assessments.service.ts:81, postgres.domain-store.ts:199).
THEOREM ResultsConsistent == Spec => []ResultsMatchAnswers
  BY PanelInvariant, RowsConsistent, PTL

\* The same of any number of clients of the API, whatever answers they send.
THEOREM ApiResultsConsistent ==
    ApiSpec => [](ResultsMatchAnswers /\ GapsPrioritised)
  BY ApiInvariant, RowsConsistent, RowsPrioritised, PTL

\* For any answers, the gaps of a completed assessment are those of the
\* domains under their thresholds, each once, the most urgent first
\* (assessment-scoring.ts:129).
THEOREM GapsSorted == Spec => []GapsPrioritised
  BY PanelInvariant, RowsPrioritised, PTL

-----------------------------------------------------------------------------
(* The browser that waits for its answers.                                  *)

\* A request that is sent while another is pending starts an overlap.
LEMMA SendKeeps ==
    ASSUME ApiInv, HistoryInv, NEW r \in Requests, NEW q, NEW state,
           At(r, "idle"), Becomes(r, q), q.pc \in {"insert", "load", "list"},
           Sends(state), Same(state)
    PROVE  HistoryInv'
  <1>1. /\ stored' = stored
        /\ \A s \in Requests :
               request'[s] = IF s = r THEN q ELSE request[s]
    BY DEF Becomes, ApiInv
  <1>2. /\ panel'.id = panel.id /\ panel'.shown = panel.shown
        /\ doubt' = doubt
        /\ ~overlap' => \A s \in Requests : At(s, "idle")
    BY DEF Sends, Same
  <1>3. ~overlap' => \A s \in Requests :
                         request'[s].pc \in {"idle", "insert", "load", "list"}
    BY <1>1, <1>2 DEF At
  <1>4. Alone'
    BY <1>1, <1>2 DEF Alone, At
  <1>5. LoadedIsFresh' /\ AnswerIsFresh'
    BY <1>3 DEF LoadedIsFresh, AnswerIsFresh, At
  <1>6. ShownIsFresh'
    <2> SUFFICES ASSUME ~doubt', panel'.shown # Null,
                        \A s \in Requests : \/ request'[s].pc = "idle"
                                            \/ request'[s].op = "control"
                 PROVE  stored'[panel'.id] = panel'.shown
      BY DEF ShownIsFresh, At
    <2>1. \A s \in Requests : At(s, "idle") \/ request[s].op = "control"
      BY <1>1 DEF At
    <2> QED
      BY <1>1, <1>2, <2>1 DEF HistoryInv, ShownIsFresh
  <1> QED
    BY <1>4, <1>5, <1>6 DEF HistoryInv

\* A request that is served alone sees the tables as they stay.
LEMMA ServeKeeps ==
    ASSUME ApiInv, PanelInv, HistoryInv, NEW r \in Requests, NEW q,
           ~At(r, "idle"), q.pc # "idle", q.op = request[r].op,
           request' = [request EXCEPT ![r] = q],
           UNCHANGED <<panel, overlap, doubt>>,
           q.op = "control" => \A i \in Assessments : stored'[i] = stored[i],
           q.pc = "save" =>
               /\ q.row = Effect(q.op, stored'[q.id], q.patch)
               /\ q.id \in Assessments => stored'[q.id].status = "draft",
           q.pc = "ok" /\ q.op # "control" =>
               q.row = IF q.id = Null THEN Null ELSE stored'[q.id]
    PROVE  HistoryInv'
  <1>1. \A s \in Requests : request'[s] = IF s = r THEN q ELSE request[s]
    BY DEF ApiInv
  <1>2. Alone'
    BY <1>1 DEF HistoryInv, Alone, At
  <1>3. ~overlap => \A s \in Requests : s # r => request'[s].pc = "idle"
    BY <1>1 DEF HistoryInv, Alone, At
  <1>4. LoadedIsFresh'
    <2> SUFFICES ASSUME ~overlap', NEW s \in Requests, request'[s].pc = "save"
                 PROVE  /\ request'[s].row = Effect(request'[s].op,
                                                    stored'[request'[s].id],
                                                    request'[s].patch)
                        /\ request'[s].id \in Assessments =>
                               stored'[request'[s].id].status = "draft"
      BY DEF LoadedIsFresh, At
    <2>1. request'[s] = q
      BY <1>1, <1>3
    <2> QED
      BY <2>1
  <1>5. AnswerIsFresh'
    <2> SUFFICES ASSUME ~overlap', NEW s \in Requests, request'[s].pc = "ok",
                        request'[s].op # "control"
                 PROVE  request'[s].row = IF request'[s].id = Null THEN Null
                                          ELSE stored'[request'[s].id]
      BY DEF AnswerIsFresh, At
    <2>1. request'[s] = q
      BY <1>1, <1>3
    <2> QED
      BY <2>1
  <1>6. ShownIsFresh'
    <2> SUFFICES ASSUME ~doubt', panel'.shown # Null,
                        \A s \in Requests : \/ request'[s].pc = "idle"
                                            \/ request'[s].op = "control"
                 PROVE  stored'[panel'.id] = panel'.shown
      BY DEF ShownIsFresh, At
    <2>1. q.op = "control"
      BY <1>1
    <2>2. \A s \in Requests : At(s, "idle") \/ request[s].op = "control"
      BY <1>1, <2>1 DEF At
    <2>3. panel' = panel /\ panel.id \in Assessments /\ ~doubt
      BY DEF PanelInv
    <2>4. stored[panel.id] = panel.shown
      BY <2>2, <2>3 DEF HistoryInv, ShownIsFresh
    <2> QED
      BY <2>1, <2>3, <2>4
  <1> QED
    BY <1>2, <1>4, <1>5, <1>6 DEF HistoryInv

LEMMA ServeHistory ==
    ASSUME ApiInv, PanelInv, HistoryInv, NEW r \in Requests,
           Serve(r) \/ QueryFails(r), UNCHANGED <<panel, overlap, doubt>>
    PROVE  HistoryInv'
  <1> DEFINE q == request[r]
  <1>1. Sound(q, stored) /\ Tables(stored) /\ q \in QueryStates
    BY DEF ApiInv, Sound
  <1>2. {"reread", "failed", "save", "ok"} \subseteq Pcs
    BY DEF Pcs
  <1>3. ASSUME NEW pc \in {"reread", "failed"}, ~At(r, "idle"),
               request' = [request EXCEPT ![r] = Moved(q, pc)],
               q.op = "control" =>
                   \A i \in Assessments : stored'[i] = stored[i]
        PROVE  HistoryInv'
    <2> DEFINE e == Moved(q, pc)
    <2>1. pc \in Pcs /\ pc # "idle" /\ pc # "save" /\ pc # "ok"
      BY DEF Pcs
    <2>2. e.pc = pc /\ e.op = q.op
      BY <1>1, <2>1, MovedState
    <2> HIDE DEF e
    <2>3. request' = [request EXCEPT ![r] = e]
      BY <1>3 DEF e
    <2> QED
      BY <1>3, <2>1, <2>2, <2>3, ServeKeeps
  <1>4. CASE Insert(r)
    <2>1. q.pc = "insert" /\ q.op = "create" /\ ~At(r, "idle")
      BY <1>1, <1>4 DEF Insert, At, Sound
    <2>2. \E pc \in {"reread", "failed"} :
              request' = [request EXCEPT ![r] = Moved(q, pc)]
      BY <1>4 DEF Insert, Becomes, Moved
    <2> QED
      BY <1>3, <2>1, <2>2
  <1>5. CASE Load(r)
    <2> DEFINE row == stored[q.id]
    <2>1. q.pc = "load" /\ ~At(r, "idle") /\ stored' = stored
      BY <1>5 DEF Load, At, Becomes
    <2>2. CASE Refused(q.op, row)
      <3>1. request' = [request EXCEPT ![r] = Moved(q, "failed")]
        BY <1>5, <2>2 DEF Load, Becomes, Moved
      <3> QED
        BY <1>3, <2>1, <3>1
    <2>3. CASE ~Refused(q.op, row)
      <3> DEFINE new == Effect(q.op, row, q.patch)
                 e == Held(q, "save", new)
      <3>1. request' = [request EXCEPT ![r] = e]
        BY <1>5, <2>3 DEF Load, Becomes, Held
      <3>2. /\ IF q.op = "control" THEN new \in ControlRows
               ELSE new \in AssessmentRows /\ Matches(new)
            /\ q.id \in Assessments => row.status = "draft"
        BY <1>1, <2>1, <2>3, EffectSound
      <3> HIDE DEF new
      <3>3. new \in AssessmentRows \cup ControlRows \cup {Null}
        BY <3>2
      <3>4. /\ e.pc = "save" /\ e.op = q.op /\ e.id = q.id
            /\ e.patch = q.patch /\ e.row = new
        BY <1>1, <1>2, <3>3, HeldState
      <3> HIDE DEF e
      <3>5. /\ e.row = Effect(e.op, stored'[e.id], e.patch)
            /\ e.id \in Assessments => stored'[e.id].status = "draft"
        BY <2>1, <3>2, <3>4 DEF new
      <3> QED
        BY <2>1, <3>1, <3>4, <3>5, ServeKeeps
    <2> QED
      BY <2>2, <2>3
  <1>6. CASE Save(r)
    <2>1. /\ q.pc = "save" /\ ~At(r, "idle")
          /\ stored' = [stored EXCEPT ![q.id] = q.row]
          /\ request' = [request EXCEPT ![r] = Moved(q, "reread")]
      BY <1>6 DEF Save, At, Moved
    <2>2. q.op = "control" => q.id \in Controls
      BY <1>1, <2>1 DEF Sound
    <2>3. q.op = "control" => \A i \in Assessments : stored'[i] = stored[i]
      BY <1>1, <2>1, <2>2, AssessmentsAssumption DEF Tables, Ids
    <2> QED
      BY <1>3, <2>1, <2>3
  <1>7. CASE Reread(r)
    <2> DEFINE row == stored[q.id]
               e == Held(q, "ok", row)
    <2>1. /\ q.pc = "reread" /\ ~At(r, "idle") /\ stored' = stored
          /\ request' = [request EXCEPT ![r] = e]
      BY <1>7 DEF Reread, Becomes, At, Held
    <2>2. q.id \in Ids
      BY <1>1, <2>1 DEF Sound, Ops, Ids
    <2>3. row \in AssessmentRows \cup ControlRows \cup {Null}
      BY <1>1, <2>2 DEF Tables
    <2> HIDE DEF row
    <2>4. e.pc = "ok" /\ e.op = q.op /\ e.id = q.id /\ e.row = row
      BY <1>1, <1>2, <2>3, HeldState
    <2> HIDE DEF e
    <2>5. e.row = IF e.id = Null THEN Null ELSE stored'[e.id]
      BY <2>1, <2>2, <2>4, AssessmentsAssumption DEF Ids, row
    <2> QED
      BY <2>1, <2>4, <2>5, ServeKeeps
  <1>8. CASE ReadLatest(r)
    <2>1. PICK i : /\ i = Null \/ (i \in Assessments /\ stored[i] # Null)
                   /\ Becomes(r, Found(q, i, IF i = Null THEN Null
                                             ELSE stored[i]))
      BY <1>8 DEF ReadLatest, Found
    <2> DEFINE row == IF i = Null THEN Null ELSE stored[i]
               e == Found(q, i, row)
    <2>2. /\ q.pc = "list" /\ ~At(r, "idle") /\ stored' = stored
          /\ request' = [request EXCEPT ![r] = e]
      BY <1>8, <2>1 DEF ReadLatest, Becomes, At
    <2>3. /\ i \in Ids \cup {Null}
          /\ row \in AssessmentRows \cup ControlRows \cup {Null}
      BY <1>1, <2>1 DEF Tables, Ids
    <2> HIDE DEF row
    <2>4. e.pc = "ok" /\ e.op = q.op /\ e.id = i /\ e.row = row
      BY <1>1, <2>3, FoundState
    <2> HIDE DEF e
    <2>5. e.row = IF e.id = Null THEN Null ELSE stored'[e.id]
      BY <2>2, <2>4 DEF row
    <2>6. q.op # "control"
      BY <1>1, <2>2 DEF Sound
    <2> QED
      BY <2>2, <2>4, <2>5, <2>6, ServeKeeps
  <1>9. CASE QueryFails(r)
    <2>1. /\ ~At(r, "idle") /\ stored' = stored
          /\ request' = [request EXCEPT ![r] = Moved(q, "failed")]
      BY <1>9 DEF QueryFails, Becomes, At, Moved
    <2> QED
      BY <1>3, <2>1
  <1> QED
    BY <1>4, <1>5, <1>6, <1>7, <1>8, <1>9 DEF Serve

LEMMA CrashHistory ==
    ASSUME ApiInv, HistoryInv, Crash, UNCHANGED <<panel, overlap, doubt>>
    PROVE  HistoryInv'
  <1>1. /\ stored' = stored
        /\ \A s \in Requests : request'[s] = IF At(s, "idle") THEN Idle
                                             ELSE Moved(request[s], "failed")
    BY DEF Crash, Moved
  <1>2. ASSUME NEW s \in Requests
        PROVE  /\ At(s, "idle") => request'[s].pc = "idle"
               /\ ~At(s, "idle") => /\ request'[s].pc = "failed"
                                    /\ request'[s].op = request[s].op
    <2> DEFINE e == Moved(request[s], "failed")
    <2>1. request[s] \in QueryStates /\ "failed" \in Pcs
      BY DEF ApiInv, Pcs
    <2>2. e.pc = "failed" /\ e.op = request[s].op
      BY <2>1, MovedState
    <2> HIDE DEF e
    <2>3. request'[s] = IF At(s, "idle") THEN Idle ELSE e
      BY <1>1 DEF e
    <2> QED
      BY <2>2, <2>3, IdleState
  <1>3. Alone'
    BY <1>2 DEF HistoryInv, Alone, At
  <1>4. LoadedIsFresh' /\ AnswerIsFresh'
    <2>1. \A s \in Requests : request'[s].pc \in {"idle", "failed"}
      BY <1>2
    <2> QED
      BY <2>1 DEF LoadedIsFresh, AnswerIsFresh, At
  <1>5. ShownIsFresh'
    <2> SUFFICES ASSUME ~doubt', panel'.shown # Null,
                        \A s \in Requests : \/ request'[s].pc = "idle"
                                            \/ request'[s].op = "control"
                 PROVE  stored'[panel'.id] = panel'.shown
      BY DEF ShownIsFresh, At
    <2>1. \A s \in Requests : At(s, "idle") \/ request[s].op = "control"
      BY <1>2
    <2> QED
      BY <1>1, <2>1 DEF HistoryInv, ShownIsFresh
  <1> QED
    BY <1>3, <1>4, <1>5 DEF HistoryInv

\* The answer of a request that was alone is what is stored; after any
\* other the page may be out of date, and "doubt" says so.
LEMMA AnswerHistory ==
    ASSUME ApiInv, PanelInv, HistoryInv, NEW r \in Requests, Answer(r)
    PROVE  HistoryInv'
  <1> DEFINE q == request[r]
  <1>1. /\ stored' = stored /\ overlap' = overlap /\ q.pc \in {"ok", "failed"}
        /\ \A s \in Requests : request'[s] = IF s = r THEN Idle ELSE request[s]
        /\ doubt' = IF q.op = "control" THEN doubt
                    ELSE overlap \/ q.pc = "failed"
    BY DEF Answer, Hand, Answered, Becomes, ApiInv
  <1>2. \A s \in Requests :
            s # r => (request'[s].pc = "idle" <=> At(s, "idle"))
    BY <1>1 DEF At
  <1>3. Alone'
    BY <1>1, <1>2, IdleState DEF HistoryInv, Alone, At
  <1>4. ~overlap' => \A s \in Requests : request'[s].pc = "idle"
    BY <1>1, IdleState DEF HistoryInv, Alone, At
  <1>5. LoadedIsFresh' /\ AnswerIsFresh'
    BY <1>4 DEF LoadedIsFresh, AnswerIsFresh, At
  <1>6. ShownIsFresh'
    <2> SUFFICES ASSUME ~doubt', panel'.shown # Null,
                        \A s \in Requests : \/ request'[s].pc = "idle"
                                            \/ request'[s].op = "control"
                 PROVE  stored'[panel'.id] = panel'.shown
      BY DEF ShownIsFresh, At
    <2>1. CASE q.op = "control"
      <3>1. panel'.id = panel.id /\ panel'.shown = panel.shown
        BY <2>1, AnswerShows DEF Same
      <3>2. ~doubt
        BY <1>1, <2>1
      <3>3. \A s \in Requests : At(s, "idle") \/ request[s].op = "control"
        BY <1>1, <2>1 DEF At
      <3> QED
        BY <1>1, <3>1, <3>2, <3>3 DEF HistoryInv, ShownIsFresh
    <2>2. CASE q.op # "control"
      <3>1. q.pc = "ok" /\ ~overlap
        BY <1>1, <2>2
      <3>2. /\ panel'.id = q.id /\ panel'.shown = q.row
            /\ q.row # Null => q.id \in Assessments
        BY <2>2, <3>1, AnswerShows
      <3>3. q.row = IF q.id = Null THEN Null ELSE stored[q.id]
        BY <2>2, <3>1 DEF HistoryInv, AnswerIsFresh, At
      <3> QED
        BY <1>1, <3>2, <3>3
    <2> QED
      BY <2>1, <2>2
  <1> QED
    BY <1>3, <1>5, <1>6 DEF HistoryInv

LEMMA HistoryStep ==
    ASSUME ApiInv, PanelInv, HistoryInv, [Next]_vars
    PROVE  HistoryInv'
  <1>1. /\ panel \in PanelStates /\ panel.view \in Views
        /\ panel.busy \in BOOLEAN /\ panel.ack \in BOOLEAN /\ TRUE \in BOOLEAN
        /\ {"loading", "gap", "result"} \subseteq Views
    BY PanelShape DEF PanelInv, Views
  <1>2. ASSUME UNCHANGED <<stored, request, overlap, doubt>>, Same(panel')
        PROVE  HistoryInv'
    BY <1>2 DEF Same, HistoryInv, Alone, LoadedIsFresh, AnswerIsFresh,
                ShownIsFresh, At
  <1>3. ASSUME NEW r \in Requests, Refresh(r)
        PROVE  HistoryInv'
    <2> DEFINE view == IF panel.view = "mount" THEN "loading" ELSE panel.view
               q == AskedAll("list", "list")
    <2>1. /\ At(r, "idle") /\ Becomes(r, q)
          /\ Sends([panel EXCEPT !.view = view])
      BY <1>3 DEF Refresh, List, AskedAll
    <2>2. q.pc = "list"
      BY DEF AskedAll, Idle
    <2>3. view \in Views
      BY <1>1
    <2> HIDE DEF view, q
    <2>4. Same([panel EXCEPT !.view = view])
      BY <1>1, <2>3, PanelKeeps
    <2> QED
      BY <2>1, <2>2, <2>4, SendKeeps
  <1>4. ASSUME NEW r \in Requests, StartAssessment(r)
        PROVE  HistoryInv'
    <2>1. PICK i \in Assessments : Create(r, i, FirstAnswers)
      BY <1>4 DEF StartAssessment
    <2> DEFINE q == Asked("insert", "create", i, FirstAnswers)
    <2>2. At(r, "idle") /\ Becomes(r, q) /\ q.pc = "insert"
      BY <2>1 DEF Create, Asked, Idle
    <2> HIDE DEF q
    <2>3. Same([panel EXCEPT !.view = "loading", !.busy = TRUE])
      BY <1>1, PanelKeeps
    <2>4. Sends([panel EXCEPT !.view = "loading", !.busy = TRUE])
      BY <1>4 DEF StartAssessment
    <2> QED
      BY <2>2, <2>3, <2>4, SendKeeps
  <1>5. ASSUME NEW r \in Requests, PatchAnswers(r)
        PROVE  HistoryInv'
    <2>1. PICK patch : Update(r, panel.id, patch)
      BY <1>5 DEF PatchAnswers
    <2> DEFINE q == Asked("load", "update", panel.id, patch)
    <2>2. At(r, "idle") /\ Becomes(r, q) /\ q.pc = "load"
      BY <2>1 DEF Update, Asked, Idle
    <2> HIDE DEF q
    <2>3. Same([panel EXCEPT !.busy = TRUE])
      BY <1>1, PanelKeeps
    <2>4. Sends([panel EXCEPT !.busy = TRUE])
      BY <1>5 DEF PatchAnswers
    <2> QED
      BY <2>2, <2>3, <2>4, SendKeeps
  <1>6. ASSUME NEW r \in Requests, Finish(r)
        PROVE  HistoryInv'
    <2> DEFINE q == AskedFor("load", "complete", panel.id)
    <2>1. At(r, "idle") /\ Becomes(r, q) /\ q.pc = "load"
      BY <1>6 DEF Finish, Complete, AskedFor, Idle
    <2> HIDE DEF q
    <2>2. Same([panel EXCEPT !.view = "loading", !.busy = TRUE])
      BY <1>1, PanelKeeps
    <2>3. Sends([panel EXCEPT !.view = "loading", !.busy = TRUE])
      BY <1>6 DEF Finish
    <2> QED
      BY <2>1, <2>2, <2>3, SendKeeps
  <1>7. ASSUME NEW r \in Requests, OnControlStatus(r)
        PROVE  HistoryInv'
    <2>1. PICK c, patch : UpdateControl(r, c, patch)
      BY <1>7 DEF OnControlStatus
    <2> DEFINE q == Asked("load", "control", c, patch)
    <2>2. At(r, "idle") /\ Becomes(r, q) /\ q.pc = "load"
      BY <2>1 DEF UpdateControl, Asked, Idle
    <2> HIDE DEF q
    <2>3. Same(panel)
      BY <1>1 DEF Same
    <2>4. Sends(panel)
      BY <1>7 DEF OnControlStatus
    <2> QED
      BY <2>2, <2>3, <2>4, SendKeeps
  <1>8. ASSUME ToggleAck \/ OpenGap \/ BackToResults
        PROVE  HistoryInv'
    <2> DEFINE ack == ~panel.ack
    <2>1. PICK p : Stays(p) /\ p \in {[panel EXCEPT !.ack = ack],
                                      [panel EXCEPT !.view = "gap"],
                                      [panel EXCEPT !.view = "result"]}
      BY <1>8 DEF ToggleAck, OpenGap, BackToResults
    <2>2. ack \in BOOLEAN
      OBVIOUS
    <2> HIDE DEF ack
    <2>3. /\ Same([panel EXCEPT !.ack = ack])
          /\ Same([panel EXCEPT !.view = "gap"])
          /\ Same([panel EXCEPT !.view = "result"])
      BY <1>1, <2>2, PanelKeeps
    <2>4. Same(p)
      BY <2>1, <2>3
    <2>5. panel' = p /\ UNCHANGED <<stored, request, overlap, doubt>>
      BY <2>1 DEF Stays
    <2>6. Same(panel')
      BY <2>4, <2>5 DEF Same
    <2> QED
      BY <1>2, <2>5, <2>6
  <1>9. CASE UNCHANGED vars
    <2>1. UNCHANGED <<stored, request, overlap, doubt>> /\ Same(panel')
      BY <1>1, <1>9 DEF vars, Same
    <2> QED
      BY <1>2, <2>1
  <1> QED
    BY <1>3, <1>4, <1>5, <1>6, <1>7, <1>8, <1>9, AnswerHistory, ServeHistory,
       CrashHistory DEF Next

LEMMA HistoryInvariant == Spec => [](ApiInv /\ PanelInv /\ HistoryInv)
  <1>1. Init => HistoryInv
    <2> SUFFICES ASSUME Init PROVE HistoryInv
      OBVIOUS
    <2>1. (\A r \in Requests : request[r].pc = "idle") /\ panel.shown = Null
      BY IdleState DEF Init, ApiInit
    <2> QED
      BY <2>1 DEF HistoryInv, Alone, LoadedIsFresh, AnswerIsFresh,
                  ShownIsFresh, At
  <1>2. ApiInv /\ PanelInv /\ HistoryInv /\ [Next]_vars => HistoryInv'
    BY HistoryStep
  <1> QED
    BY <1>1, <1>2, PanelInvariant, PTL DEF Spec

\* A page whose user waits for each answer shows what the table holds
\* (assessment-panel.tsx:113, assessments.service.ts:77): its requests never
\* meet another, so the row that is read again is the one just written.
THEOREM PageIsCurrent == Spec => []ShownIsStored
  <1>1. HistoryInv => ShownIsStored
    BY DEF HistoryInv, ShownIsFresh, ShownIsStored
  <1> QED
    BY <1>1, HistoryInvariant, PTL

\* Only Save moves a request from "save" to "reread".
LEMMA SavedBySave ==
    ASSUME ApiInv, ClientNext, NEW r \in Requests, At(r, "save"),
           request'[r].pc = "reread"
    PROVE  Save(r)
  <1> DEFINE q == request[r]
  <1>1. request[r].pc = "save" /\ q \in QueryStates
    BY DEF At, ApiInv
  <1>2. ~Crash
    <2> SUFFICES ASSUME Crash PROVE FALSE
      OBVIOUS
    <2>1. request'[r] = Moved(q, "failed") /\ "failed" \in Pcs
      BY <1>1 DEF Crash, Moved, At, Pcs
    <2> QED
      BY <1>1, <2>1, MovedState
  <1>3. PICK s \in Requests :
            \/ \E i \in Assessments, a \in Answers :
                   Create(s, i, a) \/ Update(s, i, a)
            \/ \E i \in Assessments : Complete(s, i)
            \/ \E c \in Controls, p \in ControlChanges : UpdateControl(s, c, p)
            \/ List(s) \/ Serve(s) \/ QueryFails(s) \/ Hand(s)
    BY <1>2 DEF ClientNext
  <1>4. \A x \in Requests : x # s => request'[x] = request[x]
    BY <1>3 DEF Create, Update, Complete, UpdateControl, List, Serve, Insert,
                Load, Save, Reread, ReadLatest, QueryFails, Hand, Becomes,
                ApiInv
  <1>5. s = r
    BY <1>1, <1>4
  <1>6. ~QueryFails(r)
    <2> SUFFICES ASSUME QueryFails(r) PROVE FALSE
      OBVIOUS
    <2>1. request'[r] = Moved(q, "failed") /\ "failed" \in Pcs
      BY <1>1 DEF QueryFails, Becomes, Moved, ApiInv, Pcs
    <2> QED
      BY <1>1, <2>1, MovedState
  <1> QED
    BY <1>1, <1>3, <1>5, <1>6
       DEF Create, Update, Complete, UpdateControl, List, Serve, Insert, Load,
           Reread, ReadLatest, Hand, Answered, At

\* As long as requests do not overlap, each UPDATE of all the columns writes
\* its operation applied to the row as it stands, and none to an assessment
\* that is completed (assessments.service.ts:62, postgres.domain-store.ts:199).
THEOREM SavesExact == Spec => SerialSavesExact
  <1> DEFINE A == \A r \in Requests :
                      At(r, "save") /\ request'[r].pc = "reread" /\ ~overlap =>
                      LET q == request[r] IN
                      /\ q.id \in Assessments => stored[q.id].status = "draft"
                      /\ stored' = [stored EXCEPT ![q.id] =
                                        Effect(q.op, @, q.patch)]
  <1>1. ApiInv /\ PanelInv /\ HistoryInv /\ [Next]_vars => [A]_vars
    <2> SUFFICES ASSUME ApiInv, PanelInv, HistoryInv, [Next]_vars,
                        NEW r \in Requests, At(r, "save"),
                        request'[r].pc = "reread", ~overlap
                 PROVE  /\ request[r].id \in Assessments =>
                               stored[request[r].id].status = "draft"
                        /\ stored' = [stored EXCEPT ![request[r].id] =
                                          Effect(request[r].op, @,
                                                 request[r].patch)]
      OBVIOUS
    <2>1. ClientNext
      <3>1. request' # request
        BY DEF At
      <3> QED
        BY <3>1, PanelStep DEF apiVars
    <2>2. Save(r)
      BY <2>1, SavedBySave
    <2>3. /\ request[r].row = Effect(request[r].op, stored[request[r].id],
                                     request[r].patch)
          /\ request[r].id \in Assessments =>
                 stored[request[r].id].status = "draft"
      BY DEF HistoryInv, LoadedIsFresh
    <2>4. stored' = [stored EXCEPT ![request[r].id] = request[r].row]
      BY <2>2 DEF Save
    <2> QED
      BY <2>3, <2>4
  <1> HIDE DEF A
  <1>2. Spec => [][A]_vars
    BY <1>1, HistoryInvariant, PTL DEF Spec
  <1> QED
    BY <1>2 DEF SerialSavesExact, A
=============================================================================
