-------------------------- MODULE AssessmentScoring --------------------------
(***************************************************************************)
(* What the answers of an assessment are worth                             *)
(* (apps/api/src/assessments/assessment-scoring.ts): whether the           *)
(* organisation is in the scope of NIS2, how mature each domain is, and    *)
(* which gaps to close first.  Pure operators, no state.                   *)
(***************************************************************************)
EXTENDS Integers, Sequences

CONSTANT Null   \* an answer that was not given

DOMAINS == {"gouvernance", "risques", "continuite", "incidents",
            "supply_chain", "formation"}

ScopeStatuses == {"in_scope", "out_of_scope", "unclear"}

\* "" is a sector that was erased; a maturity is any number the client sends.
Answers == [sector: {"", "industrie", Null},
            headcountBand: {"lt50", "50_249", "250_plus", Null},
            digitalActivities: BOOLEAN \cup {Null},
            criticalDependencies: BOOLEAN \cup {Null},
            domainMaturity: [DOMAINS -> Int \cup {Null}] \cup {Null}]

NoAnswers == [sector |-> Null, headcountBand |-> Null,
              digitalActivities |-> Null, criticalDependencies |-> Null,
              domainMaturity |-> Null]

computeScope(answers) ==
    LET nothingSaid == /\ answers.sector \in {"", Null}
                       /\ answers.headcountBand = Null
                       /\ answers.digitalActivities = Null
        sizable == answers.headcountBand \in {"50_249", "250_plus"}
        digital == \/ answers.digitalActivities = TRUE
                   \/ answers.criticalDependencies = TRUE
    IN
    IF ~nothingSaid /\ sizable /\ digital THEN "in_scope"
    ELSE IF ~nothingSaid /\ answers.headcountBand = "lt50"
            /\ answers.digitalActivities = FALSE
    THEN "out_of_scope"
    ELSE "unclear"

Clamp(v) == IF v < 0 THEN 0 ELSE IF v > 100 THEN 100 ELSE v

computeDomainScores(answers) ==
    [d \in DOMAINS |->
        IF answers.domainMaturity = Null THEN 50
        ELSE IF answers.domainMaturity[d] = Null THEN 50
        ELSE Clamp(answers.domainMaturity[d])]

\* The mean, rounded to the nearest integer, half up as Math.round does.
computeMaturity(scores) ==
    LET sum == scores["gouvernance"] + scores["risques"] + scores["continuite"]
               + scores["incidents"] + scores["supply_chain"]
               + scores["formation"]
    IN (2 * sum + 6) \div 12

Gap(domain, threshold, impact, effort) ==
    [domain |-> domain, threshold |-> threshold, priority |-> impact * effort]

GapCatalog ==
    <<Gap("risques", 70, 3, 2), Gap("continuite", 65, 3, 3),
      Gap("supply_chain", 70, 3, 2), Gap("formation", 75, 2, 1),
      Gap("incidents", 70, 3, 2), Gap("gouvernance", 60, 2, 2)>>

severityFromPriority(p) ==
    IF p >= 6 THEN "eleve" ELSE IF p >= 4 THEN "moyen" ELSE "faible"

\* The positions in the catalogue of the gaps that are found.
GapsFound(scores) ==
    {n \in 1 .. 6 : scores[GapCatalog[n].domain] < GapCatalog[n].threshold}

InOrder(positions) ==
    LET Listed(n) == IF n \in positions THEN <<n>> ELSE <<>>
    IN Listed(1) \o Listed(2) \o Listed(3)
       \o Listed(4) \o Listed(5) \o Listed(6)

\* Fault: the gaps are left in the order of the catalogue.
CatalogOrder(found) == InOrder(found)

\* A stable sort by descending priority: the catalogue has these four.
SortedGaps(found) ==
    LET OfPriority(p) == InOrder({n \in found : GapCatalog[n].priority = p})
    IN OfPriority(9) \o OfPriority(6) \o OfPriority(4) \o OfPriority(2)

computeGaps(scores) ==
    LET sorted == SortedGaps(GapsFound(scores))
        Described(gap) == [domain |-> gap.domain, priority |-> gap.priority,
                           severity |-> severityFromPriority(gap.priority)]
    IN [n \in 1 .. Len(sorted) |-> Described(GapCatalog[sorted[n]])]

Severities == {"eleve", "moyen", "faible"}

Results == [scopeStatus: ScopeStatuses, domainScores: [DOMAINS -> 0 .. 100],
            maturityScore: 0 .. 100,
            gaps: Seq([domain: DOMAINS, priority: 1 .. 9,
                       severity: Severities])]

\* The fields that complete() computes from the answers.
ResultOf(answers) ==
    LET scores == computeDomainScores(answers)
    IN [scopeStatus |-> computeScope(answers),
        domainScores |-> scores,
        maturityScore |-> computeMaturity(scores),
        gaps |-> computeGaps(scores)]

=============================================================================
