---------------------------- MODULE ReportPages -----------------------------
(***************************************************************************)
(* The pages that show the reports' figures - the report templates with    *)
(* their TOTAL rows and the performance tables of the dashboards - and     *)
(* where two of them must show the same number.  A period picker is set to *)
(* a period or to AllPeriods; the rankings' checkboxes choose a set of     *)
(* periods, the empty set standing for the whole lifetime.                 *)
(***************************************************************************)
EXTENDS Reports

\* The TOTAL row under rows of cases and closed cases
TotalRow(line) ==
    [cases  |-> SumFunction([x \in DOMAIN line |-> line[x].cases]),
     closed |-> SumFunction([x \in DOMAIN line |-> line[x].closed])]

\* What a period picker offers
Pickable == {AllPeriods} \cup Periods

Scored(p, d) == Counts(p, OfDistrict(Registered, d))

-----------------------------------------------------------------------------
(* Report templates                                                        *)

CategoryDetailPage(p) == GridTotal(p)

CategoryPerformancePage(p) == PerformanceTotal(p)

\* Total cases are of every category; Unrect./Rect. are of the scored ones.
MonthlySummaryPage(p) ==
    [cases |-> AllCasesTotal(p).cases,
     scored |-> TotalRow([d \in ReportDistricts |-> Scored(p, d)]),
     dispatched |-> Cardinality({d \in ActiveDistricts : Dispatched(p, d) = 1}),
     notDispatched |-> Cardinality({d \in ActiveDistricts : Dispatched(p, d) = 0})]

DistrictHistoryPage(p) ==
    TotalRow([d \in ReportDistricts |-> SumOverPeriods(IF p = AllPeriods THEN Periods ELSE {p}, d)])

RankingOtherCasesPage(P) ==
    TotalRow([d \in ReportDistricts |-> IF P = {} THEN LifetimeRow(d) ELSE SumOverPeriods(P, d)])

RankingAllCasesPage(P) ==
    IF P = {} THEN AllCasesTotal(AllPeriods) ELSE TotalRow([p \in P |-> AllCasesTotal(p)])

SnapshotPage(p, day) == TotalRow([d \in ReportDistricts |-> SnapshotRow(p, d, day)])

\* One section of the Weekly Executive Summary; its total is taken column by column.
WeeklyPage(c, last, this) ==
    LET rows == [d \in ReportDistricts |-> WeeklyRow(c, d, last, this)]
    IN  [k \in {"previousBalance", "additional", "rectified", "currentBalance"} |->
            SumFunction([d \in ReportDistricts |-> rows[d][k]])]

TransferredPage(from, to) ==
    [hops |-> Cardinality(Hops(from, to)),
     cases |-> SumFunction([h \in Hops(from, to) |-> record[h.finding].moves[h.number].qty.cases]),
     stillOutstanding |-> Cardinality(StillOutstanding(from, to))]

UncoveredBranchesPage(p) == {d \in ActiveDistricts : d \notin Covered(p)}

-----------------------------------------------------------------------------
(* Performance tables of the dashboards, which no template filter narrows  *)

\* BranchPerformanceTable, with one branch in each district, active or not: the row, and
\* whether the performance, a fraction that needs an eligible case, has improved since
\* the period before.
PerformanceTable(p) ==
    [d \in Districts |->
        LET now == EligibleCounts(p, OfDistrict(Registered, d))
            before == IF p - 1 \in Periods THEN EligibleCounts(p - 1, OfDistrict(Registered, d)) ELSE Nil
        IN  [row |-> now,
             improved |-> now.cases > 0 /\ before.cases > 0 /\ now.closed * before.cases > before.closed * now.cases]]

\* CaseBasedPerformance
CaseBars(p, S) ==
    LET counts == EligibleCounts(p, S)
    IN  [eligible |-> counts.cases, rectified |-> counts.closed, outstanding |-> counts.cases - counts.closed]

\* SourcePerformanceSummary: "Combined" adds the sources' rows up.
CombinedSources(p, S) ==
    TotalRow([s \in Sources |-> EligibleCounts(p, {f \in S : record[f].source = s})])

\* MonthlyTrend: one point per period
TrendLine(S) == [p \in Periods |-> EligibleCounts(p, S)]

-----------------------------------------------------------------------------
(* Properties                                                              *)

\* Pages that answer the same question show the same total, although each adds up its
\* own rows: the monthly summary and the history of that month, the ranking of all cases
\* with every period ticked or none, a week's balances; and while no finding was rewound
\* also the history over all periods and the ranking, and no part exceeds its whole.
TemplatesAgree ==
    /\ RankingAllCasesPage(Periods) = RankingAllCasesPage({})
    /\ \A p \in Pickable :
          LET summary == MonthlySummaryPage(p)
          IN  /\ summary.notDispatched = Cardinality(UncoveredBranchesPage(p))
              /\ p # AllPeriods \/ NeverRewound(Registered) => summary.scored = DistrictHistoryPage(p)
              /\ NeverRewound(Registered) =>
                    /\ CategoryDetailPage(p).cases <= summary.cases
                    /\ p # AllPeriods /\ rule # NoRule => SnapshotPage(p, today).cases <= summary.scored.cases
    /\ NeverRewound(Registered) =>
          LET lifetime == RankingOtherCasesPage({})
          IN  DistrictHistoryPage(AllPeriods) = lifetime /\ RankingOtherCasesPage(Periods) = lifetime
    /\ \A c \in Categories : LET week == WeeklyPage(c, 1, today)
                             IN  week.previousBalance + week.additional - week.rectified = week.currentBalance

\* The dashboards' tables tell one story: the rows of the units and those of the sources
\* add up to the official count, the trend adds up to the lifetime, and no outstanding
\* bar is negative - while no finding was rewound.
DashboardsAgree ==
    LET official == [p \in Pickable |-> EligibleCounts(p, Registered)]
    IN  NeverRewound(Registered) =>
          /\ \A p \in Pickable :
                LET table == PerformanceTable(p)
                IN  /\ TotalRow([d \in Districts |-> table[d].row]) = official[p]
                    /\ CombinedSources(p, Registered) = official[p]
                    /\ CaseBars(p, Registered).outstanding >= 0
          /\ TotalRow(TrendLine(Registered)) = official[AllPeriods]

\* A hop's cases, as the register of transfers shows them, were in the period it left:
\* what left a period plus what stayed there arrived there.
RegisterAddsUp ==
    \A p \in Periods :
        TransferredPage(p, AllPeriods).cases
            <= SumFunction([f \in {g \in Registered : ResidentIn(g, p)} |-> Total(f).cases])

PagesAgree == TemplatesAgree /\ DashboardsAgree /\ RegisterAddsUp
=============================================================================
