------------------------------ MODULE Reports -------------------------------
(***************************************************************************)
(* The report templates of lib/reportTemplates.ts, with the official       *)
(* figures of lib/findings.ts they are built on.  Every figure is an       *)
(* operator over the current tables; the actions are the changes of those  *)
(* tables the figures depend on, each reduced from its handler (the        *)
(* workflow's own modules have the handlers in full) to what a report can  *)
(* see: where a finding is filed and by whom, how far its review is, what  *)
(* stayed in which period, what was closed there and when, and what the    *)
(* administrators configured.                                              *)
(***************************************************************************)
EXTENDS PeriodResidency

CONSTANTS Findings, Districts, Categories, Sources,
          AuditSource,  \* the source coded IA
          Filters,      \* the source filters a template may be configured with
          RuleSources,  \* the sets of sources a rule is tried with
          LastPeriod,   \* periods are 1..LastPeriod in calendar order
          LastDay,      \* days are 1..LastDay; a finding may be dated ahead
          MaxCases      \* cases of one finding

VARIABLES districtActive,   \* [Districts -> BOOLEAN]; each has one active branch
          categoryActive,   \* [Categories -> BOOLEAN]
          rule,             \* the active scoring rule, or NoRule
          filter,           \* the template's configured sources
          record,           \* [Findings -> {NoRecord} or a finding with its ledgers]
          today

vars == <<districtActive, categoryActive, rule, filter, record, today>>

Periods == 1..LastPeriod
Days == 1..LastDay
NoRule == [live |-> FALSE]
NoRecord == [exists |-> FALSE]
Cases(n) == [cases |-> n]

Rule == [categories: SUBSET Categories \ {{}}, sources: RuleSources]
Stages == {"draft", "reviewing", "returned", "rejected", "official"}
ClosureRow == [period: Periods, qty: [cases: 1..MaxCases], day: Days]
MoveRow == [from: Periods, to: Periods, qty: [cases: 1..MaxCases]]

Registered == {f \in Findings : record[f] # NoRecord}

-----------------------------------------------------------------------------
(* What a report reads                                                     *)

Total(f) == record[f].total
Closed(f) == SumOfRows(record[f].closures, Periods, "cases")

\* Fault: a period is credited with every closure of the finding.
ClosedAnywhere(f, p) == Closed(f)

\* findingResidencyInPeriod, closedInPeriod
ResidentIn(f, p) == StaysIn(record[f].moves, record[f].home, record[f].total, p) # {}
Eligible(f, p) == EligibleIn(record[f].moves, record[f].home, record[f].total, p, "cases")
ClosedHere(f, p) == ClosedIn(record[f].closures, p, "cases")

\* Fault: closures count whenever they were made.
ClosedWhenever(f, day) == Closed(f)

\* closedAsOf(findingId, day), and with a period only the closures stamped with it
ClosedBy(f, day) ==
    LET rows == record[f].closures
    IN  SumOf([i \in DOMAIN rows |-> IF rows[i].day <= day THEN rows[i].qty.cases ELSE 0])

ClosedInBy(f, p, day) ==
    LET rows == record[f].closures
    IN  SumOf([i \in DOMAIN rows |-> IF rows[i].period = p /\ rows[i].day <= day THEN rows[i].qty.cases ELSE 0])

\* isHoApproved
Official == {f \in Registered : record[f].stage = "official"}

\* applySourceFilter: an empty list is no filter.
PassesFilter(f) == filter = {} \/ record[f].source \in filter

\* Fault: a deactivated district is left out.
ActiveDistricts == {d \in Districts : districtActive[d]}

\* Active districts and the deactivated ones that still have a finding, draft or not
ReportDistricts == {d \in Districts : districtActive[d] \/ \E f \in Registered : record[f].district = d}

ActiveCategories == {c \in Categories : categoryActive[c]}

OfDistrict(S, d) == {f \in S : record[f].district = d}
OfCategory(S, c) == {f \in S : record[f].category = c}

\* scopedTotals: one period's share of the findings of S, or their lifetime figures
AllPeriods == 0
ScopedTo(p, S) == IF p = AllPeriods THEN S ELSE {f \in S : ResidentIn(f, p)}

ScopedCases(p, S) ==
    SumFunction([f \in ScopedTo(p, S) |-> IF p = AllPeriods THEN Total(f).cases ELSE Eligible(f, p)])

ScopedClosed(p, S) ==
    SumFunction([f \in ScopedTo(p, S) |-> IF p = AllPeriods THEN Closed(f) ELSE ClosedHere(f, p)])

-----------------------------------------------------------------------------
(* The scored figures                                                      *)

MatchesRule(f) == rule # NoRule /\ record[f].category \in rule.categories /\ record[f].source \in rule.sources

\* computeEligibleCaseCounts: nothing (zero in every caller's sum) without a rule, and
\* nothing when no case is eligible, whatever was closed.
Nil == [cases |-> 0, closed |-> 0]
EligibleCounts(p, S) ==
    LET scored == {f \in S : MatchesRule(f) /\ f \in Official}
        cases == ScopedCases(p, scored)
    IN  IF cases = 0 THEN Nil ELSE [cases |-> cases, closed |-> ScopedClosed(p, scored)]

\* with a template's sourceIds
Counts(p, S) == EligibleCounts(p, {f \in S : PassesFilter(f)})

\* getMonthlyDistrictSeries.otherCases, summed across the periods by
\* sumDistrictRowsAcrossPeriods; getDistrictRankingOtherCases with chosen periods sums the same.
SumOverPeriods(P, d) ==
    [cases  |-> SumFunction([p \in P |-> Counts(p, OfDistrict(Registered, d)).cases]),
     closed |-> SumFunction([p \in P |-> Counts(p, OfDistrict(Registered, d)).closed])]

\* getDistrictRankingOtherCases without chosen periods
LifetimeRow(d) == Counts(AllPeriods, OfDistrict(Registered, d))

\* getMonthlyDistrictSeries.various: the lifetime of the district's scored findings that
\* came from the Internal Audit source, when the template lets that source in at all.
VariousRow(d) ==
    LET S == {f \in OfDistrict(Official, d) : MatchesRule(f) /\ PassesFilter(f) /\ record[f].source = AuditSource}
    IN  [cases |-> ScopedCases(AllPeriods, S), closed |-> ScopedClosed(AllPeriods, S)]

\* A district's block in the Monthly District Detail: its months and the various row
DetailBlock(d) ==
    LET months == SumOverPeriods(Periods, d)   various == VariousRow(d)
    IN  [cases |-> months.cases + various.cases, closed |-> months.closed + various.closed]

\* The page shows the chosen district, or all of them; the export is sent the choice as well
\* and always writes every district.
AllDistricts == "all"
BlocksTotal(D) ==
    [cases |-> SumFunction([d \in D |-> DetailBlock(d).cases]), closed |-> SumFunction([d \in D |-> DetailBlock(d).closed])]

TotalOnScreen(chosen) == BlocksTotal({d \in ReportDistricts : chosen \in {AllDistricts, d}})
TotalInExport(chosen) == BlocksTotal(ReportDistricts)

\* Fault: a closure of another period counts as well.
SnapshotRowOfAll(p, d, day) ==
    LET resident == {f \in OfDistrict(Official, d) :
                        record[f].date <= day /\ (rule = NoRule \/ MatchesRule(f)) /\ PassesFilter(f) /\ ResidentIn(f, p)}
    IN  [cases  |-> SumFunction([f \in resident |-> Eligible(f, p)]),
         closed |-> SumFunction([f \in resident |-> ClosedBy(f, day)])]

\* getDistrictSnapshotAsOf: without a rule every category and source is in.
SnapshotRow(p, d, day) ==
    LET candidates == {f \in OfDistrict(Official, d) :
                          record[f].date <= day /\ (rule = NoRule \/ MatchesRule(f)) /\ PassesFilter(f)}
        resident == {f \in candidates : ResidentIn(f, p)}
    IN  [cases  |-> SumFunction([f \in resident |-> Eligible(f, p)]),
         closed |-> SumFunction([f \in resident |-> ClosedInBy(f, p, day)])]

-----------------------------------------------------------------------------
(* The broader templates                                                   *)

\* getCategoryDetailByDistrict: one cell per listed district and active category
Cell(p, d, c) ==
    LET S == {f \in OfCategory(OfDistrict(Official, d), c) : PassesFilter(f)}
    IN  [cases |-> ScopedCases(p, S), closed |-> ScopedClosed(p, S)]

GridTotal(p) ==
    LET Row(d, k) == SumFunction([c \in ActiveCategories |-> Cell(p, d, c)[k]])
    IN  [cases  |-> SumFunction([d \in ReportDistricts |-> Row(d, "cases")]),
         closed |-> SumFunction([d \in ReportDistricts |-> Row(d, "closed")])]

\* getCategoryPerformanceSummary: bank-wide per active category, no districts in between
CategoryRow(p, c) ==
    LET S == {f \in OfCategory(Official, c) : PassesFilter(f)}
    IN  [cases |-> ScopedCases(p, S), closed |-> ScopedClosed(p, S)]

PerformanceTotal(p) ==
    [cases  |-> SumFunction([c \in ActiveCategories |-> CategoryRow(p, c).cases]),
     closed |-> SumFunction([c \in ActiveCategories |-> CategoryRow(p, c).closed])]

\* getDistrictRankingAllCases and the totals of getMonthlySummaryReport: every category,
\* active or not
AllCasesRow(p, d) ==
    LET S == {f \in OfDistrict(Official, d) : PassesFilter(f)}
    IN  [cases |-> ScopedCases(p, S), closed |-> ScopedClosed(p, S)]

AllCasesTotal(p) ==
    [cases  |-> SumFunction([d \in ReportDistricts |-> AllCasesRow(p, d).cases]),
     closed |-> SumFunction([d \in ReportDistricts |-> AllCasesRow(p, d).closed])]

\* getTransferredFindings: one row per hop, narrowed to its own periods; whether it is the
\* latest is decided over all hops of the finding.
Hops(from, to) ==
    {h \in UNION {{[finding |-> f, number |-> i] : i \in DOMAIN record[f].moves} : f \in {g \in Registered : PassesFilter(g)}} :
        LET move == record[h.finding].moves[h.number]
        IN  (from = AllPeriods \/ move.from = from) /\ (to = AllPeriods \/ move.to = to)}

LatestHop(h) == h.number = Len(record[h.finding].moves)

\* "Resolved before transfer": everything registered less what moved.
ResolvedBefore(h) == Total(h.finding).cases - record[h.finding].moves[h.number].qty.cases

\* The "Still Outstanding" card of the page
StillOutstanding(from, to) ==
    {h \in Hops(from, to) : LatestHop(h) /\ Closed(h.finding) < Total(h.finding).cases}

\* Fault: only the period a finding is in now counts as reported.
ReportedNow(f, p) == record[f].home = p

\* getUncoveredBranches: a branch reported in p when one of its own live findings, draft
\* or not, ever was in p; what was submitted on its behalf or imported does not count.
Reported(f, p) == ResidentIn(f, p)

Covers(f, p) ==
    /\ ~record[f].bankScope /\ ~record[f].imported
    /\ PassesFilter(f)
    /\ p = AllPeriods \/ Reported(f, p)

Covered(p) == {d \in Districts : \E f \in OfDistrict(Registered, d) : Covers(f, p)}

\* getMonthlySummaryReport: branches not dispatched, and dispatched
Dispatched(p, d) == IF d \in Covered(p) THEN 1 ELSE 0

\* Fault: the cutoff chooses the closures but not the findings.
AsOfClosures(c, d, day) ==
    LET S == {f \in OfCategory(OfDistrict(Official, d), c) : PassesFilter(f)}
    IN  [cases  |-> SumFunction([f \in S |-> IF record[f].date <= day THEN Total(f).cases ELSE 0]),
         closed |-> SumFunction([f \in S |-> ClosedBy(f, day)])]

\* getWeeklyExecutiveSummary.cumulativeAsOf
AsOf(c, d, day) ==
    LET S == {f \in OfCategory(OfDistrict(Official, d), c) : PassesFilter(f) /\ record[f].date <= day}
    IN  [cases  |-> SumFunction([f \in S |-> Total(f).cases]),
         closed |-> SumFunction([f \in S |-> ClosedBy(f, day)])]

\* buildRow: the balance carried from the last cutoff to this one
WeeklyRow(c, d, last, this) ==
    LET previous == AsOf(c, d, last)   current == AsOf(c, d, this)
        previousBalance == previous.cases - previous.closed
        currentBalance  == current.cases - current.closed
        additional      == current.cases - previous.cases
    IN  [previousBalance |-> previousBalance, additional |-> additional, currentBalance |-> currentBalance,
         rectified |-> previousBalance + additional - currentBalance]

-----------------------------------------------------------------------------
(* Changes of the tables                                                   *)

Init ==
    /\ districtActive = [d \in Districts |-> TRUE]
    /\ categoryActive = [c \in Categories |-> TRUE]
    /\ rule \in {NoRule} \cup Rule
    /\ filter \in Filters
    /\ record = [f \in Findings |-> NoRecord]
    /\ today = 1

\* A draft of an active district and category, in any period that takes it, dated any
\* day (the date is never compared with today); on whose behalf is not decided yet.
Draft(d, c, s, p, date, n) ==
    [district |-> d, category |-> c, source |-> s, date |-> date, home |-> p, total |-> Cases(n),
     moves |-> <<>>, closures |-> <<>>, stage |-> "draft", bankScope |-> FALSE,
     imported |-> FALSE, rewound |-> FALSE]

\* submitFinding: whose session submits decides again on whose behalf it is; what Head
\* Office submits needs no review where its approval is not required.
Submissions(r) ==
    {[r EXCEPT !.stage = "reviewing", !.bankScope = bank] : bank \in BOOLEAN}
        \cup {[r EXCEPT !.stage = "official", !.bankScope = TRUE]}

\* Saved as a draft or submitted at once
Register(f, d, c, s, p, date, n) ==
    /\ f \notin Registered
    /\ districtActive[d] /\ categoryActive[c]
    /\ LET draft == Draft(d, c, s, p, date, n)
       IN  \E r \in {draft} \cup Submissions(draft) : record' = [record EXCEPT ![f] = r]
    /\ UNCHANGED <<districtActive, categoryActive, rule, filter, today>>

EditableStages == {"draft", "returned"}

\* A draft or a returned finding is filed anew: another district or category must be
\* active, the one it has need not be.
Edit(f, d, c, s, p, date, n) ==
    /\ f \in Registered /\ record[f].stage \in EditableStages
    /\ d = record[f].district \/ districtActive[d]
    /\ c = record[f].category \/ categoryActive[c]
    /\ record' = [record EXCEPT ![f] = [@ EXCEPT !.district = d, !.category = c, !.source = s,
                                         !.date = date, !.home = p, !.total = Cases(n)]]
    /\ UNCHANGED <<districtActive, categoryActive, rule, filter, today>>

Submit(f) ==
    /\ f \in Registered /\ record[f].stage \in EditableStages
    /\ \E r \in Submissions(record[f]) : record' = [record EXCEPT ![f] = r]
    /\ UNCHANGED <<districtActive, categoryActive, rule, filter, today>>

\* The reviews end in its approval, its return or its rejection.
Review(f, to) ==
    /\ f \in Registered /\ record[f].stage = "reviewing"
    /\ record' = [record EXCEPT ![f] = [@ EXCEPT !.stage = to]]
    /\ UNCHANGED <<districtActive, categoryActive, rule, filter, today>>

\* Only a draft or a rejected finding can be deleted.
Delete(f) ==
    /\ f \in Registered /\ record[f].stage \in {"draft", "rejected"}
    /\ record' = [record EXCEPT ![f] = NoRecord]
    /\ UNCHANGED <<districtActive, categoryActive, rule, filter, today>>

\* A row of an import: dated no later than today, official at once, with `done` of its
\* cases closed today - all of them, or, when it moved on to period q, fewer.
Import(f, d, c, s, p, date, n, done, q) ==
    /\ f \notin Registered
    /\ districtActive[d] /\ categoryActive[c] /\ date <= today
    /\ \/ q = p /\ done \in {0, n}
       \/ q > p /\ done < n
    /\ record' = [record EXCEPT ![f] =
          [district |-> d, category |-> c, source |-> s, date |-> date, home |-> q, total |-> Cases(n),
           moves |-> IF q = p THEN <<>> ELSE <<[from |-> p, to |-> q, qty |-> Cases(n - done)]>>,
           closures |-> IF done = 0 THEN <<>> ELSE <<[period |-> p, qty |-> Cases(done), day |-> today]>>,
           stage |-> "official", bankScope |-> FALSE, imported |-> TRUE, rewound |-> FALSE]]
    /\ UNCHANGED <<districtActive, categoryActive, rule, filter, today>>

\* reverseImportBatch: the findings S of an import go, whatever has become of them.
ReverseImport(S) ==
    /\ S # {} /\ S \subseteq Registered /\ \A f \in S : record[f].imported
    /\ record' = [f \in Findings |-> IF f \in S THEN NoRecord ELSE record[f]]
    /\ UNCHANGED <<districtActive, categoryActive, rule, filter, today>>

\* A closure row is stamped with the finding's current period and today's date.
Close(f, n) ==
    /\ f \in Official
    /\ n <= Total(f).cases - Closed(f)
    /\ record' = [record EXCEPT ![f] = [@ EXCEPT !.closures =
          Append(record[f].closures, [period |-> record[f].home, qty |-> Cases(n), day |-> today])]]
    /\ UNCHANGED <<districtActive, categoryActive, rule, filter, today>>

\* Everything that is not closed moves on to a later period.
Transfer(f, q) ==
    /\ f \in Official
    /\ q > record[f].home
    /\ Closed(f) < Total(f).cases
    /\ record' = [record EXCEPT ![f] = [@ EXCEPT !.home = q, !.moves =
          Append(record[f].moves, [from |-> record[f].home, to |-> q, qty |-> Cases(Total(f).cases - Closed(f))])]]
    /\ UNCHANGED <<districtActive, categoryActive, rule, filter, today>>

\* Reopening removes the closures and keeps the transfers, which from then on lead away
\* with less than arrived though nothing was closed in between: the finding is rewound,
\* as the REOPEN of its trail tells.
Reopen(f) ==
    /\ f \in Official /\ Closed(f) > 0
    /\ record' = [record EXCEPT ![f] = [@ EXCEPT !.closures = <<>>, !.rewound = record[f].rewound \/ record[f].moves # <<>>]]
    /\ UNCHANGED <<districtActive, categoryActive, rule, filter, today>>

ToggleDistrict(d) ==
    /\ districtActive' = [districtActive EXCEPT ![d] = ~@]
    /\ UNCHANGED <<categoryActive, rule, filter, record, today>>

ToggleCategory(c) ==
    /\ categoryActive' = [categoryActive EXCEPT ![c] = ~@]
    /\ UNCHANGED <<districtActive, rule, filter, record, today>>

SetRule(to) ==
    /\ rule' = to
    /\ UNCHANGED <<districtActive, categoryActive, filter, record, today>>

NextDay ==
    /\ today < LastDay
    /\ today' = today + 1
    /\ UNCHANGED <<districtActive, categoryActive, rule, filter, record>>

Next ==
    \/ \E f \in Findings, d \in Districts, c \in Categories, s \in Sources, p \in Periods,
          date \in Days, n \in 1..MaxCases :
          \/ Register(f, d, c, s, p, date, n)
          \/ Edit(f, d, c, s, p, date, n)
          \/ \E done \in 0..n, q \in Periods : Import(f, d, c, s, p, date, n, done, q)
    \/ \E f \in Findings : Submit(f) \/ Delete(f) \/ Reopen(f)
    \/ \E f \in Findings, to \in {"official", "returned", "rejected"} : Review(f, to)
    \/ \E S \in SUBSET Findings : ReverseImport(S)
    \/ \E f \in Findings, n \in 1..MaxCases : Close(f, n)
    \/ \E f \in Findings, q \in Periods : Transfer(f, q)
    \/ \E d \in Districts : ToggleDistrict(d)
    \/ \E c \in Categories : ToggleCategory(c)
    \/ \E to \in {NoRule} \cup Rule : SetRule(to)
    \/ NextDay

Spec == Init /\ [][Next]_vars

-----------------------------------------------------------------------------
(* Properties                                                              *)

\* The tables keep their shape and a finding's transfers never lead out of the calendar.
TypeOK ==
    /\ districtActive \in [Districts -> BOOLEAN] /\ categoryActive \in [Categories -> BOOLEAN]
    /\ rule \in {NoRule} \cup Rule /\ filter \in SUBSET Sources /\ today \in Days
    /\ \A f \in Registered :
          /\ record[f].home \in Periods /\ record[f].total.cases \in 1..MaxCases
          /\ record[f].stage \in Stages
          /\ \A i \in DOMAIN record[f].moves : record[f].moves[i] \in MoveRow
          /\ \A i \in DOMAIN record[f].closures : record[f].closures[i] \in ClosureRow

\* No report loses a district: whatever is deactivated, the rows of the listed districts
\* add up to the bank's figures, both for the category grid (active categories) and for
\* the all-cases ranking.  reportTemplates.ts: "deactivating a district must not make its
\* findings vanish from the bank's totals".
DistrictRowsCoverBank ==
    LET bank == {f \in Official : PassesFilter(f)}
    IN  \A p \in {AllPeriods} \cup Periods :
            /\ GridTotal(p) = PerformanceTotal(p)
            /\ AllCasesTotal(p) = [cases |-> ScopedCases(p, bank), closed |-> ScopedClosed(p, bank)]

\* No finding of S was reopened after a transfer: what each period of it is answerable for
\* is still what arrived there less what was carried on.
NeverRewound(S) == \A f \in S : ~record[f].rewound

\* A transferred finding is counted once: unless a finding of the district was rewound, its
\* monthly rows, added up over all periods, are its lifetime row, in cases and in closed
\* cases, although a month with nothing eligible is dropped from the sum whatever was
\* closed in it.
HistoryAddsUp ==
    \A d \in Districts : NeverRewound(OfDistrict(Registered, d)) => SumOverPeriods(Periods, d) = LifetimeRow(d)

\* No percentage exceeds 100: the lifetime never shows more cases closed than there are, nor
\* does a period while no finding of the district was rewound.
NoPercentageAbove100 ==
    \A p \in {AllPeriods} \cup Periods, d \in Districts :
        p = AllPeriods \/ NeverRewound(OfDistrict(Registered, d)) =>
            LET row == Counts(p, OfDistrict(Registered, d)) IN row.closed <= row.cases

\* The snapshot of today is the official figure of the period once a rule is active, except
\* for the findings dated after today, which it leaves out.
SnapshotMatchesOfficial ==
    rule # NoRule =>
        \A p \in Periods, d \in Districts :
            LET dated == {f \in OfDistrict(Registered, d) : record[f].date <= today}
                official == Counts(p, dated)
                snapshot == SnapshotRow(p, d, today)
            IN  snapshot = official \/ (official = Nil /\ snapshot.cases = 0)

\* Between two cutoffs the balance sheet of a week never shows a negative balance or a
\* negative number of rectified cases.
WeekBalances ==
    \A c \in Categories, d \in Districts, last \in Days, this \in Days :
        last <= this =>
            LET row == WeeklyRow(c, d, last, this)
            IN  row.previousBalance >= 0 /\ row.currentBalance >= 0 /\ row.rectified >= 0 /\ row.additional >= 0

\* Work done today does not rewrite last week: closing and transferring leave every
\* figure as of an earlier day as it was.  Only a reopening takes closures back, and it
\* leaves the cases as they were.
PastStandsStill ==
    [][(\E f \in Official : record'[f] # NoRecord
            /\ <<record'[f].closures, record'[f].moves>> # <<record[f].closures, record[f].moves>>)
        => \A c \in Categories, d \in Districts : \A day \in 1..(today - 1) :
              /\ AsOf(c, d, day)'.cases = AsOf(c, d, day).cases
              /\ \/ AsOf(c, d, day)'.closed = AsOf(c, d, day).closed
                 \/ \E f \in Official : record[f].closures # <<>> /\ record'[f].closures = <<>>]_vars

\* f is filed elsewhere than it was.
Refiled(f) ==
    LET was == record[f]   is == record'[f]
    IN  <<was.district, was.source, was.home>> # <<is.district, is.source, is.home>>

\* A finding that covers its branch in a period goes on covering it, through closures,
\* transfers, reopenings and reviews; once official it does so for good.  Before, only its
\* deletion, an edit or its submission on the branch's behalf uncovers.
CoverageStands ==
    [][\A p \in Periods, f \in Registered :
        Covers(f, p) =>
            \/ record'[f] # NoRecord /\ Covers(f, p)' /\ record'[f].district = record[f].district
            \/ /\ record[f].stage \in EditableStages \cup {"rejected"}
               /\ record'[f] = NoRecord \/ Refiled(f) \/ record'[f].bankScope]_vars

\* app/api/report-templates/[slug]/export/route.ts: the export mirrors "exactly how the
\* on-screen table (monthly-district-detail/page.tsx) renders the same series, so CSV and
\* screen never diverge".  They do once a district is chosen.
ExportMatchesScreen ==
    \A chosen \in Districts \cup {AllDistricts} : TotalInExport(chosen) = TotalOnScreen(chosen)

\* reportTemplates.ts: what was resolved before a hop is "the portion rectified in the
\* origin period, never carried forward".  From the second hop on it also counts what
\* earlier periods resolved.
ResolvedWhereItSays ==
    \A h \in Hops(AllPeriods, AllPeriods) :
        ResolvedBefore(h) = Kept(record[h.finding].moves, record[h.finding].home, record[h.finding].total, h.number, "cases")

\* Each case counts once in the Monthly District Detail: its blocks add up to the district's
\* lifetime.  They do not when the rule scores the Internal Audit source too.
DetailCountsOnce == \A d \in Districts : DetailBlock(d) = LifetimeRow(d)
=============================================================================
