-------------------------- MODULE FindingDashboards --------------------------
(***************************************************************************)
(* The dashboards: the headline figures of the findings in a viewer's unit *)
(* (S below, already narrowed by the other filters) for one reporting      *)
(* period or for all of them, and the cards that count what waits for the  *)
(* viewer's own action, whatever the period.                               *)
(***************************************************************************)
EXTENDS FindingViews

AllPeriods == "all periods"

\* The filter's value for all periods is not the id of one.
ASSUME PeriodNames == AllPeriods \notin Periods

-----------------------------------------------------------------------------
(* Figures of one period and of the whole lifetime                         *)

\* isHoApproved: the statuses of HO_APPROVED_OR_LATER_STATUSES
ApprovedOrLater == {"SENT_TO_BRANCH_MANAGER", "PARTIALLY_RECTIFIED", "RECTIFIED",
                    "RECTIFICATION_RETURNED", "TRANSFERRED", "CLOSED"}

Approved(S) == {f \in S : finding[f].status \in ApprovedOrLater}

\* findingsResidentInPeriod, of the approved findings
Resident(S, p) ==
    {f \in Approved(S) : StaysIn(transfers[f], finding[f].period, finding[f].total, p) # {}}

\* findingCaseTotals
Totalled(S) ==
    [findings |-> Cardinality(Approved(S)),
     cases |-> SumFunction([f \in Approved(S) |-> finding[f].total["cases"]]),
     closedFindings |-> Cardinality({f \in Approved(S) : finding[f].status = "CLOSED"}),
     closedCases |-> SumFunction([f \in Approved(S) |-> finding[f].closed["cases"]])]

\* Fault: a finding closed elsewhere counts in every period it went through.
TotalledWherever(S, p) ==
    [findings |-> Cardinality(Resident(S, p)),
     cases |-> SumFunction([f \in Resident(S, p) |-> Eligible(f, p, "cases")]),
     closedFindings |-> Cardinality({f \in Resident(S, p) : finding[f].status = "CLOSED"}),
     closedCases |-> SumFunction([f \in Resident(S, p) |-> ClosedIn(closures[f], p, "cases")])]

\* findingCaseTotalsInPeriod
TotalledIn(S, p) ==
    [findings |-> Cardinality(Resident(S, p)),
     cases |-> SumFunction([f \in Resident(S, p) |-> Eligible(f, p, "cases")]),
     closedFindings |->
         Cardinality({f \in Resident(S, p) :
            /\ StillIn(transfers[f], finding[f].period, finding[f].total, p)
            /\ finding[f].status = "CLOSED"}),
     closedCases |-> SumFunction([f \in Resident(S, p) |-> ClosedIn(closures[f], p, "cases")])]

\* sumAmountByCurrency, sumOutstandingByCurrency
Money(S) ==
    [total |-> SumFunction([f \in Approved(S) |-> finding[f].total["amount"]]),
     resolved |-> SumFunction([f \in Approved(S) |-> finding[f].closed["amount"]]),
     outstanding |-> SumFunction([f \in Approved(S) |-> Outstanding(f)["amount"]])]

\* sumAmountByCurrencyInPeriod, sumOutstandingByCurrencyInPeriod
MoneyIn(S, p) ==
    LET eligible == SumFunction([f \in Resident(S, p) |-> Eligible(f, p, "amount")])
        closed == SumFunction([f \in Resident(S, p) |-> ClosedIn(closures[f], p, "amount")])
    IN  [total |-> eligible, resolved |-> closed, outstanding |-> eligible - closed]

\* transferTotals, of the transfers of S out of the period
TransferTotals(S, p) ==
    LET hops == UNION {{[finding |-> f, row |-> i] : i \in DOMAIN transfers[f]} : f \in S}
        out == {h \in hops : p \in {AllPeriods, transfers[h.finding][h.row].from}}
    IN  [transferred |-> Cardinality({h.finding : h \in out}),
         transferredCases |-> SumFunction([h \in out |-> transfers[h.finding][h.row].qty["cases"]])]

\* The cards every dashboard begins with
Headline(S, p) ==
    LET counts == IF p = AllPeriods THEN Totalled(S) ELSE TotalledIn(S, p)
        money == IF p = AllPeriods THEN Money(S) ELSE MoneyIn(S, p)
        moved == TransferTotals(S, p)
    IN  [findings |-> counts.findings, cases |-> counts.cases,
         closedFindings |-> counts.closedFindings, closedCases |-> counts.closedCases,
         total |-> money.total, resolved |-> money.resolved, outstanding |-> money.outstanding,
         transferred |-> moved.transferred, transferredCases |-> moved.transferredCases]

\* periodFindings: by the period a finding is in now
FiledIn(S, p) == IF p = AllPeriods THEN S ELSE {f \in S : finding[f].period = p}

\* The "Outstanding" card
OutstandingFindings(S, p) ==
    {f \in Approved(FiledIn(S, p)) : finding[f].status \notin {"RECTIFIED", "CLOSED", "REJECTED"}}

\* A row of Category Totals or of the Source Comparison, for the findings of
\* one category or source
BreakdownRow(S, p) ==
    LET rows == Approved(FiledIn(S, p))
    IN  [total |-> SumFunction([f \in rows |-> finding[f].total["cases"]]),
         rectified |-> SumFunction([f \in rows |-> finding[f].closed["cases"]]),
         amount |-> SumFunction([f \in rows |-> finding[f].total["amount"]]),
         rectifiedAmount |-> SumFunction([f \in rows |-> finding[f].closed["amount"]])]

\* STAGE_BUCKETS of the status chart; it leaves out PENDING_BANK_APPROVAL.
StageBuckets ==
    {{"DRAFT", "DISTRICT_REVIEW", "HO_REVIEW"},
     {"SENT_TO_BRANCH_MANAGER", "PARTIALLY_RECTIFIED", "RECTIFICATION_RETURNED"},
     {"RECTIFIED"}, {"TRANSFERRED"}, {"CLOSED"}, {"RETURNED"}, {"REJECTED"}}

-----------------------------------------------------------------------------
(* The cards of what waits for the viewer u                                *)

Own(u) == {f \in Present : finding[f].creator = u}

OwnDrafts(u) == {f \in Own(u) : finding[f].status = "DRAFT"}

OwnPending(u) == {f \in Own(u) : finding[f].status \in Stages}

\* Branch: pendingRectificationFindings
PendingRectification(S) == {f \in S : finding[f].status \in BranchWork}

\* District: requiringReviewFindings
RequiringReview(S, p) == {f \in FiledIn(S, p) : finding[f].status = "DISTRICT_REVIEW"}

\* Fault: what was sent back to the branch still counts.
PendingVerifyOfAll(S) ==
    {f \in S : finding[f].status # "CLOSED" /\ \E d \in Dim : Verifiable(f)[d] > 0}

\* District: pendingVerifyFindings
PendingVerify(S) ==
    {f \in S : /\ finding[f].status \notin {"RECTIFICATION_RETURNED", "CLOSED"}
               /\ \E d \in Dim : Verifiable(f)[d] > 0}

\* Head office: pendingApprovalFindings
PendingApproval(u) ==
    {f \in Present : \/ finding[f].status = "HO_REVIEW"
                     \/ finding[f].status = "PENDING_BANK_APPROVAL" /\ u \in Approvers}

\* Head office: pendingCloseFindings
PendingClose ==
    {f \in Present : finding[f].status # "CLOSED" /\ \E d \in Dim : Closable(f)[d] > 0}

-----------------------------------------------------------------------------
(* The four dashboards; S is the viewer's unit.                            *)

HODashboard(u, S, p) ==
    [headline |-> Headline(S, p),
     outstandingFindings |-> OutstandingFindings(S, p), breakdown |-> BreakdownRow(S, p),
     ownDrafts |-> OwnDrafts(u), ownPending |-> OwnPending(u),
     pendingApproval |-> PendingApproval(u), pendingClose |-> PendingClose]

DistrictDashboard(u, S, p) ==
    [headline |-> Headline(S, p),
     outstandingFindings |-> OutstandingFindings(S, p), breakdown |-> BreakdownRow(S, p),
     requiringReview |-> RequiringReview(S, p),
     rejected |-> {f \in FiledIn(S, p) : finding[f].status = "REJECTED"},
     returned |-> {f \in FiledIn(S, p) : finding[f].status = "RETURNED"},
     pendingVerify |-> PendingVerify(S), workQueue |-> {f \in S : Queued(u, f)}]

BranchDashboard(u, S, p) ==
    [headline |-> Headline(S, p),
     outstandingFindings |-> OutstandingFindings(S, p), breakdown |-> BreakdownRow(S, p),
     ownDrafts |-> OwnDrafts(u), ownPending |-> OwnPending(u),
     pendingRectification |-> PendingRectification(S), workQueue |-> {f \in S : Queued(u, f)}]

\* Its backlog is of all periods and, for the average age, not only of approved findings.
ExecutiveDashboard(u, S, p) ==
    [headline |-> Headline(S, p),
     outstandingFindings |-> OutstandingFindings(S, AllPeriods), breakdown |-> BreakdownRow(S, p)]

-----------------------------------------------------------------------------
(* Properties                                                              *)

\* The two ways of counting agree: over all the periods the cases, the money,
\* what was closed of both, the closed findings and the transferred cases add up
\* to the lifetime figures, so a finding that moved is neither lost nor counted
\* twice.
PeriodsAddUp(shown, lifetime) ==
    \A k \in {"cases", "closedFindings", "closedCases", "total", "resolved", "transferredCases"} :
        SumFunction([p \in Periods |-> shown[p].headline[k]]) = lifetime.headline[k]

\* Without a period the breakdowns below the headline show the same totals, and
\* the outstanding findings are those not closed as a whole: each of the others
\* has been rectified completely.
BreakdownsMatch(S, lifetime) ==
    /\ lifetime.breakdown =
          [total |-> lifetime.headline.cases, rectified |-> lifetime.headline.closedCases,
           amount |-> lifetime.headline.total, rectifiedAmount |-> lifetime.headline.resolved]
    /\ \A f \in Approved(S) :
          IF f \in lifetime.outstandingFindings THEN ~Covers(finding[f].closed, f)
          ELSE Covers(finding[f].rectified, f)

\* dashboard/page.tsx: which dashboards a user may be shown
ShownTo(u) ==
    IF u \in BankUsers THEN {"head office", "executive"}
    ELSE IF "rectify" \in Grants[u] THEN {"branch"} ELSE {"district"}

\* One dashboard: shown is what it shows of each period, lifetime without one.
Consistent(S, shown, lifetime) == PeriodsAddUp(shown, lifetime) /\ BreakdownsMatch(S, lifetime)

\* On each of the four dashboards the figures add up, over the periods and
\* from the headline to what is below it.
TotalsAddUp ==
    \A u \in Users :
        LET S == Scope[u] \cap Present
        IN  /\ "head office" \in ShownTo(u) =>
                  Consistent(S, [p \in Periods |-> HODashboard(u, S, p)], HODashboard(u, S, AllPeriods))
            /\ "executive" \in ShownTo(u) =>
                  Consistent(S, [p \in Periods |-> ExecutiveDashboard(u, S, p)],
                             ExecutiveDashboard(u, S, AllPeriods))
            /\ "district" \in ShownTo(u) =>
                  Consistent(S, [p \in Periods |-> DistrictDashboard(u, S, p)],
                             DistrictDashboard(u, S, AllPeriods))
            /\ "branch" \in ShownTo(u) =>
                  Consistent(S, [p \in Periods |-> BranchDashboard(u, S, p)],
                             BranchDashboard(u, S, AllPeriods))

\* No finding is left for nobody: one that is neither settled nor turned down
\* and that was not just transferred is in the queue of somebody who can do
\* something about it.  (A TRANSFERRED one is in the branch's queue only once
\* something more has been rectified.)
NobodysFinding ==
    \A f \in Present :
        Unhindered(f) /\ finding[f].status \notin {"REJECTED", "CLOSED", "TRANSFERRED"} =>
            \E u \in Users : Queued(u, f) /\ \E b \in Buttons : Accepts(u, f, b)

\* What a card counts can be acted on by its viewer while the period is open:
\* reviewed, verified, closed unless it was sent back, rectified or resubmitted.
CardsCanBeWorked ==
    \A u \in Users : \A f \in Present \cap Scope[u] : Unhindered(f) =>
        /\ f \in PendingApproval(u) /\ Grants[u] \cap {"HO_REVIEW", "PENDING_BANK_APPROVAL"} # {} =>
              \E b \in Decisions : Accepts(u, f, b)
        /\ f \in RequiringReview(Present, AllPeriods) /\ "DISTRICT_REVIEW" \in Grants[u] =>
              \E b \in Decisions : Accepts(u, f, b)
        /\ f \in PendingVerify(Present) /\ "verify-rectification" \in Grants[u] =>
              Accepts(u, f, "verify")
        /\ f \in PendingClose /\ "close" \in Grants[u] =>
              finding[f].status = "RECTIFICATION_RETURNED" \/ Accepts(u, f, "close")
        /\ f \in PendingRectification(Present) /\ "rectify" \in Grants[u] =>
              Accepts(u, f, "rectify") \/ Accepts(u, f, "resubmit") \/ Outstanding(f) = Zero
        /\ f \in OwnDrafts(u) => Accepts(u, f, "edit") /\ Accepts(u, f, "submit")

\* The comment above head office's two cards: its "own queue is exactly these
\* two categories", besides what it registered itself; and the cards of branch
\* and district count nothing their queue does not hold, nor does a registrant wait
\* for an approval that is in no queue.
CardsMirrorQueue ==
    \A u \in Users : \A f \in Present \cap Scope[u] :
        /\ u \in BankUsers =>
              (Queued(u, f) <=> \/ f \in PendingApproval(u) \cup PendingClose
                                \/ finding[f].status \in Editable)
        /\ "verify-rectification" \in Grants[u] /\ f \in PendingVerify(Present) => Queued(u, f)
        /\ "rectify" \in Grants[u] /\ f \in PendingRectification(Present) => Queued(u, f)
        /\ "edit" \in Grants[u] /\ f \in OwnDrafts(u) => Queued(u, f)
        /\ f \in OwnPending(u) => \E v \in Users : Queued(v, f)

\* Work finds the person it waits for: the queues leave nothing to nobody, and
\* the dashboards' cards count what their viewers can act on and are queued.
QueueLeadsOn == NobodysFinding /\ CardsCanBeWorked /\ CardsMirrorQueue

\* FindingStatusDistribution.tsx: the chart "buckets every finding, closed and
\* rejected included, by where it sits in the workflow".
EveryStageShown == \A f \in Present : finding[f].status \in UNION StageBuckets
=============================================================================
