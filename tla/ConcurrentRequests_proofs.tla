---------------------- MODULE ConcurrentRequests_proofs ----------------------
(***************************************************************************)
(* What survives of the workflow's promises when requests overlap, for any *)
(* number of requests in progress, findings, periods and totals.  Counters *)
(* may pass each other here, and a total may be amended below what has     *)
(* been counted against it, so the quantities of this module's invariant   *)
(* are integers: it keeps the ledgers, the counters they add up to, and    *)
(* the period a finding is in.  Last, that one request at a time is the    *)
(* workflow.                                                               *)
(***************************************************************************)
EXTENDS ConcurrentRequests, FindingWorkflow_proofs

Amount == [Dim -> Int]

LooseRow ==
    [status : Status, period : Periods, creator : Users,
     total : Amount, rectified : Amount, verified : Amount, closed : Amount,
     items : Seq(Nat), done : SUBSET Nat]

LooseRectification == [period : Periods, qty : Amount, after : Nat]
LooseClosure == [period : Periods, qty : Amount]
LooseMove == [from : Periods, to : Periods, qty : Amount]

LooseTypes ==
    /\ finding \in [Findings -> LooseRow \cup {NoFinding}]
    /\ rectifications \in [Findings -> Seq(LooseRectification)]
    /\ closures \in [Findings -> Seq(LooseClosure)]
    /\ transfers \in [Findings -> Seq(LooseMove)]

\* A finding there is is in a period there is, and its ledgers add up; a slot
\* that is free has no rows left.
LooseFit(row, recs, cls, moves, periods) ==
    IF row = NoFinding THEN recs = <<>> /\ cls = <<>> /\ moves = <<>>
    ELSE /\ periods[row.period] # NoPeriod
         /\ \A d \in Dim : /\ SumOfRows(recs, Periods, d) = row.rectified[d]
                           /\ SumOfRows(cls, Periods, d) = row.closed[d]

AllFit ==
    \A f \in Findings : LooseFit(finding[f], rectifications[f], closures[f], transfers[f], period)

TablesHold == LooseTypes /\ PeriodsOK /\ AllFit

\* What the second half of a request may rely on: the first half saw to it.
WellAsked(r) ==
    /\ r.op \in {"create", "edit", "delete", "submit", "review", "rectify", "verify", "close",
                 "return", "resubmit", "reopen", "transfer"} => r.of \in Findings
    /\ r.op \in {"create-period", "patch-period", "delete-period"} => r.of \in Periods
    /\ r.op = "create" => r.by \in Users /\ r.arg.period \in Periods /\ r.arg.total \in Quantity
    /\ r.op = "edit" => r.arg.period \in Periods /\ r.arg.changes \in Changes
    /\ r.op = "review" => r.arg.stage \in Stages /\ r.arg.decision \in Decisions
    /\ r.op \in {"rectify", "verify", "close"} => r.arg \in Amount
    /\ r.op = "transfer" => r.arg \in Periods
    /\ r.op = "create-period" => r.arg \in Dates
    /\ r.op = "patch-period" =>
          r.arg.req \in PatchRequests /\ (r.arg.changes => r.arg.req.status # "KEEP")

PendingHolds == DOMAIN pending = Workers /\ \A w \in Workers : WellAsked(pending[w])

\* The inductive invariant
CInv == TablesHold /\ PendingHolds

-----------------------------------------------------------------------------
(* What a step does to the ledgers of a finding. *)

Longer(f) ==
    /\ IsPrefix(rectifications[f], rectifications'[f])
    /\ IsPrefix(closures[f], closures'[f])
    /\ IsPrefix(transfers[f], transfers'[f])

Restarted(f) ==
    /\ rectifications'[f] = <<>> /\ closures'[f] = <<>>
    /\ IsPrefix(transfers[f], transfers'[f])
    /\ finding'[f].status = "SENT_TO_BRANCH_MANAGER"
    /\ finding'[f].rectified = Zero /\ finding'[f].verified = Zero /\ finding'[f].closed = Zero
    /\ period[finding[f].period].status = "OPEN"

Traced(f) == Exists(f) /\ Exists(f)' => Longer(f) \/ Restarted(f)

AllTraced == \A f \in Findings : Traced(f)

-----------------------------------------------------------------------------
(* Amounts. *)

\* Amounts, unlike quantities, may be negative: they add up ...
LEMMA AmountPlus ==
    ASSUME NEW q \in Amount, NEW r \in Amount
    PROVE  Plus(q, r) \in Amount /\ \A d \in Dim : Plus(q, r)[d] = q[d] + r[d]
    BY DEF Amount, Plus

\* ... and are taken from one another without a condition.
LEMMA AmountMinus ==
    ASSUME NEW q \in Amount, NEW r \in Amount
    PROVE  Minus(q, r) \in Amount
    BY DEF Amount, Minus

\* A quantity is an amount.
LEMMA QuantityIsAmount == Quantity \subseteq Amount /\ Zero \in Amount
    BY DEF Quantity, Amount, Zero

\* The sum over a ledger with one row more
LEMMA AmountRowsAppend ==
    ASSUME NEW R, \A x \in R : x.period \in Periods /\ x.qty \in Amount,
           NEW rows \in Seq(R), NEW row \in R, NEW d \in Dim
    PROVE  SumOfRows(Append(rows, row), Periods, d) = SumOfRows(rows, Periods, d) + row.qty[d]
<1> DEFINE w == [i \in DOMAIN rows |-> IF rows[i].period \in Periods THEN rows[i].qty[d] ELSE 0]
           more == Append(rows, row)
           v == [i \in DOMAIN more |-> IF more[i].period \in Periods THEN more[i].qty[d] ELSE 0]
<1>1. \A x \in R : x.qty[d] \in Int
    BY DEF Amount
<1>2. /\ Len(rows) \in Nat /\ DOMAIN rows = 1..Len(rows)
      /\ DOMAIN more = 1..(Len(rows) + 1)
      /\ more[Len(rows) + 1] = row
      /\ \A i \in 1..Len(rows) : rows[i] \in R /\ more[i] = rows[i]
    OBVIOUS
<1>3. w \in Seq(Int) /\ Len(w) = Len(rows)
    BY <1>1, <1>2
<1>4. v = Append(w, row.qty[d])
    BY <1>1, <1>2, <1>3
<1>5. SumOf(v) = SumOf(w) + row.qty[d]
    BY <1>1, <1>3, <1>4, SumOfAppend
<1> QED
    BY <1>5 DEF SumOfRows

-----------------------------------------------------------------------------
(* A commit on one finding. *)

\* A free slot is told from a finding.
LEMMA NoLooseRow == NoFinding \notin LooseRow
    BY DEF LooseRow, NoFinding

\* What is known of a finding there is
LEMMA LooselyKnown ==
    ASSUME TablesHold, NEW f \in Findings, Exists(f)
    PROVE  /\ finding[f] \in LooseRow /\ InUse(finding[f].period) /\ finding[f].period \in Periods
           /\ finding[f].total \in Amount /\ finding[f].rectified \in Amount
           /\ finding[f].verified \in Amount /\ finding[f].closed \in Amount
           /\ \A d \in Dim : /\ SumOfRows(rectifications[f], Periods, d) = finding[f].rectified[d]
                             /\ SumOfRows(closures[f], Periods, d) = finding[f].closed[d]
<1>1. finding[f] \in LooseRow
    BY DEF TablesHold, LooseTypes, Exists
<1>2. LooseFit(finding[f], rectifications[f], closures[f], transfers[f], period)
    BY DEF TablesHold, AllFit
<1> QED
    BY <1>1, <1>2 DEF LooseFit, Exists, InUse, LooseRow

\* The ledgers of a finding are sequences of rows.
LEMMA LooseLedgers ==
    ASSUME TablesHold, NEW f \in Findings
    PROVE  /\ rectifications[f] \in Seq(LooseRectification)
           /\ closures[f] \in Seq(LooseClosure) /\ transfers[f] \in Seq(LooseMove)
    BY DEF TablesHold, LooseTypes

\* Nothing is done to it.
LEMMA KeptIsTraced ==
    ASSUME TablesHold, NEW f \in Findings, rectifications'[f] = rectifications[f],
           closures'[f] = closures[f], transfers'[f] = transfers[f]
    PROVE  Longer(f)
    BY LooseLedgers, RowsKept DEF Longer

\* The tables after a step on one finding
LEMMA OneCommit ==
    ASSUME TablesHold, NEW f \in Findings, NEW row \in LooseRow \cup {NoFinding},
           NEW recs \in Seq(LooseRectification), NEW cls \in Seq(LooseClosure),
           NEW moves \in Seq(LooseMove), LooseFit(row, recs, cls, moves, period),
           finding' = [finding EXCEPT ![f] = row],
           rectifications' = [rectifications EXCEPT ![f] = recs],
           closures' = [closures EXCEPT ![f] = cls],
           transfers' = [transfers EXCEPT ![f] = moves],
           period' = period
    PROVE  /\ TablesHold'
           /\ finding'[f] = row /\ rectifications'[f] = recs /\ closures'[f] = cls
           /\ transfers'[f] = moves
           /\ Traced(f) => AllTraced
<1>1. LooseTypes' /\ PeriodsOK'
    BY DEF TablesHold, LooseTypes, PeriodsOK
<1>2. finding'[f] = row /\ rectifications'[f] = recs /\ closures'[f] = cls /\ transfers'[f] = moves
    BY DEF TablesHold, LooseTypes
<1>3. ASSUME NEW g \in Findings, g # f
      PROVE  /\ finding'[g] = finding[g] /\ rectifications'[g] = rectifications[g]
             /\ closures'[g] = closures[g] /\ transfers'[g] = transfers[g]
    BY <1>3 DEF TablesHold, LooseTypes
<1>4. AllFit'
    <2>1. SUFFICES ASSUME NEW g \in Findings
                   PROVE  LooseFit(finding'[g], rectifications'[g], closures'[g], transfers'[g], period)
        BY DEF AllFit
    <2> QED
        BY <1>2, <1>3 DEF TablesHold, AllFit
<1>5. Traced(f) => AllTraced
    BY <1>3, KeptIsTraced DEF AllTraced, Traced
<1> QED
    BY <1>1, <1>2, <1>4, <1>5 DEF TablesHold

\* A step that changes neither what is counted of a finding nor its ledgers
LEMMA LedgersAside ==
    ASSUME TablesHold, NEW f \in Findings, Exists(f), NEW row \in LooseRow, InUse(row.period),
           row.rectified = finding[f].rectified, row.closed = finding[f].closed,
           finding' = [finding EXCEPT ![f] = row], UNCHANGED <<period, ledgers>>
    PROVE  TablesHold' /\ AllTraced
<1>1. /\ rectifications' = [rectifications EXCEPT ![f] = rectifications[f]]
      /\ closures' = [closures EXCEPT ![f] = closures[f]]
      /\ transfers' = [transfers EXCEPT ![f] = transfers[f]]
      /\ period' = period
    BY DEF TablesHold, LooseTypes, ledgers
<1>2. /\ rectifications[f] \in Seq(LooseRectification) /\ closures[f] \in Seq(LooseClosure)
      /\ transfers[f] \in Seq(LooseMove)
    BY LooseLedgers
<1>3. LooseFit(row, rectifications[f], closures[f], transfers[f], period)
    <2>1. row # NoFinding
        BY DEF LooseRow, NoFinding
    <2> QED
        BY <2>1, LooselyKnown DEF LooseFit, InUse
<1>4. /\ TablesHold' /\ rectifications'[f] = rectifications[f] /\ closures'[f] = closures[f]
      /\ transfers'[f] = transfers[f] /\ (Traced(f) => AllTraced)
    BY <1>1, <1>2, <1>3, OneCommit
<1>5. Traced(f)
    BY <1>4, KeptIsTraced DEF Traced
<1> QED
    BY <1>4, <1>5

\* Submission, reviews, returns and resubmissions move the status.
LEMMA StatusCommit ==
    ASSUME TablesHold, NEW f \in Findings, Exists(f), NEW s \in Status, MoveTo(f, s),
           UNCHANGED <<period, ledgers>>
    PROVE  TablesHold' /\ AllTraced
<1>1. PICK row : row = [finding[f] EXCEPT !.status = s]
    OBVIOUS
<1>2. finding' = [finding EXCEPT ![f] = row]
    BY <1>1 DEF MoveTo, TablesHold, LooseTypes
<1>3. finding[f] \in LooseRow /\ InUse(finding[f].period)
    BY LooselyKnown
<1>4. /\ row \in LooseRow /\ row.period = finding[f].period
      /\ row.rectified = finding[f].rectified /\ row.closed = finding[f].closed
    BY <1>1, <1>3 DEF LooseRow
<1> QED
    BY <1>2, <1>3, <1>4, LedgersAside

\* The writes that only set a status.
LEMMA StatusCommits ==
    ASSUME TablesHold, NEW f \in Findings, Exists(f),
           \/ \E u : DoSubmit(u, f)
           \/ \E stage \in Stages, decision \in Decisions : DoReview(f, stage, decision)
           \/ DoReturn(f) \/ DoResubmit(f)
    PROVE  TablesHold' /\ AllTraced
<1>1. CASE \E u : DoSubmit(u, f)
    <2>1. PICK u : DoSubmit(u, f)
        BY <1>1
    <2>2. PICK s \in SubmittedStatuses(u) : MoveTo(f, s)
        BY <2>1 DEF DoSubmit
    <2>3. s \in Status
        BY DEF SubmittedStatuses, Status
    <2> QED
        BY <2>1, <2>2, <2>3, StatusCommit DEF DoSubmit
<1>2. CASE \E stage \in Stages, decision \in Decisions : DoReview(f, stage, decision)
    <2>1. PICK stage \in Stages, decision \in Decisions : DoReview(f, stage, decision)
        BY <1>2
    <2>2. Decided(stage, decision) \in Status
        BY DEF Decided, Stages, Decisions, Status
    <2> QED
        BY <2>1, <2>2, StatusCommit DEF DoReview
<1>3. CASE DoReturn(f)
    <2>1. "RECTIFICATION_RETURNED" \in Status
        BY DEF Status
    <2> QED
        BY <1>3, <2>1, StatusCommit DEF DoReturn
<1>4. CASE DoResubmit(f)
    <2>1. PICK s : MoveTo(f, s) /\ s \in {"RECTIFIED", "SENT_TO_BRANCH_MANAGER", "PARTIALLY_RECTIFIED"}
        BY <1>4 DEF DoResubmit
    <2>2. s \in Status
        BY <2>1 DEF Status
    <2> QED
        BY <1>4, <2>1, <2>2, StatusCommit DEF DoResubmit
<1> QED
    BY <1>1, <1>2, <1>3, <1>4

\* An edit may go to another period, if it is still there.
LEMMA EditCommit ==
    ASSUME TablesHold, NEW f \in Findings, Exists(f), NEW q \in Periods, InUse(q),
           NEW changes \in Changes, DoEdit(f, q, changes)
    PROVE  TablesHold' /\ AllTraced
<1>1. PICK total : total = [d \in Dim |-> IF d \in DOMAIN changes THEN changes[d] ELSE finding[f].total[d]]
    OBVIOUS
<1>2. PICK row : row = [finding[f] EXCEPT !.period = q, !.total = total]
    OBVIOUS
<1>3. finding[f] \in LooseRow /\ finding[f].total \in Amount
    BY LooselyKnown
<1>4. total \in Amount
    <2>1. \A d \in DOMAIN changes : changes[d] \in Nat
        <3>1. PICK D \in SUBSET Dim : changes \in {[d \in D |-> t[d]] : t \in Totals}
            BY DEF Changes
        <3>2. PICK t \in Totals : changes = [d \in D |-> t[d]]
            BY <3>1
        <3>3. t \in Quantity
            BY InputsAssumption
        <3> QED
            BY <3>2, <3>3 DEF Quantity
    <2> QED
        BY <1>1, <1>3, <2>1 DEF Amount
<1>5. /\ row \in LooseRow /\ row.period = q
      /\ row.rectified = finding[f].rectified /\ row.closed = finding[f].closed
    BY <1>2, <1>3, <1>4 DEF LooseRow
<1>6. finding' = [finding EXCEPT ![f] = row]
    BY <1>1, <1>2, <1>3 DEF DoEdit, TablesHold, LooseTypes, LooseRow
<1>7. UNCHANGED <<period, ledgers>>
    BY DEF DoEdit
<1> QED
    BY <1>5, <1>6, <1>7, LedgersAside

\* A verification adds what was verifiable when it was asked for.
LEMMA VerifyCommit ==
    ASSUME TablesHold, NEW u, NEW f \in Findings, Exists(f), NEW n \in Amount, DoVerify(u, f, n)
    PROVE  TablesHold' /\ AllTraced
<1>1. PICK v : v = Plus(finding[f].verified, n)
    OBVIOUS
<1>2. PICK row : row = [finding[f] EXCEPT !.verified = v]
    OBVIOUS
<1>3. finding[f] \in LooseRow /\ finding[f].verified \in Amount /\ InUse(finding[f].period)
    BY LooselyKnown
<1>4. v \in Amount
    BY <1>1, <1>3, AmountPlus
<1>5. /\ row \in LooseRow /\ row.period = finding[f].period
      /\ row.rectified = finding[f].rectified /\ row.closed = finding[f].closed
    BY <1>2, <1>3, <1>4 DEF LooseRow
<1>6. finding' = [finding EXCEPT ![f] = row]
    BY <1>1, <1>2, <1>3 DEF DoVerify, TablesHold, LooseTypes, LooseRow
<1>7. UNCHANGED <<period, ledgers>>
    BY DEF DoVerify
<1> QED
    BY <1>3, <1>5, <1>6, <1>7, LedgersAside

\* A rectification and its row, whatever was recorded in between
LEMMA RectifyCommit ==
    ASSUME TablesHold, NEW f \in Findings, Exists(f), NEW n \in Amount, DoRectify(f, n, {})
    PROVE  TablesHold' /\ AllTraced
<1>1. PICK r : r = Plus(finding[f].rectified, n)
    OBVIOUS
<1>2. PICK s : s = IF Covers(r, f) THEN "RECTIFIED" ELSE "PARTIALLY_RECTIFIED"
    OBVIOUS
<1>3. PICK row : row = [finding[f] EXCEPT !.rectified = r, !.done = finding[f].done \cup {}, !.status = s]
    OBVIOUS
<1>4. PICK rec : rec = [period |-> finding[f].period, qty |-> n, after |-> Len(transfers[f])]
    OBVIOUS
<1>5. PICK recs : recs = Append(rectifications[f], rec)
    OBVIOUS
<1>6. /\ finding[f] \in LooseRow /\ InUse(finding[f].period) /\ finding[f].period \in Periods
      /\ finding[f].rectified \in Amount
    BY LooselyKnown
<1>7. /\ rectifications[f] \in Seq(LooseRectification) /\ closures[f] \in Seq(LooseClosure)
      /\ transfers[f] \in Seq(LooseMove)
    BY LooseLedgers
<1>8. r \in Amount /\ \A d \in Dim : r[d] = finding[f].rectified[d] + n[d]
    BY <1>1, <1>6, AmountPlus
<1>9. rec \in LooseRectification /\ rec.qty = n
    BY <1>4, <1>6, <1>7 DEF LooseRectification
<1>10. recs \in Seq(LooseRectification) /\ IsPrefix(rectifications[f], recs)
    BY <1>5, <1>7, <1>9, RowAdded
<1>11. s \in Status
    BY <1>2 DEF Status
<1>12. /\ row \in LooseRow /\ row.period = finding[f].period /\ row.rectified = r
       /\ row.closed = finding[f].closed /\ row # NoFinding
    BY <1>3, <1>6, <1>8, <1>11 DEF LooseRow, NoFinding
<1>13. LooseFit(row, recs, closures[f], transfers[f], period)
    <2>1. \A x \in LooseRectification : x.period \in Periods /\ x.qty \in Amount
        BY DEF LooseRectification
    <2>2. ASSUME NEW d \in Dim PROVE SumOfRows(recs, Periods, d) = r[d]
        <3>1. SumOfRows(recs, Periods, d) = SumOfRows(rectifications[f], Periods, d) + rec.qty[d]
            BY <1>5, <1>7, <1>9, <2>1, AmountRowsAppend
        <3> QED
            BY <1>8, <1>9, <3>1, LooselyKnown
    <2> QED
        BY <1>6, <1>12, <2>2, LooselyKnown DEF LooseFit, InUse
<1>14. finding' = [finding EXCEPT ![f] = row]
    BY <1>1, <1>2, <1>3, <1>6 DEF DoRectify, TablesHold, LooseTypes, LooseRow
<1>15. /\ rectifications' = [rectifications EXCEPT ![f] = recs]
       /\ closures' = [closures EXCEPT ![f] = closures[f]]
       /\ transfers' = [transfers EXCEPT ![f] = transfers[f]]
       /\ period' = period
    BY <1>4, <1>5 DEF DoRectify, TablesHold, LooseTypes
<1>16. /\ TablesHold' /\ rectifications'[f] = recs /\ closures'[f] = closures[f]
       /\ transfers'[f] = transfers[f] /\ (Traced(f) => AllTraced)
    BY <1>7, <1>10, <1>12, <1>13, <1>14, <1>15, OneCommit, ZenonT(60)
<1>17. Traced(f)
    BY <1>7, <1>10, <1>16, RowsKept DEF Traced, Longer
<1> QED
    BY <1>16, <1>17

\* A closure and its row: what was closable when it was asked for
LEMMA CloseCommit ==
    ASSUME TablesHold, NEW u, NEW f \in Findings, Exists(f), NEW n \in Amount, DoClose(u, f, n)
    PROVE  TablesHold' /\ AllTraced
<1>1. PICK c : c = Plus(finding[f].closed, n)
    OBVIOUS
<1>2. PICK s : s = IF Covers(c, f) THEN "CLOSED" ELSE finding[f].status
    OBVIOUS
<1>3. PICK row : row = [finding[f] EXCEPT !.closed = c, !.status = s]
    OBVIOUS
<1>4. PICK cl : cl = [period |-> finding[f].period, qty |-> n]
    OBVIOUS
<1>5. PICK cls : cls = Append(closures[f], cl)
    OBVIOUS
<1>6. /\ finding[f] \in LooseRow /\ InUse(finding[f].period) /\ finding[f].period \in Periods
      /\ finding[f].closed \in Amount
    BY LooselyKnown
<1>7. /\ rectifications[f] \in Seq(LooseRectification) /\ closures[f] \in Seq(LooseClosure)
      /\ transfers[f] \in Seq(LooseMove)
    BY LooseLedgers
<1>8. c \in Amount /\ \A d \in Dim : c[d] = finding[f].closed[d] + n[d]
    BY <1>1, <1>6, AmountPlus
<1>9. cl \in LooseClosure /\ cl.qty = n
    BY <1>4, <1>6 DEF LooseClosure
<1>10. cls \in Seq(LooseClosure) /\ IsPrefix(closures[f], cls)
    BY <1>5, <1>7, <1>9, RowAdded
<1>11. s \in Status
    BY <1>2, <1>6 DEF Status, LooseRow
<1>12. /\ row \in LooseRow /\ row.period = finding[f].period /\ row.closed = c
       /\ row.rectified = finding[f].rectified /\ row # NoFinding
    BY <1>3, <1>6, <1>8, <1>11 DEF LooseRow, NoFinding
<1>13. LooseFit(row, rectifications[f], cls, transfers[f], period)
    <2>1. \A x \in LooseClosure : x.period \in Periods /\ x.qty \in Amount
        BY DEF LooseClosure
    <2>2. ASSUME NEW d \in Dim PROVE SumOfRows(cls, Periods, d) = c[d]
        <3>1. SumOfRows(cls, Periods, d) = SumOfRows(closures[f], Periods, d) + cl.qty[d]
            BY <1>5, <1>7, <1>9, <2>1, AmountRowsAppend
        <3> QED
            BY <1>8, <1>9, <3>1, LooselyKnown
    <2> QED
        BY <1>6, <1>12, <2>2, LooselyKnown DEF LooseFit, InUse
<1>14. finding' = [finding EXCEPT ![f] = row]
    BY <1>1, <1>2, <1>3, <1>6 DEF DoClose, TablesHold, LooseTypes, LooseRow
<1>15. /\ rectifications' = [rectifications EXCEPT ![f] = rectifications[f]]
       /\ closures' = [closures EXCEPT ![f] = cls]
       /\ transfers' = [transfers EXCEPT ![f] = transfers[f]]
       /\ period' = period
    BY <1>4, <1>5 DEF DoClose, TablesHold, LooseTypes
<1>16. /\ TablesHold' /\ rectifications'[f] = rectifications[f] /\ closures'[f] = cls
       /\ transfers'[f] = transfers[f] /\ (Traced(f) => AllTraced)
    <2>1. PICK recs \in Seq(LooseRectification), moves \in Seq(LooseMove) :
              recs = rectifications[f] /\ moves = transfers[f]
        BY <1>7
    <2>2. /\ row \in LooseRow \cup {NoFinding} /\ cls \in Seq(LooseClosure)
          /\ LooseFit(row, recs, cls, moves, period)
          /\ finding' = [finding EXCEPT ![f] = row]
          /\ rectifications' = [rectifications EXCEPT ![f] = recs]
          /\ closures' = [closures EXCEPT ![f] = cls]
          /\ transfers' = [transfers EXCEPT ![f] = moves]
          /\ period' = period
        BY <1>10, <1>12, <1>13, <1>14, <1>15, <2>1
    <2>3. /\ TablesHold' /\ rectifications'[f] = recs /\ closures'[f] = cls
          /\ transfers'[f] = moves /\ (Traced(f) => AllTraced)
        <3> QED
            BY <2>2, <2>1, OneCommit
    <2> QED
        BY <2>1, <2>3
<1>17. Traced(f)
    BY <1>7, <1>10, <1>16, RowsKept DEF Traced, Longer
<1> QED
    BY <1>16, <1>17

\* A new finding starts with nothing on record: its slot had none left.
LEMMA CreateCommit ==
    ASSUME TablesHold, NEW u \in Users, NEW f \in Findings, ~Exists(f), NEW p \in Periods, InUse(p),
           NEW total \in Quantity, NEW submit, DoCreate(u, f, p, total, <<>>, submit)
    PROVE  TablesHold' /\ AllTraced
<1>1. PICK s \in (IF submit THEN SubmittedStatuses(u) ELSE {"DRAFT"}) :
          finding' = [finding EXCEPT ![f] =
              [status |-> s, period |-> p, creator |-> u, total |-> total,
               rectified |-> Zero, verified |-> Zero, closed |-> Zero,
               items |-> <<>>, done |-> {}]]
    BY DEF DoCreate
<1>2. PICK row : row = [status |-> s, period |-> p, creator |-> u, total |-> total,
                        rectified |-> Zero, verified |-> Zero, closed |-> Zero,
                        items |-> <<>>, done |-> {}]
    OBVIOUS
<1>3. s \in Status
    BY <1>1 DEF SubmittedStatuses, Status
<1>4. row \in LooseRow \cup {NoFinding} /\ row # NoFinding
    <2>1. Zero \in Amount /\ total \in Amount
        BY QuantityIsAmount
    <2>2. <<>> \in Seq(Nat)
        BY EmptySeq
    <2> QED
        BY <1>2, <1>3, <2>1, <2>2 DEF LooseRow, NoFinding
<1>5. PICK none : none = <<>>
    OBVIOUS
<1>6. /\ rectifications[f] = none /\ closures[f] = none /\ transfers[f] = none
      /\ none \in Seq(LooseRectification) /\ none \in Seq(LooseClosure) /\ none \in Seq(LooseMove)
    BY <1>5, EmptySeq DEF TablesHold, AllFit, LooseFit, Exists
<1>7. LooseFit(row, none, none, none, period)
    <2>1. row.rectified = Zero /\ row.closed = Zero /\ row.period = p
        BY <1>2
    <2>2. \A d \in Dim : Zero[d] = 0
        BY DEF Zero
    <2> QED
        BY <1>4, <1>5, <2>1, <2>2, RowsEmpty DEF LooseFit, InUse
<1>8. /\ finding' = [finding EXCEPT ![f] = row]
      /\ rectifications' = [rectifications EXCEPT ![f] = none]
      /\ closures' = [closures EXCEPT ![f] = none]
      /\ transfers' = [transfers EXCEPT ![f] = none]
      /\ period' = period
    BY <1>1, <1>2, <1>6 DEF DoCreate, ledgers, TablesHold, LooseTypes
<1>9. TablesHold' /\ (Traced(f) => AllTraced)
    BY <1>4, <1>6, <1>7, <1>8, OneCommit
<1> QED
    BY <1>9 DEF Traced

\* A slot that is given up keeps no rows; it may have been given up before.
LEMMA DeleteCommit ==
    ASSUME TablesHold, NEW f \in Findings, DoDelete(f)
    PROVE  TablesHold' /\ AllTraced
<1>1. PICK none : none = <<>>
    OBVIOUS
<1>2. /\ none \in Seq(LooseRectification) /\ none \in Seq(LooseClosure) /\ none \in Seq(LooseMove)
    BY <1>1, EmptySeq
<1>3. PICK row : row = NoFinding
    OBVIOUS
<1>4. LooseFit(row, none, none, none, period)
    BY <1>1, <1>3 DEF LooseFit
<1>5. /\ finding' = [finding EXCEPT ![f] = row]
      /\ rectifications' = [rectifications EXCEPT ![f] = none]
      /\ closures' = [closures EXCEPT ![f] = none]
      /\ transfers' = [transfers EXCEPT ![f] = none]
      /\ period' = period
    BY <1>1, <1>3 DEF DoDelete
<1>6. row \in LooseRow \cup {NoFinding}
    BY <1>3
<1>7. TablesHold' /\ finding'[f] = row /\ (Traced(f) => AllTraced)
    BY <1>2, <1>4, <1>5, <1>6, OneCommit
<1> QED
    BY <1>3, <1>7 DEF Traced, Exists

\* A reopening checks again, and starts the finding over as a whole.
LEMMA ReopenCommit ==
    ASSUME TablesHold, NEW u, NEW f \in Findings, CanReopen(u, f), DoReopen(f)
    PROVE  TablesHold' /\ AllTraced
<1>1. PICK none : none = <<>>
    OBVIOUS
<1>2. /\ none \in Seq(LooseRectification) /\ none \in Seq(LooseClosure)
      /\ transfers[f] \in Seq(LooseMove)
    BY <1>1, EmptySeq, LooseLedgers
<1>3. PICK moves \in Seq(LooseMove) : moves = transfers[f]
    BY <1>2
<1>4. PICK row : row = Reopened(f)
    OBVIOUS
<1>5. Exists(f) /\ period[finding[f].period].status = "OPEN"
    BY DEF CanReopen, PeriodWritable
<1>6. finding[f] \in LooseRow /\ InUse(finding[f].period)
    BY <1>5, LooselyKnown
<1>7. /\ row \in LooseRow /\ row.period = finding[f].period /\ row.status = "SENT_TO_BRANCH_MANAGER"
      /\ row.rectified = Zero /\ row.verified = Zero /\ row.closed = Zero
    BY <1>4, <1>6, QuantityIsAmount DEF Reopened, LooseRow, Status
<1>8. LooseFit(row, none, none, moves, period) /\ row \in LooseRow \cup {NoFinding}
    <2>1. row # NoFinding
        BY <1>7 DEF LooseRow, NoFinding
    <2>2. \A d \in Dim : Zero[d] = 0
        BY DEF Zero
    <2> QED
        BY <1>1, <1>6, <1>7, <2>1, <2>2, RowsEmpty DEF LooseFit, InUse
<1>9. /\ finding' = [finding EXCEPT ![f] = row]
      /\ rectifications' = [rectifications EXCEPT ![f] = none]
      /\ closures' = [closures EXCEPT ![f] = none]
      /\ transfers' = [transfers EXCEPT ![f] = moves]
      /\ period' = period
    BY <1>1, <1>3, <1>4 DEF DoReopen, TablesHold, LooseTypes
<1>10. /\ TablesHold' /\ finding'[f] = row /\ rectifications'[f] = none /\ closures'[f] = none
       /\ transfers'[f] = moves /\ (Traced(f) => AllTraced)
    BY <1>2, <1>3, <1>8, <1>9, OneCommit
<1>11. Restarted(f)
    <2>1. IsPrefix(transfers[f], transfers'[f])
        BY <1>2, <1>3, <1>10, RowsKept
    <2> QED
        BY <1>1, <1>5, <1>7, <1>10, <2>1 DEF Restarted
<1> QED
    BY <1>10, <1>11 DEF Traced

\* What a transfer does to a finding and its ledger of transfers
LEMMA MovedRow ==
    ASSUME TablesHold, NEW f \in Findings, Exists(f), NEW q \in Periods
    PROVE  /\ Transferred(f, q) \in LooseRow /\ Transferred(f, q).period = q
           /\ Transferred(f, q).rectified = finding[f].rectified
           /\ Transferred(f, q).closed = finding[f].closed
           /\ Append(transfers[f], Move(f, q)) \in Seq(LooseMove)
           /\ IsPrefix(transfers[f], Append(transfers[f], Move(f, q)))
<1>1. finding[f] \in LooseRow /\ finding[f].total \in Amount /\ finding[f].closed \in Amount
    BY LooselyKnown
<1>2. /\ Transferred(f, q) \in LooseRow /\ Transferred(f, q).period = q
      /\ Transferred(f, q).rectified = finding[f].rectified
      /\ Transferred(f, q).closed = finding[f].closed
    BY <1>1 DEF Transferred, LooseRow, Status
<1>3. Move(f, q) \in LooseMove
    <2>1. Unclosed(f) \in Amount
        BY <1>1, AmountMinus DEF Unclosed
    <2> QED
        BY <1>1, <2>1 DEF Move, LooseMove, LooseRow
<1>4. transfers[f] \in Seq(LooseMove)
    BY LooseLedgers
<1>5. /\ Append(transfers[f], Move(f, q)) \in Seq(LooseMove)
      /\ IsPrefix(transfers[f], Append(transfers[f], Move(f, q)))
    BY <1>3, <1>4, RowAdded
<1> QED
    BY <1>2, <1>5

\* A transfer goes to a period that is still there.
LEMMA TransferCommit ==
    ASSUME TablesHold, NEW f \in Findings, Exists(f), NEW q \in Periods, InUse(q), DoTransfer(f, q)
    PROVE  TablesHold' /\ AllTraced
<1>1. PICK row : row = Transferred(f, q)
    OBVIOUS
<1>2. PICK moves : moves = Append(transfers[f], Move(f, q))
    OBVIOUS
<1>3. /\ row \in LooseRow /\ row.period = q /\ row.rectified = finding[f].rectified
      /\ row.closed = finding[f].closed
      /\ moves \in Seq(LooseMove) /\ IsPrefix(transfers[f], moves)
    BY <1>1, <1>2, MovedRow
<1>4. PICK recs \in Seq(LooseRectification), cls \in Seq(LooseClosure) :
          recs = rectifications[f] /\ cls = closures[f]
    BY LooseLedgers
<1>5. LooseFit(row, recs, cls, moves, period) /\ row \in LooseRow \cup {NoFinding}
    <2>1. row # NoFinding
        BY <1>3, NoLooseRow
    <2> QED
        BY <1>3, <1>4, <2>1, LooselyKnown DEF LooseFit, InUse
<1>6. /\ finding' = [finding EXCEPT ![f] = row]
      /\ rectifications' = [rectifications EXCEPT ![f] = recs]
      /\ closures' = [closures EXCEPT ![f] = cls]
      /\ transfers' = [transfers EXCEPT ![f] = moves]
      /\ period' = period
    BY <1>1, <1>2, <1>4 DEF DoTransfer, TablesHold, LooseTypes
<1>7. /\ TablesHold' /\ rectifications'[f] = recs /\ closures'[f] = cls
      /\ transfers'[f] = moves /\ (Traced(f) => AllTraced)
    BY <1>3, <1>4, <1>5, <1>6, OneCommit
<1>8. Traced(f)
    <2>1. IsPrefix(recs, recs) /\ IsPrefix(cls, cls)
        BY <1>4, RowsKept
    <2> QED
        BY <1>3, <1>4, <1>7, <2>1 DEF Traced, Longer
<1> QED
    BY <1>7, <1>8

-----------------------------------------------------------------------------
(* A commit on one period. *)

\* A step that changes the periods alone, and takes none away that is in use
LEMMA PeriodsCommit ==
    ASSUME TablesHold, PeriodsOK', UNCHANGED <<finding, ledgers>>,
           \A f \in Findings : Exists(f) => period'[finding[f].period] # NoPeriod
    PROVE  TablesHold' /\ AllTraced
<1>1. LooseTypes'
    BY DEF TablesHold, LooseTypes, ledgers
<1>2. AllFit'
    <2>1. SUFFICES ASSUME NEW f \in Findings
                   PROVE  LooseFit(finding[f], rectifications[f], closures[f], transfers[f], period')
        BY DEF AllFit, ledgers
    <2>2. LooseFit(finding[f], rectifications[f], closures[f], transfers[f], period)
        BY DEF TablesHold, AllFit
    <2>3. finding[f] # NoFinding => period'[finding[f].period] # NoPeriod
        BY DEF Exists
    <2> QED
        BY <2>2, <2>3 DEF LooseFit
<1>3. AllTraced
    <2>1. SUFFICES ASSUME NEW f \in Findings PROVE Traced(f)
        BY DEF AllTraced
    <2>2. /\ rectifications'[f] = rectifications[f] /\ closures'[f] = closures[f]
          /\ transfers'[f] = transfers[f]
        BY DEF ledgers
    <2> QED
        BY <2>2, KeptIsTraced DEF Traced
<1> QED
    BY <1>1, <1>2, <1>3 DEF TablesHold

\* The writes on the periods: a new one, ...
LEMMA CreatePeriodCommit ==
    ASSUME TablesHold, NEW p \in Periods, NEW at \in Dates, DoCreatePeriod(p, at)
    PROVE  TablesHold' /\ AllTraced
<1>1. PICK row : row = [status |-> "LOCKED", drafts |-> TRUE, window |-> TRUE, at |-> at]
    OBVIOUS
<1>2. row \in PeriodRow /\ row # NoPeriod
    BY <1>1, InputsAssumption DEF PeriodRow, NoPeriod
<1>3. period' = [period EXCEPT ![p] = row] /\ UNCHANGED <<finding, ledgers>>
    BY <1>1 DEF DoCreatePeriod
<1>4. PeriodsOK'
    BY <1>2, <1>3 DEF TablesHold, PeriodsOK
<1>5. \A f \in Findings : Exists(f) => period'[finding[f].period] # NoPeriod
    BY <1>2, <1>3, LooselyKnown DEF InUse, TablesHold, PeriodsOK
<1> QED
    BY <1>3, <1>4, <1>5, PeriodsCommit

\* The foreign key lets a period go only when no finding is in it.
LEMMA DeletePeriodCommit ==
    ASSUME TablesHold, NEW p \in Periods, Unheld(p), DoDeletePeriod(p)
    PROVE  TablesHold' /\ AllTraced
<1>1. period' = [period EXCEPT ![p] = NoPeriod] /\ UNCHANGED <<finding, ledgers>>
    BY DEF DoDeletePeriod
<1>2. PeriodsOK'
    BY <1>1 DEF TablesHold, PeriodsOK
<1>3. \A f \in Findings : Exists(f) => finding[f].period # p
    BY DEF Unheld, InPeriod
<1>4. \A f \in Findings : Exists(f) => period'[finding[f].period] # NoPeriod
    BY <1>1, <1>3, LooselyKnown DEF InUse, TablesHold, PeriodsOK
<1> QED
    BY <1>1, <1>2, <1>4, PeriodsCommit

\* A PATCH keeps its period, and sweeps findings on to one there is.
LEMMA PatchPeriodCommit ==
    ASSUME TablesHold, NEW p \in Periods, InUse(p), NEW req \in PatchRequests, NEW changes, NEW sweep,
           changes => req.status # "KEEP", DoPatchPeriod(p, req, changes, sweep)
    PROVE  TablesHold' /\ AllTraced
<1> DEFINE at == Sent(req.at, period[p].at)
           drafts == Sent(req.drafts, period[p].drafts)
           status == IF changes THEN req.status ELSE period[p].status
           dests == Destinations(p, at)
           dest == CHOOSE q \in dests : TRUE
           moved == IF changes /\ req.status = "LOCKED" /\ sweep /\ dests # {}
                    THEN Sweepable(p) ELSE {}
<1>1. period[p] \in PeriodRow
    BY DEF InUse, TablesHold, PeriodsOK
<1>2. /\ req.status \in {"OPEN", "LOCKED", "KEEP"}
      /\ req.drafts \in Optional(DraftFlags) /\ req.at \in Optional(NewDates)
    BY DEF PatchRequests
<1>3. at \in Nat /\ drafts \in BOOLEAN
    <2>1. period[p].at \in Nat /\ period[p].drafts \in BOOLEAN
        BY <1>1 DEF PeriodRow
    <2>2. at \in NewDates \/ at = period[p].at
        BY <1>2, SentIn
    <2>3. drafts \in DraftFlags \/ drafts = period[p].drafts
        BY <1>2, SentIn
    <2> HIDE DEF at, drafts
    <2> QED
        BY <2>1, <2>2, <2>3, InputsAssumption
<1>4. status \in {"OPEN", "LOCKED"}
    BY <1>1, <1>2 DEF PeriodRow
<1>5. PICK row : row = [period[p] EXCEPT !.status = status, !.drafts = drafts, !.at = at]
    OBVIOUS
<1>6. period' = [period EXCEPT ![p] = row]
    BY <1>1, <1>5 DEF DoPatchPeriod, TablesHold, PeriodsOK, PeriodRow
<1>7. row \in PeriodRow /\ row # NoPeriod
    BY <1>1, <1>3, <1>4, <1>5 DEF PeriodRow, NoPeriod
<1>8. PeriodsOK' /\ \A q \in Periods : InUse(q) => period'[q] # NoPeriod
    BY <1>6, <1>7 DEF TablesHold, PeriodsOK, InUse
<1>9. /\ finding' = [f \in Findings |-> IF f \in moved THEN Transferred(f, dest) ELSE finding[f]]
      /\ transfers' = [f \in Findings |->
            IF f \in moved THEN Append(transfers[f], Move(f, dest)) ELSE transfers[f]]
      /\ UNCHANGED <<rectifications, closures>>
    BY DEF DoPatchPeriod
<1>10. moved # {} => dest \in Periods /\ InUse(dest)
    <2>1. moved # {} => dest \in Destinations(p, at)
        OBVIOUS
    <2> HIDE DEF dest, at, moved
    <2>2. moved # {} => dest \in Periods /\ period[dest].status = "OPEN"
        BY <2>1 DEF Destinations
    <2> QED
        BY <2>2 DEF InUse, NoPeriod
<1>11. \A f \in moved : f \in Findings /\ Exists(f)
    BY DEF Sweepable, InPeriod
<1> HIDE DEF at, drafts, status, dests, dest, moved
<1>12. ASSUME NEW f \in Findings
       PROVE  /\ finding'[f] \in LooseRow \cup {NoFinding} /\ transfers'[f] \in Seq(LooseMove)
              /\ IsPrefix(transfers[f], transfers'[f])
              /\ LooseFit(finding'[f], rectifications[f], closures[f], transfers'[f], period')
    <2>1. transfers[f] \in Seq(LooseMove) /\ finding[f] \in LooseRow \cup {NoFinding}
        BY DEF TablesHold, LooseTypes
    <2>2. LooseFit(finding[f], rectifications[f], closures[f], transfers[f], period)
        BY DEF TablesHold, AllFit
    <2>3. CASE f \in moved
        <3>1. Exists(f) /\ dest \in Periods /\ InUse(dest)
            BY <1>10, <1>11, <2>3
        <3>2. finding'[f] = Transferred(f, dest) /\ transfers'[f] = Append(transfers[f], Move(f, dest))
            BY <1>9, <2>3
        <3>3. /\ finding'[f] \in LooseRow /\ finding'[f].period = dest
              /\ finding'[f].rectified = finding[f].rectified
              /\ finding'[f].closed = finding[f].closed
              /\ transfers'[f] \in Seq(LooseMove) /\ IsPrefix(transfers[f], transfers'[f])
            BY <3>1, <3>2, MovedRow
        <3>4. finding'[f] # NoFinding
            BY <3>3 DEF LooseRow, NoFinding
        <3> QED
            BY <1>8, <2>2, <3>1, <3>3, <3>4 DEF LooseFit, Exists
    <2>4. CASE f \notin moved
        <3>1. finding'[f] = finding[f] /\ transfers'[f] = transfers[f]
            BY <1>9, <2>4
        <3>2. finding[f] # NoFinding => period'[finding[f].period] # NoPeriod
            BY <1>8, LooselyKnown DEF Exists
        <3>3. IsPrefix(transfers[f], transfers[f])
            BY <2>1, RowsKept
        <3> QED
            BY <2>1, <2>2, <3>1, <3>2, <3>3 DEF LooseFit
    <2> QED
        BY <2>3, <2>4
<1>13. LooseTypes'
    BY <1>9, <1>12 DEF TablesHold, LooseTypes
<1>14. AllFit'
    BY <1>9, <1>12 DEF AllFit
<1>15. AllTraced
    <2>1. SUFFICES ASSUME NEW f \in Findings PROVE Traced(f)
        BY DEF AllTraced
    <2>2. /\ rectifications[f] \in Seq(LooseRectification) /\ closures[f] \in Seq(LooseClosure)
          /\ rectifications' = rectifications /\ closures' = closures
        BY <1>9, LooseLedgers
    <2>3. IsPrefix(rectifications[f], rectifications[f]) /\ IsPrefix(closures[f], closures[f])
        BY <2>2, RowsKept
    <2> QED
        BY <1>12, <2>2, <2>3 DEF Traced, Longer
<1> QED
    BY <1>8, <1>13, <1>14, <1>15 DEF TablesHold

-----------------------------------------------------------------------------
(* The first half of a request, and a request that fails. *)

\* Only the tables matter to what holds of them.
LEMMA TablesAside ==
    ASSUME TablesHold, UNCHANGED tables
    PROVE  TablesHold' /\ AllTraced
<1>1. /\ finding' = finding /\ period' = period /\ rectifications' = rectifications
      /\ closures' = closures /\ transfers' = transfers
    BY DEF tables
<1>2. TablesHold'
    BY <1>1 DEF TablesHold, LooseTypes, PeriodsOK, AllFit
<1>3. AllTraced
    <2>1. SUFFICES ASSUME NEW f \in Findings PROVE Traced(f)
        BY DEF AllTraced
    <2> QED
        BY <1>1, KeptIsTraced DEF Traced
<1> QED
    BY <1>2, <1>3

\* A request begins: it is remembered with what it read, and no table changes.
LEMMA BeginsWell ==
    ASSUME CInv, NEW w \in Workers, NEW r, Begins(w, r), WellAsked(r)
    PROVE  CInv' /\ AllTraced
<1>1. TablesHold' /\ AllTraced
    BY TablesAside DEF CInv, Begins
<1>2. pending' = [pending EXCEPT ![w] = r]
    BY DEF Begins
<1>3. PendingHolds'
    <2>1. DOMAIN pending' = Workers
        BY <1>2 DEF CInv, PendingHolds
    <2>2. SUFFICES ASSUME NEW v \in Workers PROVE WellAsked(pending'[v])
        BY <2>1 DEF PendingHolds, WellAsked
    <2>3. pending'[v] = r \/ pending'[v] = pending[v]
        BY <1>2 DEF CInv, PendingHolds
    <2> QED
        BY <2>3 DEF CInv, PendingHolds
<1> QED
    BY <1>1, <1>3 DEF CInv

\* What is asked of the second half when it is asked
LEMMA WellAskedOnFinding ==
    ASSUME CInv, NEW w \in Workers, NEW u \in Users, NEW f \in Findings, BeginOnFinding(w, u, f)
    PROVE  CInv' /\ AllTraced
<1>1. CASE BeginCreate(w, u, f)
    <2>1. PICK p \in Periods, total \in Totals, submit \in BOOLEAN :
              Begins(w, Asks("create", u, f, [period |-> p, total |-> total, submit |-> submit]))
        BY <1>1 DEF BeginCreate
    <2>2. total \in Quantity
        BY InputsAssumption
    <2>3. WellAsked(Asks("create", u, f, [period |-> p, total |-> total, submit |-> submit]))
        BY <2>2 DEF WellAsked, Asks
    <2> QED
        BY <2>1, <2>3, BeginsWell
<1>2. CASE BeginEdit(w, u, f)
    <2>1. PICK q \in Periods, changes \in Changes :
              Begins(w, Asks("edit", u, f, [period |-> q, changes |-> changes]))
        BY <1>2 DEF BeginEdit
    <2>2. WellAsked(Asks("edit", u, f, [period |-> q, changes |-> changes]))
        BY DEF WellAsked, Asks
    <2> QED
        BY <2>1, <2>2, BeginsWell
<1>3. CASE BeginReview(w, u, f)
    <2>1. PICK stage \in Stages, decision \in Decisions :
              Begins(w, Asks("review", u, f, [stage |-> stage, decision |-> decision]))
        BY <1>3 DEF BeginReview
    <2>2. WellAsked(Asks("review", u, f, [stage |-> stage, decision |-> decision]))
        BY DEF WellAsked, Asks
    <2> QED
        BY <2>1, <2>2, BeginsWell
<1>4. CASE BeginRectify(w, u, f)
    <2>1. PICK n \in Entries : Begins(w, Asks("rectify", u, f, n))
        BY <1>4 DEF BeginRectify
    <2>2. n \in Amount
        BY InputsAssumption DEF Entries, Amount
    <2>3. WellAsked(Asks("rectify", u, f, n))
        BY <2>2 DEF WellAsked, Asks
    <2> QED
        BY <2>1, <2>3, BeginsWell
<1>5. CASE CanVerify(u, f) /\ Begins(w, Asks("verify", u, f, Verifiable(f)))
    <2>1. Verifiable(f) \in Amount
        <3>1. finding[f].rectified \in Amount /\ finding[f].verified \in Amount
            BY <1>5, LooselyKnown DEF CanVerify, CInv
        <3> QED
            BY <3>1, AmountMinus DEF Verifiable
    <2>2. WellAsked(Asks("verify", u, f, Verifiable(f)))
        BY <2>1 DEF WellAsked, Asks
    <2> QED
        BY <1>5, <2>2, BeginsWell
<1>6. CASE CanClose(u, f) /\ Begins(w, Asks("close", u, f, Closable(f)))
    <2>1. Closable(f) \in Amount
        <3>1. /\ finding[f].rectified \in Amount /\ finding[f].verified \in Amount
              /\ finding[f].closed \in Amount
            BY <1>6, LooselyKnown DEF CanClose, CInv
        <3>2. Least(finding[f].rectified, finding[f].verified) \in Amount
            BY <3>1 DEF Least, Amount
        <3> QED
            BY <3>1, <3>2, AmountMinus DEF Closable
    <2>2. WellAsked(Asks("close", u, f, Closable(f)))
        BY <2>1 DEF WellAsked, Asks
    <2> QED
        BY <1>6, <2>2, BeginsWell
<1>7. CASE BeginTransfer(w, u, f)
    <2>1. PICK q \in Periods : Begins(w, Asks("transfer", u, f, q))
        BY <1>7 DEF BeginTransfer
    <2>2. WellAsked(Asks("transfer", u, f, q))
        BY DEF WellAsked, Asks
    <2> QED
        BY <2>1, <2>2, BeginsWell
<1>8. ASSUME NEW op \in {"delete", "submit", "return", "resubmit", "reopen"},
             Begins(w, Asks(op, u, f, {}))
      PROVE  CInv' /\ AllTraced
    <2>1. WellAsked(Asks(op, u, f, {}))
        BY DEF WellAsked, Asks
    <2> QED
        BY <1>8, <2>1, BeginsWell
<1> QED
    BY <1>1, <1>2, <1>3, <1>4, <1>5, <1>6, <1>7, <1>8 DEF BeginOnFinding

\* ... and of a request on a period
LEMMA WellAskedOnPeriod ==
    ASSUME CInv, NEW w \in Workers, NEW u \in Users, NEW p \in Periods, BeginOnPeriod(w, u, p)
    PROVE  CInv' /\ AllTraced
<1>1. CASE \E at \in Dates : Begins(w, Asks("create-period", u, p, at))
    <2>1. PICK at \in Dates : Begins(w, Asks("create-period", u, p, at))
        BY <1>1
    <2>2. WellAsked(Asks("create-period", u, p, at))
        BY DEF WellAsked, Asks
    <2> QED
        BY <2>1, <2>2, BeginsWell
<1>2. CASE BeginPatchPeriod(w, u, p)
    <2>1. PICK req \in PatchRequests, sweep \in BOOLEAN :
              Begins(w, Asks("patch-period", u, p,
                        [req |-> req, changes |-> ChangesStatus(p, req), sweep |-> sweep]))
        BY <1>2 DEF BeginPatchPeriod
    <2>2. ChangesStatus(p, req) => req.status # "KEEP"
        BY DEF ChangesStatus
    <2> HIDE DEF ChangesStatus
    <2>3. WellAsked(Asks("patch-period", u, p,
                         [req |-> req, changes |-> ChangesStatus(p, req), sweep |-> sweep]))
        BY <2>2 DEF WellAsked, Asks
    <2> QED
        BY <2>1, <2>3, BeginsWell
<1>3. CASE Begins(w, Asks("delete-period", u, p, {}))
    <2>1. WellAsked(Asks("delete-period", u, p, {}))
        BY DEF WellAsked, Asks
    <2> QED
        BY <1>3, <2>1, BeginsWell
<1> QED
    BY <1>1, <1>2, <1>3 DEF BeginOnPeriod

-----------------------------------------------------------------------------
(* The second half. *)

\* Every write on a finding keeps the tables, whatever happened since its read.
LEMMA CommitFinding ==
    ASSUME CInv, NEW w \in Workers, CommitOnFinding(w)
    PROVE  TablesHold' /\ AllTraced
<1> DEFINE u == pending[w].by
           f == pending[w].of
           arg == pending[w].arg
<1>1. TablesHold /\ WellAsked(pending[w])
    BY DEF CInv, PendingHolds
<1>2. CASE /\ Asked(w, "create") /\ ~Exists(f) /\ InUse(arg.period)
           /\ DoCreate(u, f, arg.period, arg.total, <<>>, arg.submit)
    <2>1. f \in Findings /\ u \in Users /\ arg.period \in Periods /\ arg.total \in Quantity
        BY <1>1, <1>2 DEF WellAsked, Asked
    <2> HIDE DEF f, u, arg
    <2> QED
        BY <1>1, <1>2, <2>1, CreateCommit
<1>3. CASE Asked(w, "edit") /\ Exists(f) /\ InUse(arg.period) /\ DoEdit(f, arg.period, arg.changes)
    <2>1. f \in Findings /\ arg.period \in Periods /\ arg.changes \in Changes
        BY <1>1, <1>3 DEF WellAsked, Asked
    <2> HIDE DEF f, u, arg
    <2> QED
        BY <1>1, <1>3, <2>1, EditCommit
<1>4. CASE Asked(w, "delete") /\ DoDelete(f)
    <2>1. f \in Findings
        BY <1>1, <1>4 DEF WellAsked, Asked
    <2> HIDE DEF f, u, arg
    <2> QED
        BY <1>1, <1>4, <2>1, DeleteCommit
<1>5. CASE \/ Asked(w, "submit") /\ Exists(f) /\ DoSubmit(u, f)
           \/ Asked(w, "review") /\ Exists(f) /\ DoReview(f, arg.stage, arg.decision)
           \/ Asked(w, "return") /\ Exists(f) /\ DoReturn(f)
           \/ Asked(w, "resubmit") /\ Exists(f) /\ DoResubmit(f)
    <2>1. f \in Findings
        BY <1>1, <1>5 DEF WellAsked, Asked
    <2>2. Asked(w, "review") => arg.stage \in Stages /\ arg.decision \in Decisions
        BY <1>1 DEF WellAsked, Asked
    <2> HIDE DEF f, u, arg
    <2>3. \/ \E v : DoSubmit(v, f)
          \/ \E stage \in Stages, decision \in Decisions : DoReview(f, stage, decision)
          \/ DoReturn(f) \/ DoResubmit(f)
        BY <1>5, <2>2
    <2> QED
        BY <1>1, <1>5, <2>1, <2>3, StatusCommits
<1>6. CASE \/ Asked(w, "rectify") /\ Exists(f) /\ DoRectify(f, arg, {})
           \/ Asked(w, "verify") /\ Exists(f) /\ DoVerify(u, f, arg)
           \/ Asked(w, "close") /\ Exists(f) /\ DoClose(u, f, arg)
    <2>1. f \in Findings /\ arg \in Amount
        BY <1>1, <1>6 DEF WellAsked, Asked
    <2> HIDE DEF f, u, arg
    <2> QED
        BY <1>1, <1>6, <2>1, RectifyCommit, VerifyCommit, CloseCommit
<1>7. CASE Asked(w, "reopen") /\ CanReopen(u, f) /\ DoReopen(f)
    <2>1. f \in Findings
        BY <1>1, <1>7 DEF WellAsked, Asked
    <2> HIDE DEF f, u, arg
    <2> QED
        BY <1>1, <1>7, <2>1, ReopenCommit
<1>8. CASE Asked(w, "transfer") /\ Exists(f) /\ InUse(arg) /\ DoTransfer(f, arg)
    <2>1. f \in Findings /\ arg \in Periods
        BY <1>1, <1>8 DEF WellAsked, Asked
    <2> HIDE DEF f, u, arg
    <2> QED
        BY <1>1, <1>8, <2>1, TransferCommit
<1> QED
    BY <1>2, <1>3, <1>4, <1>5, <1>6, <1>7, <1>8 DEF CommitOnFinding

\* Every write on a period does so too.
LEMMA CommitPeriod ==
    ASSUME CInv, NEW w \in Workers, CommitOnPeriod(w)
    PROVE  TablesHold' /\ AllTraced
<1> DEFINE p == pending[w].of
           arg == pending[w].arg
<1>1. TablesHold /\ WellAsked(pending[w])
    BY DEF CInv, PendingHolds
<1>2. CASE Asked(w, "create-period") /\ DoCreatePeriod(p, arg)
    <2>1. p \in Periods /\ arg \in Dates
        BY <1>1, <1>2 DEF WellAsked, Asked
    <2> HIDE DEF p, arg
    <2> QED
        BY <1>1, <1>2, <2>1, CreatePeriodCommit
<1>3. CASE /\ Asked(w, "patch-period") /\ InUse(p)
           /\ DoPatchPeriod(p, arg.req, arg.changes, arg.sweep)
    <2>1. p \in Periods /\ arg.req \in PatchRequests /\ (arg.changes => arg.req.status # "KEEP")
        BY <1>1, <1>3 DEF WellAsked, Asked
    <2> HIDE DEF p, arg
    <2> QED
        BY <1>1, <1>3, <2>1, PatchPeriodCommit
<1>4. CASE Asked(w, "delete-period") /\ Unheld(p) /\ DoDeletePeriod(p)
    <2>1. p \in Periods
        BY <1>1, <1>4 DEF WellAsked, Asked
    <2> HIDE DEF p, arg
    <2> QED
        BY <1>1, <1>4, <2>1, DeletePeriodCommit
<1> QED
    BY <1>2, <1>3, <1>4 DEF CommitOnPeriod

\* A request that is over asks for nothing.
LEMMA OverAndDone ==
    ASSUME PendingHolds, NEW w \in Workers, pending' = [pending EXCEPT ![w] = Idle]
    PROVE  PendingHolds'
<1>1. WellAsked(Idle)
    BY DEF WellAsked, Idle
<1>2. DOMAIN pending' = Workers
    BY DEF PendingHolds
<1>3. SUFFICES ASSUME NEW v \in Workers PROVE WellAsked(pending'[v])
    BY <1>2 DEF PendingHolds, WellAsked
<1>4. pending'[v] = Idle \/ pending'[v] = pending[v]
    BY DEF PendingHolds
<1> QED
    BY <1>1, <1>4 DEF PendingHolds

\* At first no request is under way.
LEMMA InitCInv == CInit => CInv
<1> SUFFICES ASSUME CInit PROVE CInv
    OBVIOUS
<1>1. PendingHolds
    BY DEF CInit, PendingHolds, WellAsked, Idle
<1>2. LooseTypes /\ PeriodsOK
    <2>1. <<>> \in Seq(LooseRectification) /\ <<>> \in Seq(LooseClosure) /\ <<>> \in Seq(LooseMove)
        BY EmptySeq
    <2> QED
        BY <2>1 DEF CInit, TablesInit, LooseTypes, PeriodsOK
<1>3. AllFit
    BY DEF CInit, TablesInit, AllFit, LooseFit
<1> QED
    BY <1>1, <1>2, <1>3 DEF CInv, TablesHold

\* Every step keeps the invariant, and of every finding its history - or
\* starts it over as a whole.
LEMMA StepCInv == CInv /\ [CNext]_vars => CInv' /\ AllTraced
<1> SUFFICES ASSUME CInv, [CNext]_vars PROVE CInv' /\ AllTraced
    OBVIOUS
<1>1. ASSUME NEW w \in Workers, Begin(w) PROVE CInv' /\ AllTraced
    BY <1>1, WellAskedOnFinding, WellAskedOnPeriod DEF Begin
<1>2. ASSUME NEW w \in Workers, Commit(w) PROVE CInv' /\ AllTraced
    <2>1. TablesHold' /\ AllTraced
        BY <1>2, CommitFinding, CommitPeriod DEF Commit
    <2>2. PendingHolds'
        BY <1>2, OverAndDone DEF Commit, CInv
    <2> QED
        BY <2>1, <2>2 DEF CInv
<1>3. ASSUME NEW w \in Workers, Fail(w) PROVE CInv' /\ AllTraced
    <2>1. TablesHold' /\ AllTraced
        BY <1>3, TablesAside DEF Fail, CInv
    <2>2. PendingHolds'
        BY <1>3, OverAndDone DEF Fail, CInv
    <2> QED
        BY <2>1, <2>2 DEF CInv
<1>4. CASE UNCHANGED vars
    <2>1. TablesHold' /\ AllTraced
        BY <1>4, TablesAside DEF vars, CInv
    <2>2. PendingHolds'
        BY <1>4 DEF vars, CInv, PendingHolds, WellAsked
    <2> QED
        BY <2>1, <2>2 DEF CInv
<1> QED
    BY <1>1, <1>2, <1>3, <1>4 DEF CNext

-----------------------------------------------------------------------------
(* The theorems. *)

\* The inductive invariant of overlapping requests: whatever a first half
\* decided and whoever commits in between, the ledgers add up and periods stay.
THEOREM OverlapInductive == ConcurrentSpec => []CInv
<1>1. CInit => CInv
    BY InitCInv
<1>2. CInv /\ [CNext]_vars => CInv'
    BY StepCInv
<1> QED
    BY <1>1, <1>2, PTL DEF ConcurrentSpec

\* However requests overlap, the closure and rectification rows of a finding
\* add up to its closed and rectified figures - also when a counter passes
\* the one it should stay under (FindingWorkflow, LedgerMatchesCounters).
THEOREM OverlappingLedgersAddUp == ConcurrentSpec => []LedgerMatchesCounters
<1>1. CInv => LedgerMatchesCounters
    BY LooselyKnown DEF CInv, LedgerMatchesCounters, Present
<1> QED
    BY <1>1, OverlapInductive, PTL

\* No finding is left in a period that was deleted while it was on its way
\* there: the commit of the move or of the deletion is refused.
THEOREM PeriodsOutlastFindings == ConcurrentSpec => []CurrentPeriodExists
<1>1. CInv => CurrentPeriodExists
    BY LooselyKnown DEF CInv, CurrentPeriodExists, Present
<1> QED
    BY <1>1, OverlapInductive, PTL

\* No interleaving drops or rewrites a row of a ledger: history grows, or a
\* reopening wipes it as a whole.
THEOREM HistoryIsKept == ConcurrentSpec => HistoryKept
<1> DEFINE KeptOrWiped ==
        \A f \in Findings : Exists(f) /\ Exists(f)' =>
          /\ IsPrefix(transfers[f], transfers'[f])
          /\ \/ /\ IsPrefix(rectifications[f], rectifications'[f])
                /\ IsPrefix(closures[f], closures'[f])
             \/ /\ rectifications'[f] = <<>> /\ closures'[f] = <<>>
                /\ finding'[f].closed = Zero
<1>1. AllTraced => KeptOrWiped
    BY DEF AllTraced, Traced, Longer, Restarted
<1>2. CInv /\ [CNext]_vars => [KeptOrWiped]_vars
    BY <1>1, StepCInv
<1> QED
    BY <1>2, OverlapInductive, PTL DEF ConcurrentSpec, HistoryKept

\* A ledger is only ever cut by a reopening that is complete, in a period
\* that accepts changes - whatever else was under way.
THEOREM ReopeningIsWhole == ConcurrentSpec => ReopenIsWhole
<1> DEFINE Whole ==
        \A f \in Findings :
          /\ Exists(f) /\ Exists(f)'
          /\ \/ ~IsPrefix(rectifications[f], rectifications'[f])
             \/ ~IsPrefix(closures[f], closures'[f])
          =>
          /\ finding'[f].status = "SENT_TO_BRANCH_MANAGER"
          /\ finding'[f].rectified = Zero /\ finding'[f].verified = Zero
          /\ period[finding[f].period].status = "OPEN"
<1>1. AllTraced => Whole
    BY DEF AllTraced, Traced, Longer, Restarted
<1>2. CInv /\ [CNext]_vars => [Whole]_vars
    BY <1>1, StepCInv
<1> QED
    BY <1>2, OverlapInductive, PTL DEF ConcurrentSpec, ReopenIsWhole

-----------------------------------------------------------------------------
(* Alone, a request decides and writes on the same tables. *)

\* What a request under way asks for is still what its checks let pass.
Meant(w) ==
    LET u == pending[w].by
        x == pending[w].of
        arg == pending[w].arg
    IN  /\ u \in Users
        /\ Asked(w, "create") =>
              /\ x \in Findings /\ arg.period \in Periods /\ arg.total \in Totals /\ arg.submit \in BOOLEAN
              /\ CanCreate(u, x, arg.period, arg.total, <<>>, arg.submit)
        /\ Asked(w, "edit") =>
              /\ x \in Findings /\ arg.period \in Periods /\ arg.changes \in Changes
              /\ CanEdit(u, x, arg.period, arg.changes)
        /\ Asked(w, "delete") => x \in Findings /\ CanDelete(u, x)
        /\ Asked(w, "submit") => x \in Findings /\ CanSubmit(u, x)
        /\ Asked(w, "review") =>
              /\ x \in Findings /\ arg.stage \in Stages /\ arg.decision \in Decisions
              /\ CanReview(u, x, arg.stage, arg.decision)
        /\ Asked(w, "rectify") => x \in Findings /\ arg \in Entries /\ CanRectify(u, x, arg)
        /\ Asked(w, "verify") => x \in Findings /\ CanVerify(u, x) /\ arg = Verifiable(x)
        /\ Asked(w, "close") => x \in Findings /\ CanClose(u, x) /\ arg = Closable(x)
        /\ Asked(w, "return") => x \in Findings /\ CanReturn(u, x)
        /\ Asked(w, "resubmit") => x \in Findings /\ CanResubmit(u, x)
        /\ Asked(w, "reopen") => x \in Findings
        /\ Asked(w, "transfer") => x \in Findings /\ arg \in Periods /\ CanTransfer(u, x, arg)
        /\ Asked(w, "create-period") => x \in Periods /\ arg \in Dates /\ CanCreatePeriod(u, x, arg)
        /\ Asked(w, "patch-period") =>
              /\ x \in Periods /\ arg.req \in PatchRequests /\ arg.sweep \in BOOLEAN
              /\ CanPatchPeriod(u, x, arg.req) /\ arg.changes = ChangesStatus(x, arg.req)
        /\ Asked(w, "delete-period") => x \in Periods /\ CanDeletePeriod(u, x)

\* One worker, and it stands by what it decided.
AloneInv(w) ==
    /\ DOMAIN pending = {w}
    /\ pending[w] # Idle => Meant(w)

\* What a request says of itself
LEMMA AsksSays ==
    ASSUME NEW op, NEW u, NEW x, NEW arg
    PROVE  /\ Asks(op, u, x, arg).op = op /\ Asks(op, u, x, arg).by = u
           /\ Asks(op, u, x, arg).of = x /\ Asks(op, u, x, arg).arg = arg
BY DEF Asks

\* As long as nothing is written, what the checks of a finding found stands.
LEMMA FindingChecksStand ==
    ASSUME UNCHANGED tables, NEW u, NEW f
    PROVE  /\ \A p, total, items, submit :
                 CanCreate(u, f, p, total, items, submit) => CanCreate(u, f, p, total, items, submit)'
           /\ \A q, changes : CanEdit(u, f, q, changes) => CanEdit(u, f, q, changes)'
           /\ CanDelete(u, f) => CanDelete(u, f)'
           /\ CanSubmit(u, f) => CanSubmit(u, f)'
           /\ \A stage, decision : CanReview(u, f, stage, decision) => CanReview(u, f, stage, decision)'
           /\ \A n : CanRectify(u, f, n) => CanRectify(u, f, n)'
           /\ CanVerify(u, f) => CanVerify(u, f)'
           /\ Verifiable(f)' = Verifiable(f)
           /\ CanClose(u, f) => CanClose(u, f)'
           /\ Closable(f)' = Closable(f)
           /\ CanReturn(u, f) => CanReturn(u, f)'
           /\ CanResubmit(u, f) => CanResubmit(u, f)'
           /\ \A q : CanTransfer(u, f, q) => CanTransfer(u, f, q)'
<1> USE DEF tables, Exists, NoFinding, InUse, NoPeriod, PeriodWritable
<1>1. \A p, total, items, submit :
          CanCreate(u, f, p, total, items, submit) => CanCreate(u, f, p, total, items, submit)'
    BY DEF CanCreate, Registrable, OpenForSubmission
<1>2. \A q, changes : CanEdit(u, f, q, changes) => CanEdit(u, f, q, changes)'
    BY DEF CanEdit, Movable
<1>3. CanDelete(u, f) => CanDelete(u, f)'
    BY DEF CanDelete
<1>4. CanSubmit(u, f) => CanSubmit(u, f)'
    BY DEF CanSubmit, OpenForSubmission
<1>5. \A stage, decision : CanReview(u, f, stage, decision) => CanReview(u, f, stage, decision)'
    BY DEF CanReview
<1>6. HasRoom(f)' = HasRoom(f)
    BY DEF HasRoom
<1>7. Outstanding(f)' = Outstanding(f) /\ Verifiable(f)' = Verifiable(f) /\ Closable(f)' = Closable(f)
    BY DEF Outstanding, Verifiable, Closable
<1>8. \A n : CanRectify(u, f, n) => CanRectify(u, f, n)'
    BY <1>6, <1>7 DEF CanRectify, MayRectify, ExhaustsTogether
<1>9. CanVerify(u, f) => CanVerify(u, f)'
    BY <1>7 DEF CanVerify
<1>10. CanClose(u, f) => CanClose(u, f)'
    BY <1>6, <1>7 DEF CanClose
<1>11. CanReturn(u, f) => CanReturn(u, f)'
    BY DEF CanReturn, MayReturn, SignedOff, RectifiedSinceTransfer
<1>12. CanResubmit(u, f) => CanResubmit(u, f)'
    BY DEF CanResubmit
<1>13. \A q : CanTransfer(u, f, q) => CanTransfer(u, f, q)'
    BY <1>6 DEF CanTransfer, Onward
<1> QED
    BY <1>1, <1>2, <1>3, <1>4, <1>5, <1>7, <1>8, <1>9, <1>10, <1>11, <1>12, <1>13

\* So does what the checks of a period found.
LEMMA PeriodChecksStand ==
    ASSUME UNCHANGED tables, NEW u, NEW p
    PROVE  /\ \A at : CanCreatePeriod(u, p, at) => CanCreatePeriod(u, p, at)'
           /\ \A req : CanPatchPeriod(u, p, req) => CanPatchPeriod(u, p, req)'
           /\ \A req : ChangesStatus(p, req)' = ChangesStatus(p, req)
           /\ CanDeletePeriod(u, p) => CanDeletePeriod(u, p)'
<1> USE DEF tables, Exists, NoFinding, InUse, NoPeriod
<1>1. InPeriod(p)' = InPeriod(p) /\ \A at : FreeDate(p, at)' = FreeDate(p, at)
    BY DEF InPeriod, FreeDate
<1>2. NamedBy(p)' = NamedBy(p)
    BY DEF NamedBy, InWork, InTransfers
<1>3. \A at : CanCreatePeriod(u, p, at) => CanCreatePeriod(u, p, at)'
    BY <1>1 DEF CanCreatePeriod
<1>4. \A req : CanPatchPeriod(u, p, req) => CanPatchPeriod(u, p, req)'
    BY <1>1 DEF CanPatchPeriod
<1>5. \A req : ChangesStatus(p, req)' = ChangesStatus(p, req)
    BY DEF ChangesStatus
<1>6. CanDeletePeriod(u, p) => CanDeletePeriod(u, p)'
    BY <1>1, <1>2 DEF CanDeletePeriod
<1> QED
    BY <1>3, <1>4, <1>5, <1>6

\* Each check that passes makes a request that stands.
LEMMA BeginsMeant ==
    ASSUME NEW w, AloneInv(w), Begin(w)
    PROVE  AloneInv(w)' /\ UNCHANGED tables
<1>1. w \in DOMAIN pending /\ DOMAIN pending = {w}
    BY DEF AloneInv
<1>2. ASSUME NEW op, NEW u, NEW x, NEW arg, Begins(w, Asks(op, u, x, arg))
      PROVE  /\ pending'[w].op = op /\ pending'[w].by = u /\ pending'[w].of = x /\ pending'[w].arg = arg
             /\ DOMAIN pending' = {w} /\ UNCHANGED tables
    <2>1. pending'[w] = Asks(op, u, x, arg) /\ DOMAIN pending' = {w} /\ UNCHANGED tables
        BY <1>1, <1>2 DEF Begins
    <2> QED
        BY <2>1, AsksSays
<1>3. PICK u \in Users :
          \/ \E f \in Findings : BeginOnFinding(w, u, f)
          \/ \E p \in Periods : BeginOnPeriod(w, u, p)
    BY DEF Begin
<1>4. ASSUME NEW f \in Findings, BeginOnFinding(w, u, f) PROVE AloneInv(w)' /\ UNCHANGED tables
    <2>1. CASE BeginCreate(w, u, f)
        <3>1. PICK p \in Periods, total \in Totals, submit \in BOOLEAN :
                /\ CanCreate(u, f, p, total, <<>>, submit)
                /\ Begins(w, Asks("create", u, f, [period |-> p, total |-> total, submit |-> submit]))
            BY <2>1 DEF BeginCreate
        <3>2. PICK arg : arg = [period |-> p, total |-> total, submit |-> submit]
            OBVIOUS
        <3>3. /\ pending'[w].op = "create" /\ pending'[w].by = u /\ pending'[w].of = f /\ pending'[w].arg = arg
              /\ DOMAIN pending' = {w} /\ UNCHANGED tables
            BY <1>2, <3>1, <3>2
        <3>4. CanCreate(u, f, p, total, <<>>, submit)'
            BY <3>1, <3>3, FindingChecksStand
        <3>5. arg.period = p /\ arg.total = total /\ arg.submit = submit
            BY <3>2
        <3> QED
            BY <3>3, <3>4, <3>5 DEF AloneInv, Meant, Asked
    <2>2. CASE BeginEdit(w, u, f)
        <3>1. PICK q \in Periods, changes \in Changes :
                CanEdit(u, f, q, changes) /\ Begins(w, Asks("edit", u, f, [period |-> q, changes |-> changes]))
            BY <2>2 DEF BeginEdit
        <3>2. PICK arg : arg = [period |-> q, changes |-> changes]
            OBVIOUS
        <3>3. /\ pending'[w].op = "edit" /\ pending'[w].by = u /\ pending'[w].of = f /\ pending'[w].arg = arg
              /\ DOMAIN pending' = {w} /\ UNCHANGED tables
            BY <1>2, <3>1, <3>2
        <3>4. CanEdit(u, f, q, changes)'
            BY <3>1, <3>3, FindingChecksStand
        <3>5. arg.period = q /\ arg.changes = changes
            BY <3>2
        <3> QED
            BY <3>3, <3>4, <3>5 DEF AloneInv, Meant, Asked
    <2>3. CASE BeginReview(w, u, f)
        <3>1. PICK stage \in Stages, decision \in Decisions :
                /\ CanReview(u, f, stage, decision)
                /\ Begins(w, Asks("review", u, f, [stage |-> stage, decision |-> decision]))
            BY <2>3 DEF BeginReview
        <3>2. PICK arg : arg = [stage |-> stage, decision |-> decision]
            OBVIOUS
        <3>3. /\ pending'[w].op = "review" /\ pending'[w].by = u /\ pending'[w].of = f /\ pending'[w].arg = arg
              /\ DOMAIN pending' = {w} /\ UNCHANGED tables
            BY <1>2, <3>1, <3>2
        <3>4. CanReview(u, f, stage, decision)'
            BY <3>1, <3>3, FindingChecksStand
        <3>5. arg.stage = stage /\ arg.decision = decision
            BY <3>2
        <3> QED
            BY <3>3, <3>4, <3>5 DEF AloneInv, Meant, Asked
    <2>4. CASE BeginRectify(w, u, f)
        <3>1. PICK n \in Entries : CanRectify(u, f, n) /\ Begins(w, Asks("rectify", u, f, n))
            BY <2>4 DEF BeginRectify
        <3>2. /\ pending'[w].op = "rectify" /\ pending'[w].by = u /\ pending'[w].of = f /\ pending'[w].arg = n
              /\ DOMAIN pending' = {w} /\ UNCHANGED tables
            BY <1>2, <3>1
        <3>3. CanRectify(u, f, n)'
            BY <3>1, <3>2, FindingChecksStand
        <3> QED
            BY <3>1, <3>2, <3>3 DEF AloneInv, Meant, Asked
    <2>5. CASE BeginTransfer(w, u, f)
        <3>1. PICK q \in Periods : CanTransfer(u, f, q) /\ Begins(w, Asks("transfer", u, f, q))
            BY <2>5 DEF BeginTransfer
        <3>2. /\ pending'[w].op = "transfer" /\ pending'[w].by = u /\ pending'[w].of = f /\ pending'[w].arg = q
              /\ DOMAIN pending' = {w} /\ UNCHANGED tables
            BY <1>2, <3>1
        <3>3. CanTransfer(u, f, q)'
            BY <3>1, <3>2, FindingChecksStand
        <3> QED
            BY <3>1, <3>2, <3>3 DEF AloneInv, Meant, Asked
    <2>6. CASE CanVerify(u, f) /\ Begins(w, Asks("verify", u, f, Verifiable(f)))
        <3>1. /\ pending'[w].op = "verify" /\ pending'[w].by = u /\ pending'[w].of = f
              /\ pending'[w].arg = Verifiable(f) /\ DOMAIN pending' = {w} /\ UNCHANGED tables
            BY <1>2, <2>6
        <3>2. CanVerify(u, f)' /\ Verifiable(f)' = Verifiable(f)
            BY <2>6, <3>1, FindingChecksStand
        <3> QED
            BY <3>1, <3>2 DEF AloneInv, Meant, Asked
    <2>7. CASE CanClose(u, f) /\ Begins(w, Asks("close", u, f, Closable(f)))
        <3>1. /\ pending'[w].op = "close" /\ pending'[w].by = u /\ pending'[w].of = f
              /\ pending'[w].arg = Closable(f) /\ DOMAIN pending' = {w} /\ UNCHANGED tables
            BY <1>2, <2>7
        <3>2. CanClose(u, f)' /\ Closable(f)' = Closable(f)
            BY <2>7, <3>1, FindingChecksStand
        <3> QED
            BY <3>1, <3>2 DEF AloneInv, Meant, Asked
    <2>8. ASSUME NEW op \in {"delete", "submit", "return", "resubmit", "reopen"}, Begins(w, Asks(op, u, f, {})),
                 /\ op = "delete" => CanDelete(u, f)
                 /\ op = "submit" => CanSubmit(u, f)
                 /\ op = "return" => CanReturn(u, f)
                 /\ op = "resubmit" => CanResubmit(u, f)
          PROVE  AloneInv(w)' /\ UNCHANGED tables
        <3>1. /\ pending'[w].op = op /\ pending'[w].by = u /\ pending'[w].of = f
              /\ DOMAIN pending' = {w} /\ UNCHANGED tables
            BY <1>2, <2>8
        <3>2. /\ op = "delete" => CanDelete(u, f)'
              /\ op = "submit" => CanSubmit(u, f)'
              /\ op = "return" => CanReturn(u, f)'
              /\ op = "resubmit" => CanResubmit(u, f)'
            BY <2>8, <3>1, FindingChecksStand
        <3> QED
            BY <3>1, <3>2 DEF AloneInv, Meant, Asked
    <2> QED
        BY <1>4, <2>1, <2>2, <2>3, <2>4, <2>5, <2>6, <2>7, <2>8 DEF BeginOnFinding
<1>5. ASSUME NEW p \in Periods, BeginOnPeriod(w, u, p) PROVE AloneInv(w)' /\ UNCHANGED tables
    <2>1. CASE \E at \in Dates : CanCreatePeriod(u, p, at) /\ Begins(w, Asks("create-period", u, p, at))
        <3>1. PICK at \in Dates : CanCreatePeriod(u, p, at) /\ Begins(w, Asks("create-period", u, p, at))
            BY <2>1
        <3>2. /\ pending'[w].op = "create-period" /\ pending'[w].by = u /\ pending'[w].of = p /\ pending'[w].arg = at
              /\ DOMAIN pending' = {w} /\ UNCHANGED tables
            BY <1>2, <3>1
        <3>3. CanCreatePeriod(u, p, at)'
            BY <3>1, <3>2, PeriodChecksStand
        <3> QED
            BY <3>1, <3>2, <3>3 DEF AloneInv, Meant, Asked
    <2>2. CASE BeginPatchPeriod(w, u, p)
        <3>1. PICK req \in PatchRequests, sweep \in BOOLEAN :
                /\ CanPatchPeriod(u, p, req)
                /\ Begins(w, Asks("patch-period", u, p,
                                  [req |-> req, changes |-> ChangesStatus(p, req), sweep |-> sweep]))
            BY <2>2 DEF BeginPatchPeriod
        <3>2. PICK arg : arg = [req |-> req, changes |-> ChangesStatus(p, req), sweep |-> sweep]
            OBVIOUS
        <3>3. /\ pending'[w].op = "patch-period" /\ pending'[w].by = u /\ pending'[w].of = p /\ pending'[w].arg = arg
              /\ DOMAIN pending' = {w} /\ UNCHANGED tables
            BY <1>2, <3>1, <3>2
        <3>4. CanPatchPeriod(u, p, req)' /\ ChangesStatus(p, req)' = ChangesStatus(p, req)
            BY <3>1, <3>3, PeriodChecksStand
        <3>5. arg.req = req /\ arg.changes = ChangesStatus(p, req) /\ arg.sweep = sweep
            BY <3>2
        <3> QED
            BY <3>3, <3>4, <3>5 DEF AloneInv, Meant, Asked
    <2>3. CASE CanDeletePeriod(u, p) /\ Begins(w, Asks("delete-period", u, p, {}))
        <3>1. /\ pending'[w].op = "delete-period" /\ pending'[w].by = u /\ pending'[w].of = p
              /\ DOMAIN pending' = {w} /\ UNCHANGED tables
            BY <1>2, <2>3
        <3>2. CanDeletePeriod(u, p)'
            BY <2>3, <3>1, PeriodChecksStand
        <3> QED
            BY <3>1, <3>2 DEF AloneInv, Meant, Asked
    <2> QED
        BY <1>5, <2>1, <2>2, <2>3 DEF BeginOnPeriod
<1> QED
    BY <1>3, <1>4, <1>5

\* However many requests there are, a commit of what still stands is the
\* workflow's step.
LEMMA CommitsAStep ==
    ASSUME NEW w, Meant(w), Commit(w)
    PROVE  Next
<1> DEFINE u == pending[w].by
           x == pending[w].of
           arg == pending[w].arg
<1>1. Meant(w) /\ u \in Users
    BY DEF Meant
<1>2. CASE CommitOnFinding(w)
    <2>1. CASE Asked(w, "create") /\ DoCreate(u, x, arg.period, arg.total, <<>>, arg.submit)
        <3>1. x \in Findings /\ Create(u, x)
            BY <1>1, <2>1, Zenon DEF Meant, Create
        <3> QED
            BY <1>1, <3>1, Zenon DEF Next, FindingStep
    <2>2. CASE Asked(w, "edit") /\ DoEdit(x, arg.period, arg.changes)
        <3>1. x \in Findings /\ Edit(u, x)
            BY <1>1, <2>2, Zenon DEF Meant, Edit
        <3> QED
            BY <1>1, <3>1, Zenon DEF Next, FindingStep
    <2>3. CASE Asked(w, "delete") /\ DoDelete(x)
        <3>1. x \in Findings /\ Delete(u, x)
            BY <1>1, <2>3, Zenon DEF Meant, Delete
        <3> QED
            BY <1>1, <3>1, Zenon DEF Next, FindingStep
    <2>4. CASE Asked(w, "submit") /\ DoSubmit(u, x)
        <3>1. x \in Findings /\ Submit(u, x)
            BY <1>1, <2>4, Zenon DEF Meant, Submit
        <3> QED
            BY <1>1, <3>1, Zenon DEF Next, FindingStep
    <2>5. CASE Asked(w, "review") /\ DoReview(x, arg.stage, arg.decision)
        <3>1. x \in Findings /\ Review(u, x)
            BY <1>1, <2>5, Zenon DEF Meant, Review
        <3> QED
            BY <1>1, <3>1, Zenon DEF Next, FindingStep
    <2>6. CASE Asked(w, "rectify") /\ DoRectify(x, arg, {})
        <3>1. x \in Findings /\ Rectify(u, x)
            BY <1>1, <2>6, Zenon DEF Meant, Rectify
        <3> QED
            BY <1>1, <3>1, Zenon DEF Next, FindingStep
    <2>7. CASE Asked(w, "verify") /\ DoVerify(u, x, arg)
        <3>1. x \in Findings /\ VerifyRectification(u, x)
            BY <1>1, <2>7, Zenon DEF Meant, VerifyRectification
        <3> QED
            BY <1>1, <3>1, Zenon DEF Next, FindingStep
    <2>8. CASE Asked(w, "close") /\ DoClose(u, x, arg)
        <3>1. x \in Findings /\ Close(u, x)
            BY <1>1, <2>8, Zenon DEF Meant, Close
        <3> QED
            BY <1>1, <3>1, Zenon DEF Next, FindingStep
    <2>9. CASE Asked(w, "return") /\ DoReturn(x)
        <3>1. x \in Findings /\ ReturnRectification(u, x)
            BY <1>1, <2>9, Zenon DEF Meant, ReturnRectification
        <3> QED
            BY <1>1, <3>1, Zenon DEF Next, FindingStep
    <2>10. CASE Asked(w, "resubmit") /\ DoResubmit(x)
        <3>1. x \in Findings /\ ResubmitRectification(u, x)
            BY <1>1, <2>10, Zenon DEF Meant, ResubmitRectification
        <3> QED
            BY <1>1, <3>1, Zenon DEF Next, FindingStep
    <2>11. CASE Asked(w, "reopen") /\ CanReopen(u, x) /\ DoReopen(x)
        <3>1. x \in Findings /\ Reopen(u, x)
            BY <1>1, <2>11, Zenon DEF Meant, Reopen
        <3> QED
            BY <1>1, <3>1, Zenon DEF Next, FindingStep
    <2>12. CASE Asked(w, "transfer") /\ DoTransfer(x, arg)
        <3>1. x \in Findings /\ Transfer(u, x)
            BY <1>1, <2>12, Zenon DEF Meant, Transfer
        <3> QED
            BY <1>1, <3>1, Zenon DEF Next, FindingStep
    <2> QED
        BY <1>2, <2>1, <2>2, <2>3, <2>4, <2>5, <2>6, <2>7, <2>8, <2>9, <2>10, <2>11, <2>12, Zenon
        DEF CommitOnFinding
<1>3. CASE CommitOnPeriod(w)
    <2>1. CASE Asked(w, "create-period") /\ DoCreatePeriod(x, arg)
        <3>1. x \in Periods /\ CreatePeriod(u, x)
            BY <1>1, <2>1, Zenon DEF Meant, CreatePeriod
        <3> QED
            BY <1>1, <3>1, Zenon DEF Next, PeriodStep
    <2>2. CASE Asked(w, "patch-period") /\ RoomToSweep(x) /\ DoPatchPeriod(x, arg.req, arg.changes, arg.sweep)
        <3>1. /\ x \in Periods /\ arg.req \in PatchRequests /\ arg.sweep \in BOOLEAN
              /\ CanPatchPeriod(u, x, arg.req) /\ arg.changes = ChangesStatus(x, arg.req)
            BY <1>1, <2>2, Zenon DEF Meant
        <3>2. DoPatchPeriod(x, arg.req, ChangesStatus(x, arg.req), arg.sweep)
            BY <2>2, <3>1, Zenon
        <3>3. PatchPeriod(u, x)
            BY <2>2, <3>1, <3>2, Zenon DEF PatchPeriod
        <3> QED
            BY <1>1, <3>1, <3>3, Zenon DEF Next, PeriodStep
    <2>3. CASE Asked(w, "delete-period") /\ DoDeletePeriod(x)
        <3>1. x \in Periods /\ DeletePeriod(u, x)
            BY <1>1, <2>3, Zenon DEF Meant, DeletePeriod
        <3> QED
            BY <1>1, <3>1, Zenon DEF Next, PeriodStep
    <2> QED
        BY <1>3, <2>1, <2>2, <2>3, Zenon DEF CommitOnPeriod
<1> QED
    BY <1>2, <1>3 DEF Commit

\* With one worker a step of this module is a step of the workflow or none.
LEMMA AloneStep ==
    ASSUME NEW v, Workers = {v}, AloneInv(v), [CNext]_vars
    PROVE  AloneInv(v)' /\ [Next]_tables
<1>1. CASE Begin(v)
    BY <1>1, BeginsMeant
<1>2. CASE Commit(v)
    <2>1. AloneInv(v)'
        BY <1>2 DEF AloneInv, Commit, Idle
    <2>2. Meant(v)
        BY <1>2 DEF AloneInv, Commit
    <2> QED
        BY <1>2, <2>1, <2>2, CommitsAStep
<1>3. CASE Fail(v)
    BY <1>3 DEF AloneInv, Fail, Idle
<1>4. CASE UNCHANGED vars
    <2>1. UNCHANGED tables /\ pending' = pending
        BY <1>4 DEF vars
    <2>2. ASSUME Meant(v) PROVE Meant(v)'
        <3>1. PICK u, x, arg : u = pending[v].by /\ x = pending[v].of /\ arg = pending[v].arg
            OBVIOUS
        <3>2. u = pending'[v].by /\ x = pending'[v].of /\ arg = pending'[v].arg
            BY <2>1, <3>1
        <3>3. \A op : Asked(v, op)' = Asked(v, op)
            BY <2>1 DEF Asked
        <3>4. /\ CanCreate(u, x, arg.period, arg.total, <<>>, arg.submit)
                     => CanCreate(u, x, arg.period, arg.total, <<>>, arg.submit)'
              /\ CanEdit(u, x, arg.period, arg.changes) => CanEdit(u, x, arg.period, arg.changes)'
              /\ CanDelete(u, x) => CanDelete(u, x)'
              /\ CanSubmit(u, x) => CanSubmit(u, x)'
              /\ CanReview(u, x, arg.stage, arg.decision) => CanReview(u, x, arg.stage, arg.decision)'
              /\ CanRectify(u, x, arg) => CanRectify(u, x, arg)'
              /\ CanVerify(u, x) => CanVerify(u, x)'
              /\ Verifiable(x)' = Verifiable(x)
              /\ CanClose(u, x) => CanClose(u, x)'
              /\ Closable(x)' = Closable(x)
              /\ CanReturn(u, x) => CanReturn(u, x)'
              /\ CanResubmit(u, x) => CanResubmit(u, x)'
              /\ CanTransfer(u, x, arg) => CanTransfer(u, x, arg)'
            BY <2>1, FindingChecksStand
        <3>5. /\ CanCreatePeriod(u, x, arg) => CanCreatePeriod(u, x, arg)'
              /\ CanPatchPeriod(u, x, arg.req) => CanPatchPeriod(u, x, arg.req)'
              /\ ChangesStatus(x, arg.req)' = ChangesStatus(x, arg.req)
              /\ CanDeletePeriod(u, x) => CanDeletePeriod(u, x)'
            BY <2>1, PeriodChecksStand
        <3> QED
            BY <2>2, <3>1, <3>2, <3>3, <3>4, <3>5 DEF Meant
    <2> QED
        BY <2>1, <2>2 DEF AloneInv
<1> QED
    BY <1>1, <1>2, <1>3, <1>4 DEF CNext

\* One request at a time, the two halves are the one step of FindingWorkflow: all
\* that is proved of it holds of routes that decide first and write later, and
\* whatever goes wrong here takes a second request.
THEOREM AloneIsTheWorkflow == (\E v : Workers = {v}) => (ConcurrentSpec => SequentialWhenAlone)
<1> SUFFICES ASSUME NEW v, Workers = {v} PROVE ConcurrentSpec => SequentialWhenAlone
    OBVIOUS
<1>1. CInit => Init /\ AloneInv(v)
    BY DEF CInit, Init, AloneInv
<1>2. AloneInv(v) /\ [CNext]_vars => AloneInv(v)' /\ [Next]_tables
    BY AloneStep
<1> QED
    BY <1>1, <1>2, PTL DEF ConcurrentSpec, SequentialWhenAlone, Spec
=============================================================================
