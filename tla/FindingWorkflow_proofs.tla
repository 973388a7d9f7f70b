----------------------- MODULE FindingWorkflow_proofs -----------------------
(***************************************************************************)
(* Proofs about FindingWorkflow, for any users, grants, findings, periods, *)
(* case breakdowns and bounds.  One inductive invariant carries the types, *)
(* the order of the counters, the statuses and the ledger sums: each of    *)
(* them is needed to show that a handler preserves another.                *)
(***************************************************************************)
EXTENDS FindingWorkflow, PeriodResidency_proofs

-----------------------------------------------------------------------------
(* The workflow.                                                           *)

\* Rows the handlers can leave behind.
GoodRow ==
    {row \in FindingRow :
        /\ row.total["cases"] >= 1
        /\ AtMost(row.closed, row.verified)
        /\ AtMost(row.verified, row.rectified)
        /\ AtMost(row.rectified, row.total)
        /\ row.status \in BeforeBranch \cup {"SENT_TO_BRANCH_MANAGER"} => row.rectified = Zero
        /\ row.status = "RECTIFIED" => AtMost(row.total, row.rectified)
        /\ row.status = "PARTIALLY_RECTIFIED" =>
              row.rectified # Zero /\ ~AtMost(row.total, row.rectified)
        /\ row.status = "RECTIFICATION_RETURNED" => row.rectified # Zero
        /\ row.status = "CLOSED" <=> AtMost(row.total, row.closed)}

\* What the ledgers of a finding say of its row.  That something is rectified
\* as soon as there is a rectification row, and that a TRANSFERRED finding has
\* a transfer row, is what keeps return-rectification from sending back a
\* finding with nothing on record.
LedgersFit(row, recs, cls, moves) ==
    IF row = NoFinding THEN recs = <<>> /\ cls = <<>> /\ moves = <<>>
    ELSE /\ \A d \in Dim : /\ SumOfRows(recs, Periods, d) = row.rectified[d]
                           /\ SumOfRows(cls, Periods, d) = row.closed[d]
         /\ recs # <<>> => row.rectified # Zero
         /\ row.status = "TRANSFERRED" => moves # <<>>

PeriodsOK == period \in [Periods -> PeriodRow \cup {NoPeriod}]

SignedOK == signed \in [Findings -> [Users -> {"never", "earlier", "current"}]]

LedgersOK ==
    /\ rectifications \in [Findings -> Seq(RectificationRow)]
    /\ closures \in [Findings -> Seq(ClosureRow)]
    /\ transfers \in [Findings -> Seq(TransferRow)]

FindingsOK == finding \in [Findings -> GoodRow \cup {NoFinding}]

LedgersMatch ==
    \A f \in Findings :
        LedgersFit(finding[f], rectifications[f], closures[f], transfers[f])

\* The inductive invariant.
FInv == FindingsOK /\ PeriodsOK /\ SignedOK /\ LedgersOK /\ LedgersMatch

-----------------------------------------------------------------------------
(* Quantities. *)

\* Nothing is a quantity.
LEMMA QuantityZero == Zero \in Quantity /\ \A d \in Dim : Zero[d] = 0
    BY DEF Quantity, Zero

\* Quantities add up, dimension by dimension, ...
LEMMA QuantityPlus ==
    ASSUME NEW q \in Quantity, NEW r \in Quantity
    PROVE  Plus(q, r) \in Quantity /\ \A d \in Dim : Plus(q, r)[d] = q[d] + r[d]
    BY DEF Quantity, Plus

\* ... and what is at most another can be taken from it.
LEMMA QuantityMinus ==
    ASSUME NEW q \in Quantity, NEW r \in Quantity, AtMost(r, q)
    PROVE  Minus(q, r) \in Quantity /\ \A d \in Dim : Minus(q, r)[d] = q[d] - r[d]
    BY DEF Quantity, Minus, AtMost

\* Only one quantity is zero throughout.
LEMMA QuantityNonZero ==
    ASSUME NEW q \in Quantity
    PROVE  q # Zero <=> \E d \in Dim : q[d] > 0
    BY DEF Quantity, Zero

\* A missing row is not a row.
LEMMA NoFindingIsNoRow == NoFinding \notin FindingRow
    BY DEF NoFinding, FindingRow, Status

\* The sum over a ledger with one row more
LEMMA RowsAppend ==
    ASSUME NEW R, \A x \in R : x.period \in Periods /\ x.qty \in Quantity,
           NEW rows \in Seq(R), NEW row \in R, NEW d \in Dim
    PROVE  SumOfRows(Append(rows, row), Periods, d) = SumOfRows(rows, Periods, d) + row.qty[d]
<1> DEFINE w == [i \in DOMAIN rows |-> IF rows[i].period \in Periods THEN rows[i].qty[d] ELSE 0]
           more == Append(rows, row)
           v == [i \in DOMAIN more |-> IF more[i].period \in Periods THEN more[i].qty[d] ELSE 0]
<1>1. \A x \in R : x.qty[d] \in Int
    BY DEF Quantity
<1>2. /\ Len(rows) \in Nat /\ DOMAIN rows = 1..Len(rows)
      /\ DOMAIN more = 1..(Len(rows) + 1)
      /\ more[Len(rows) + 1] = row
      /\ \A i \in 1..Len(rows) : rows[i] \in R /\ more[i] = rows[i]
    OBVIOUS
<1>3. w \in Seq(Int) /\ Len(w) = Len(rows)
    BY <1>1, <1>2
<1>4. v = Append(w, row.qty[d])
    BY <1>1, <1>2, <1>3
<1>5. SumOf(v) = SumOf(w) + row.qty[d]
    BY <1>1, <1>3, <1>4, SumOfAppend
<1> QED
    BY <1>5 DEF SumOfRows

\* A ledger is the beginning of itself, ...
LEMMA RowsKept ==
    ASSUME NEW R, NEW s \in Seq(R)
    PROVE  IsPrefix(s, s)
    BY DEF IsPrefix

\* ... and of itself with one row more.
LEMMA RowAdded ==
    ASSUME NEW R, NEW s \in Seq(R), NEW x \in R
    PROVE  IsPrefix(s, Append(s, x))
    BY DEF IsPrefix

\* An empty ledger adds up to nothing.
LEMMA RowsEmpty == \A d : SumOfRows(<<>>, Periods, d) = 0
    BY SumOfEmpty DEF SumOfRows

\* What a selection of cases comes to is a number of cases and of money.
LEMMA PickedQuantity ==
    ASSUME NEW f, finding[f] \in FindingRow, NEW most \in Nat,
           NEW S \in SUBSET DOMAIN finding[f].items, NEW picks \in [S -> 1..most]
    PROVE  Picked(f, picks) \in Quantity /\ (S # {} => Picked(f, picks) # Zero)
<1> DEFINE items == finding[f].items
           times(i) == IF i \in DOMAIN picks THEN picks[i] ELSE 0
           w == [i \in DOMAIN items |-> times(i)]
           v == [i \in DOMAIN items |-> times(i) * items[i]]
<1>1. items \in Seq(Nat)
    BY DEF FindingRow
<1>2. /\ Len(items) \in Nat /\ DOMAIN items = 1..Len(items)
      /\ \A i \in DOMAIN items : items[i] \in Nat
    BY <1>1
<1>3. \A i \in DOMAIN items : times(i) \in Nat
    OBVIOUS
<1>4. ASSUME NEW m \in Nat, NEW n \in Nat PROVE m * n \in Nat
    OBVIOUS
<1>5. w \in Seq(Nat) /\ Len(w) = Len(items)
    BY <1>2, <1>3
<1>6. v \in Seq(Nat)
    BY <1>2, <1>3, <1>4
<1>7. SumOf(w) \in Nat /\ SumOf(v) \in Nat
    BY <1>5, <1>6, SumOfNats
<1>8. Picked(f, picks) = [d \in Dim |-> IF d = "cases" THEN SumOf(w) ELSE SumOf(v)]
    BY DEF Picked
<1>9. Picked(f, picks) \in Quantity
    BY <1>7, <1>8 DEF Quantity
<1>10. ASSUME S # {} PROVE Picked(f, picks) # Zero
    <2>1. PICK j \in S : TRUE
        BY <1>10
    <2>2. w[j] >= 1 /\ j \in 1..Len(w)
        BY <1>2, <1>5
    <2>3. SumOf(w) >= 1
        BY <2>2, <1>5, <1>7, SumAtLeast
    <2>4. Picked(f, picks)["cases"] # 0
        BY <1>8, <2>3 DEF Dim
    <2> QED
        BY <2>4 DEF Zero, Dim
<1> QED
    BY <1>9, <1>10

-----------------------------------------------------------------------------
(* Steps on one finding. *)

\* A step that leaves behind a good row and ledgers that fit it, and touches
\* no other finding and no period, keeps the invariant.
LEMMA OneFinding ==
    ASSUME FInv, NEW f \in Findings,
           NEW row \in GoodRow \cup {NoFinding},
           NEW recs \in Seq(RectificationRow), NEW cls \in Seq(ClosureRow),
           NEW moves \in Seq(TransferRow),
           LedgersFit(row, recs, cls, moves),
           finding' = [finding EXCEPT ![f] = row],
           rectifications' = [rectifications EXCEPT ![f] = recs],
           closures' = [closures EXCEPT ![f] = cls],
           transfers' = [transfers EXCEPT ![f] = moves],
           SignedOK', period' = period
    PROVE  FInv'
<1>1. FindingsOK' /\ LedgersOK' /\ PeriodsOK'
    BY DEF FInv, FindingsOK, LedgersOK, PeriodsOK
<1>2. LedgersMatch'
    <2>1. SUFFICES ASSUME NEW g \in Findings
                   PROVE  LedgersFit(finding'[g], rectifications'[g], closures'[g], transfers'[g])
        BY DEF LedgersMatch
    <2>2. CASE g = f
        BY <2>2 DEF FInv, FindingsOK, LedgersOK
    <2>3. CASE g # f
        <3>1. /\ finding'[g] = finding[g] /\ rectifications'[g] = rectifications[g]
              /\ closures'[g] = closures[g] /\ transfers'[g] = transfers[g]
            BY <2>3 DEF FInv, FindingsOK, LedgersOK
        <3> QED
            BY <3>1 DEF FInv, LedgersMatch
    <2> QED
        BY <2>2, <2>3
<1> QED
    BY <1>1, <1>2 DEF FInv

\* The same for a step that touches no ledger either.
LEMMA OneRow ==
    ASSUME FInv, NEW f \in Findings, NEW row \in GoodRow,
           LedgersFit(row, rectifications[f], closures[f], transfers[f]),
           finding' = [finding EXCEPT ![f] = row], UNCHANGED ledgers,
           SignedOK', period' = period
    PROVE  FInv'
<1>1. /\ rectifications' = [rectifications EXCEPT ![f] = rectifications[f]]
      /\ closures' = [closures EXCEPT ![f] = closures[f]]
      /\ transfers' = [transfers EXCEPT ![f] = transfers[f]]
    BY DEF FInv, LedgersOK, ledgers
<1>2. /\ rectifications[f] \in Seq(RectificationRow) /\ closures[f] \in Seq(ClosureRow)
      /\ transfers[f] \in Seq(TransferRow)
    BY DEF FInv, LedgersOK
<1> QED
    BY <1>1, <1>2, OneFinding

\* A step that moves a finding to a status that suits its counters.
LEMMA StatusStep ==
    ASSUME FInv, NEW f \in Findings, Exists(f), NEW s \in Status,
           [finding[f] EXCEPT !.status = s] \in GoodRow,
           s = "TRANSFERRED" => transfers[f] # <<>>,
           MoveTo(f, s), UNCHANGED <<period, ledgers, signed>>
    PROVE  FInv'
<1> DEFINE row == [finding[f] EXCEPT !.status = s]
<1>1. finding[f] \in GoodRow /\ finding[f] \in FindingRow
    BY DEF FInv, FindingsOK, Exists, GoodRow
<1>2. finding' = [finding EXCEPT ![f] = row]
    BY DEF FInv, FindingsOK, MoveTo
<1>3. LedgersFit(row, rectifications[f], closures[f], transfers[f])
    <2>1. LedgersFit(finding[f], rectifications[f], closures[f], transfers[f])
        BY DEF FInv, LedgersMatch
    <2>2. row # NoFinding /\ row.rectified = finding[f].rectified /\ row.closed = finding[f].closed
          /\ row.status = s
        BY <1>1 DEF FindingRow, NoFinding
    <2> QED
        BY <2>1, <2>2 DEF LedgersFit, Exists
<1>4. SignedOK'
    BY DEF FInv, SignedOK
<1> QED
    BY <1>2, <1>3, <1>4, OneRow

\* What is known of a finding there is.
LEMMA Known ==
    ASSUME FInv, NEW f \in Findings, Exists(f)
    PROVE  /\ finding[f] \in GoodRow /\ finding[f] \in FindingRow
           /\ LedgersFit(finding[f], rectifications[f], closures[f], transfers[f])
           /\ finding[f].total \in Quantity /\ finding[f].rectified \in Quantity
           /\ finding[f].verified \in Quantity /\ finding[f].closed \in Quantity
           /\ AtMost(finding[f].rectified, finding[f].total)
           /\ AtMost(finding[f].verified, finding[f].rectified)
           /\ AtMost(finding[f].closed, finding[f].verified)
    BY DEF FInv, FindingsOK, LedgersMatch, Exists, GoodRow, FindingRow

-----------------------------------------------------------------------------
(* Registration and approval. *)

\* POST /api/findings: nothing is rectified, and the slot's ledgers are empty.
LEMMA CreateStep ==
    ASSUME FInv, NEW u \in Users, NEW f \in Findings, Create(u, f)
    PROVE  FInv'
<1>1. PICK p \in Periods, total \in Totals, items \in Breakdowns \cup {<<>>}, submit \in BOOLEAN :
         CanCreate(u, f, p, total, items, submit) /\ DoCreate(u, f, p, total, items, submit)
    BY DEF Create
<1>2. PICK s \in BeforeBranch \cup {"SENT_TO_BRANCH_MANAGER"} :
         finding' = [finding EXCEPT ![f] =
              [status |-> s, period |-> p, creator |-> u, total |-> total,
               rectified |-> Zero, verified |-> Zero, closed |-> Zero,
               items |-> items, done |-> {}]]
    BY <1>1 DEF DoCreate, SubmittedStatuses, BeforeBranch
<1> DEFINE row == [status |-> s, period |-> p, creator |-> u, total |-> total,
                   rectified |-> Zero, verified |-> Zero, closed |-> Zero,
                   items |-> items, done |-> {}]
<1>3. total \in Quantity /\ total["cases"] >= 1 /\ items \in Seq(Nat)
    <2>1. <<>> \in Seq(Nat)
        OBVIOUS
    <2>2. total \in Quantity /\ items \in Seq(Nat)
        BY <2>1, InputsAssumption
    <2> QED
        BY <1>1, <2>2 DEF CanCreate
<1>4. row \in FindingRow
    BY <1>3, QuantityZero DEF FindingRow, Status, BeforeBranch
<1>5. AtMost(Zero, Zero) /\ AtMost(Zero, total) /\ ~AtMost(total, Zero)
    BY <1>3, QuantityZero DEF AtMost, Quantity, Dim
<1>6. row \in GoodRow
    BY <1>3, <1>4, <1>5 DEF GoodRow, BeforeBranch
<1>7. LedgersFit(row, rectifications[f], closures[f], transfers[f])
    <2>1. rectifications[f] = <<>> /\ closures[f] = <<>> /\ transfers[f] = <<>>
        BY <1>1 DEF CanCreate, FInv, LedgersMatch, LedgersFit
    <2>2. row # NoFinding /\ row.rectified = Zero /\ row.closed = Zero /\ row.status # "TRANSFERRED"
        BY DEF NoFinding, BeforeBranch
    <2> QED
        BY <2>1, <2>2, RowsEmpty, QuantityZero DEF LedgersFit
<1>8. UNCHANGED ledgers /\ period' = period /\ SignedOK'
    BY <1>1 DEF DoCreate, FInv, SignedOK
<1> QED
    BY <1>2, <1>6, <1>7, <1>8, OneRow

\* PATCH: the total may change because nothing has been counted against it.
LEMMA EditStep ==
    ASSUME FInv, NEW u \in Users, NEW f \in Findings, Edit(u, f)
    PROVE  FInv'
<1>1. PICK q \in Periods, changes \in Changes : CanEdit(u, f, q, changes) /\ DoEdit(f, q, changes)
    BY DEF Edit
<1>2. Exists(f) /\ finding[f].status \in Editable
    BY <1>1 DEF CanEdit
<1>3. finding[f] \in GoodRow /\ finding[f] \in FindingRow /\ finding[f].total \in Quantity
    BY <1>2, Known
<1> DEFINE total == [d \in Dim |-> IF d \in DOMAIN changes THEN changes[d] ELSE finding[f].total[d]]
           row == [finding[f] EXCEPT !.period = q, !.total = total]
<1>4. total \in Quantity
    <2>1. \A d \in DOMAIN changes : changes[d] \in Nat
        <3>1. PICK D \in SUBSET Dim : changes \in {[d \in D |-> t[d]] : t \in Totals}
            BY DEF Changes
        <3>2. PICK t \in Totals : changes = [d \in D |-> t[d]]
            BY <3>1
        <3>3. t \in Quantity
            BY InputsAssumption
        <3> QED
            BY <3>2, <3>3 DEF Quantity
    <2> QED
        BY <1>3, <2>1 DEF Quantity
<1>5. total["cases"] >= 1
    BY <1>1, <1>3 DEF CanEdit, GoodRow, Dim
<1>6. row \in FindingRow
    BY <1>3, <1>4 DEF FindingRow
<1>7. finding[f].rectified = Zero /\ finding[f].verified = Zero /\ finding[f].closed = Zero
    <2>1. finding[f].rectified = Zero
        BY <1>2, <1>3 DEF GoodRow, Editable, BeforeBranch
    <2>2. /\ finding[f].verified \in Quantity /\ finding[f].closed \in Quantity
          /\ AtMost(finding[f].verified, Zero) /\ AtMost(finding[f].closed, finding[f].verified)
        BY <1>2, <2>1, Known
    <2> QED
        BY <2>1, <2>2, QuantityNonZero, QuantityZero DEF AtMost, Quantity
<1>8. AtMost(Zero, Zero) /\ AtMost(Zero, total) /\ ~AtMost(total, Zero)
    BY <1>4, <1>5, QuantityZero DEF AtMost, Quantity, Dim
<1>9. row \in GoodRow
    <2>1. /\ row.total = total /\ row.status = finding[f].status
          /\ row.rectified = Zero /\ row.verified = Zero /\ row.closed = Zero
        BY <1>3, <1>7 DEF FindingRow
    <2> QED
        BY <1>2, <1>5, <1>6, <1>8, <2>1 DEF GoodRow, Editable
<1>10. LedgersFit(row, rectifications[f], closures[f], transfers[f])
    <2>1. row # NoFinding /\ row.rectified = finding[f].rectified /\ row.closed = finding[f].closed
          /\ row.status = finding[f].status
        BY <1>3 DEF FindingRow, NoFinding
    <2> QED
        BY <1>2, <2>1, Known DEF LedgersFit, Exists
<1>11. finding' = [finding EXCEPT ![f] = row]
    BY <1>1, <1>3 DEF DoEdit, FInv, FindingsOK, FindingRow
<1>12. UNCHANGED ledgers /\ period' = period /\ SignedOK'
    BY <1>1 DEF DoEdit, FInv, SignedOK
<1> QED
    BY <1>9, <1>10, <1>11, <1>12, OneRow

\* DELETE: the ledgers go with the finding.
LEMMA DeleteStep ==
    ASSUME FInv, NEW u \in Users, NEW f \in Findings, Delete(u, f)
    PROVE  FInv'
<1>1. LedgersFit(NoFinding, <<>>, <<>>, <<>>)
    BY DEF LedgersFit
<1>2. SignedOK'
    BY DEF Delete, DoDelete, FInv, SignedOK
<1>3. /\ finding' = [finding EXCEPT ![f] = NoFinding]
      /\ rectifications' = [rectifications EXCEPT ![f] = <<>>]
      /\ closures' = [closures EXCEPT ![f] = <<>>]
      /\ transfers' = [transfers EXCEPT ![f] = <<>>]
      /\ period' = period
    BY DEF Delete, DoDelete
<1>4. <<>> \in Seq(RectificationRow) /\ <<>> \in Seq(ClosureRow) /\ <<>> \in Seq(TransferRow)
    OBVIOUS
<1> QED
    BY <1>1, <1>2, <1>3, <1>4, OneFinding

\* A finding that has not reached the branch may take any status before the
\* branch, or the one it reaches the branch with.
LEMMA EarlyRow ==
    ASSUME FInv, NEW f \in Findings, Exists(f), finding[f].status \in BeforeBranch,
           NEW s \in BeforeBranch \cup {"SENT_TO_BRANCH_MANAGER"}
    PROVE  [finding[f] EXCEPT !.status = s] \in GoodRow
<1>1. finding[f] \in GoodRow /\ finding[f] \in FindingRow
    BY Known
<1> DEFINE row == [finding[f] EXCEPT !.status = s]
<1>2. row \in FindingRow
    BY <1>1 DEF FindingRow, Status, BeforeBranch
<1>3. /\ row.status = s /\ row.total = finding[f].total /\ row.rectified = finding[f].rectified
      /\ row.verified = finding[f].verified /\ row.closed = finding[f].closed
    BY <1>1 DEF FindingRow
<1> QED
    BY <1>1, <1>2, <1>3 DEF GoodRow, BeforeBranch

\* Submission and the three reviews end before the branch, or reach it untouched.
LEMMA SubmitStep ==
    ASSUME FInv, NEW u \in Users, NEW f \in Findings, Submit(u, f)
    PROVE  FInv'
<1>1. PICK s \in SubmittedStatuses(u) : MoveTo(f, s)
    BY DEF Submit, DoSubmit
<1>2. Exists(f) /\ finding[f].status \in BeforeBranch
    BY DEF Submit, CanSubmit, Editable, BeforeBranch
<1>3. s \in BeforeBranch \cup {"SENT_TO_BRANCH_MANAGER"} /\ s \in Status /\ s # "TRANSFERRED"
    BY DEF SubmittedStatuses, BeforeBranch, Status
<1>4. UNCHANGED <<period, ledgers, signed>>
    BY DEF Submit, DoSubmit
<1> QED
    BY <1>1, <1>2, <1>3, <1>4, EarlyRow, StatusStep

\* A decision ends before the branch, or in the branch's inbox.
LEMMA ReviewStep ==
    ASSUME FInv, NEW u \in Users, NEW f \in Findings, Review(u, f)
    PROVE  FInv'
<1>1. PICK stage \in Stages, decision \in Decisions :
         CanReview(u, f, stage, decision) /\ DoReview(f, stage, decision)
    BY DEF Review
<1> DEFINE s == Decided(stage, decision)
<1>2. Exists(f) /\ finding[f].status \in BeforeBranch
    BY <1>1 DEF CanReview, Stages, BeforeBranch
<1>3. s \in BeforeBranch \cup {"SENT_TO_BRANCH_MANAGER"} /\ s \in Status /\ s # "TRANSFERRED"
    BY DEF Decided, Stages, Decisions, BeforeBranch, Status
<1>4. MoveTo(f, s) /\ UNCHANGED <<period, ledgers, signed>>
    BY <1>1 DEF DoReview
<1> QED
    BY <1>2, <1>3, <1>4, EarlyRow, StatusStep

-----------------------------------------------------------------------------
(* Rectification. *)

\* What both kinds of rectification write
LEMMA RectifiedStep ==
    ASSUME FInv, NEW u \in Users, NEW f \in Findings, MayRectify(u, f),
           NEW n \in Quantity, n # Zero, AtMost(n, Outstanding(f)),
           NEW S \in SUBSET Nat, DoRectify(f, n, S)
    PROVE  FInv'
<1>1. Exists(f) /\ finding[f].status \in Rectifiable
    BY DEF MayRectify
<1>2. /\ finding[f] \in GoodRow /\ finding[f] \in FindingRow
      /\ LedgersFit(finding[f], rectifications[f], closures[f], transfers[f])
      /\ finding[f].total \in Quantity /\ finding[f].rectified \in Quantity
      /\ finding[f].verified \in Quantity /\ finding[f].closed \in Quantity
      /\ AtMost(finding[f].rectified, finding[f].total)
      /\ AtMost(finding[f].verified, finding[f].rectified)
    BY <1>1, Known
<1> DEFINE r == Plus(finding[f].rectified, n)
           s == IF Covers(r, f) THEN "RECTIFIED" ELSE "PARTIALLY_RECTIFIED"
           row == [finding[f] EXCEPT !.rectified = r, !.done = @ \cup S, !.status = s]
           rec == [period |-> finding[f].period, qty |-> n, after |-> Len(transfers[f])]
           recs == Append(rectifications[f], rec)
<1>3. r \in Quantity /\ \A d \in Dim : r[d] = finding[f].rectified[d] + n[d]
    BY <1>2, QuantityPlus
<1>4. AtMost(r, finding[f].total) /\ AtMost(finding[f].verified, r) /\ r # Zero
    <2>1. \A d \in Dim : Outstanding(f)[d] = finding[f].total[d] - finding[f].rectified[d]
        BY <1>2, QuantityMinus DEF Outstanding
    <2>2. ASSUME NEW d \in Dim
          PROVE  r[d] <= finding[f].total[d] /\ finding[f].verified[d] <= r[d]
        <3>1. /\ n[d] \in Nat /\ finding[f].rectified[d] \in Nat
              /\ finding[f].total[d] \in Nat /\ finding[f].verified[d] \in Nat
            BY <1>2 DEF Quantity
        <3>2. n[d] <= Outstanding(f)[d] /\ finding[f].verified[d] <= finding[f].rectified[d]
            BY <1>2 DEF AtMost
        <3> QED
            BY <1>3, <2>1, <3>1, <3>2
    <2>3. PICK d \in Dim : n[d] > 0
        BY QuantityNonZero
    <2>4. r[d] > 0
        BY <1>2, <1>3, <2>3 DEF Quantity
    <2> QED
        BY <1>3, <2>2, <2>4, QuantityNonZero DEF AtMost
<1>5. row \in FindingRow
    BY <1>2, <1>3 DEF FindingRow, Status
<1>6. /\ row.status = s /\ row.total = finding[f].total /\ row.rectified = r
      /\ row.verified = finding[f].verified /\ row.closed = finding[f].closed
    BY <1>2 DEF FindingRow
<1>7. finding[f].status # "CLOSED"
    BY <1>1 DEF Rectifiable
<1>8. row \in GoodRow
    <2>1. /\ row.total["cases"] >= 1
          /\ AtMost(row.closed, row.verified) /\ AtMost(row.verified, row.rectified)
          /\ AtMost(row.rectified, row.total)
          /\ ~AtMost(row.total, row.closed)
        BY <1>2, <1>4, <1>6, <1>7 DEF GoodRow
    <2>2. CASE Covers(r, f)
        <3>1. row.status = "RECTIFIED" /\ AtMost(row.total, row.rectified)
            BY <1>6, <2>2 DEF Covers
        <3> QED
            BY <1>5, <2>1, <3>1 DEF GoodRow, BeforeBranch
    <2>3. CASE ~Covers(r, f)
        <3>1. /\ row.status = "PARTIALLY_RECTIFIED"
              /\ row.rectified # Zero /\ ~AtMost(row.total, row.rectified)
            BY <1>4, <1>6, <2>3 DEF Covers
        <3> QED
            BY <1>5, <2>1, <3>1 DEF GoodRow, BeforeBranch
    <2> QED
        BY <2>2, <2>3
<1>9. rec \in RectificationRow
    BY <1>2 DEF RectificationRow, FindingRow, FInv, LedgersOK
<1>10. recs \in Seq(RectificationRow)
    BY <1>9 DEF FInv, LedgersOK
<1>11. LedgersFit(row, recs, closures[f], transfers[f])
    <2>1. row # NoFinding
        BY <1>2, <1>6 DEF NoFinding
    <2>2. ASSUME NEW d \in Dim
          PROVE  SumOfRows(recs, Periods, d) = r[d]
        <3>1. \A x \in RectificationRow : x.period \in Periods /\ x.qty \in Quantity
            BY DEF RectificationRow
        <3>2. rectifications[f] \in Seq(RectificationRow)
            BY DEF FInv, LedgersOK
        <3>3. SumOfRows(recs, Periods, d) = SumOfRows(rectifications[f], Periods, d) + n[d]
            BY <1>9, <3>1, <3>2, RowsAppend
        <3> QED
            BY <1>1, <1>2, <1>3, <3>3 DEF LedgersFit, Exists
    <2>3. \A d \in Dim : SumOfRows(closures[f], Periods, d) = row.closed[d]
        BY <1>1, <1>2, <1>6 DEF LedgersFit, Exists
    <2> QED
        BY <1>4, <1>6, <2>1, <2>2, <2>3 DEF LedgersFit
<1>12. /\ finding' = [finding EXCEPT ![f] = row]
       /\ rectifications' = [rectifications EXCEPT ![f] = recs]
       /\ closures' = [closures EXCEPT ![f] = closures[f]]
       /\ transfers' = [transfers EXCEPT ![f] = transfers[f]]
       /\ period' = period
    BY <1>2 DEF DoRectify, FInv, FindingsOK, LedgersOK, FindingRow
<1>13. SignedOK'
    BY DEF DoRectify, AgeSignatures, FInv, SignedOK
<1>14. closures[f] \in Seq(ClosureRow) /\ transfers[f] \in Seq(TransferRow)
    BY DEF FInv, LedgersOK
<1> QED
    BY <1>8, <1>10, <1>11, <1>12, <1>13, <1>14, OneFinding

\* An entry typed in: the guards bound it by what is outstanding.
LEMMA RectifyStep ==
    ASSUME FInv, NEW u \in Users, NEW f \in Findings, Rectify(u, f)
    PROVE  FInv'
<1>1. PICK n \in Entries : CanRectify(u, f, n) /\ DoRectify(f, n, {})
    BY DEF Rectify
<1>2. n \in Quantity
    BY InputsAssumption DEF Entries, Quantity
<1>3. MayRectify(u, f) /\ n # Zero /\ AtMost(n, Outstanding(f))
    BY <1>1 DEF CanRectify, Sensible
<1> QED
    BY <1>1, <1>2, <1>3, RectifiedStep

\* A selection of cases: the route bounds the sum of its amounts as well.
LEMMA RectifyItemsStep ==
    ASSUME FInv, NEW u \in Users, NEW f \in Findings, RectifyItems(u, f)
    PROVE  FInv'
<1>1. Exists(f) /\ finding[f] \in FindingRow
    BY Known DEF RectifyItems
<1>2. PICK S \in SUBSET DOMAIN finding[f].items : \E picks \in [S -> 1..Repeats] :
          CanRectifyItems(u, f, picks) /\ DoRectify(f, Picked(f, picks), S)
    BY DEF RectifyItems
<1>3. PICK picks \in [S -> 1..Repeats] :
          CanRectifyItems(u, f, picks) /\ DoRectify(f, Picked(f, picks), S)
    BY <1>2
<1>4. S # {} /\ MayRectify(u, f) /\ AtMost(Picked(f, picks), Outstanding(f))
    BY <1>3 DEF CanRectifyItems
<1>5. S \subseteq Nat
    <2>1. finding[f].items \in Seq(Nat)
        BY <1>1 DEF FindingRow
    <2> QED
        BY <2>1
<1>6. Picked(f, picks) \in Quantity /\ Picked(f, picks) # Zero
    BY <1>1, <1>4, PickedQuantity, InputsAssumption
<1> QED
    BY <1>3, <1>4, <1>5, <1>6, RectifiedStep

\* Verification always catches up with everything rectified.
LEMMA VerifyStep ==
    ASSUME FInv, NEW u \in Users, NEW f \in Findings, VerifyRectification(u, f)
    PROVE  FInv'
<1>1. Exists(f)
    BY DEF VerifyRectification, CanVerify
<1>2. /\ finding[f] \in GoodRow /\ finding[f] \in FindingRow
      /\ LedgersFit(finding[f], rectifications[f], closures[f], transfers[f])
      /\ finding[f].rectified \in Quantity /\ finding[f].verified \in Quantity
      /\ finding[f].closed \in Quantity
      /\ AtMost(finding[f].verified, finding[f].rectified)
      /\ AtMost(finding[f].closed, finding[f].verified)
    BY <1>1, Known
<1> DEFINE v == Plus(finding[f].verified, Verifiable(f))
           row == [finding[f] EXCEPT !.verified = v]
<1>3. v = finding[f].rectified
    <2>1. /\ Verifiable(f) \in Quantity
          /\ \A d \in Dim : Verifiable(f)[d] = finding[f].rectified[d] - finding[f].verified[d]
        BY <1>2, QuantityMinus DEF Verifiable
    <2>2. v \in Quantity /\ \A d \in Dim : v[d] = finding[f].verified[d] + Verifiable(f)[d]
        BY <1>2, <2>1, QuantityPlus
    <2>3. \A d \in Dim : v[d] = finding[f].rectified[d]
        BY <1>2, <2>1, <2>2 DEF Quantity
    <2> QED
        BY <1>2, <2>2, <2>3 DEF Quantity
<1>4. AtMost(finding[f].closed, v) /\ AtMost(v, finding[f].rectified)
    BY <1>2, <1>3 DEF AtMost, Quantity
<1>5. /\ row \in FindingRow /\ row.status = finding[f].status /\ row.total = finding[f].total
      /\ row.rectified = finding[f].rectified /\ row.verified = v
      /\ row.closed = finding[f].closed
    BY <1>2, <1>3 DEF FindingRow
<1>6. row \in GoodRow
    BY <1>2, <1>4, <1>5 DEF GoodRow
<1>7. LedgersFit(row, rectifications[f], closures[f], transfers[f])
    <2>1. row # NoFinding
        BY <1>2, <1>5 DEF FindingRow, NoFinding
    <2> QED
        BY <1>1, <1>2, <1>5, <2>1 DEF LedgersFit, Exists
<1>8. finding' = [finding EXCEPT ![f] = row] /\ UNCHANGED ledgers /\ period' = period
    BY DEF VerifyRectification, DoVerify, FInv, FindingsOK
<1>9. SignedOK'
    BY DEF VerifyRectification, DoVerify, Sign, FInv, SignedOK
<1> QED
    BY <1>6, <1>7, <1>8, <1>9, OneRow

\* Closing catches up with everything verified; the finding is CLOSED exactly
\* when that is everything registered.
LEMMA CloseStep ==
    ASSUME FInv, NEW u \in Users, NEW f \in Findings, Close(u, f)
    PROVE  FInv'
<1>1. Exists(f) /\ finding[f].status # "CLOSED"
    BY DEF Close, CanClose
<1>2. /\ finding[f] \in GoodRow /\ finding[f] \in FindingRow
      /\ LedgersFit(finding[f], rectifications[f], closures[f], transfers[f])
      /\ finding[f].total \in Quantity /\ finding[f].rectified \in Quantity
      /\ finding[f].verified \in Quantity /\ finding[f].closed \in Quantity
      /\ AtMost(finding[f].verified, finding[f].rectified)
      /\ AtMost(finding[f].closed, finding[f].verified)
    BY <1>1, Known
<1> DEFINE n == Closable(f)
           c == Plus(finding[f].closed, n)
           s == IF Covers(c, f) THEN "CLOSED" ELSE finding[f].status
           row == [finding[f] EXCEPT !.closed = c, !.status = s]
           cl == [period |-> finding[f].period, qty |-> n]
           cls == Append(closures[f], cl)
<1>3. n \in Quantity /\ \A d \in Dim : n[d] = finding[f].verified[d] - finding[f].closed[d]
    <2>1. Least(finding[f].rectified, finding[f].verified) = finding[f].verified
        <3>1. PICK r \in Quantity, v \in Quantity : r = finding[f].rectified /\ v = finding[f].verified
            BY <1>2
        <3>2. AtMost(v, r)
            BY <1>2, <3>1
        <3>3. Least(r, v) = v
            BY <3>2 DEF Least, AtMost, Quantity
        <3> QED
            BY <3>1, <3>3
    <2> QED
        BY <1>2, <2>1, QuantityMinus DEF Closable
<1>4. c = finding[f].verified /\ \A d \in Dim : c[d] = finding[f].closed[d] + n[d]
    <2>1. c \in Quantity /\ \A d \in Dim : c[d] = finding[f].closed[d] + n[d]
        BY <1>2, <1>3, QuantityPlus
    <2>2. \A d \in Dim : c[d] = finding[f].verified[d]
        BY <1>2, <1>3, <2>1 DEF Quantity
    <2> QED
        BY <1>2, <2>1, <2>2 DEF Quantity
<1>5. AtMost(c, finding[f].verified)
    BY <1>2, <1>4 DEF AtMost, Quantity
<1>6. /\ row \in FindingRow /\ row.status = s /\ row.total = finding[f].total
      /\ row.rectified = finding[f].rectified /\ row.verified = finding[f].verified
      /\ row.closed = c
    BY <1>2, <1>4 DEF FindingRow, Status
<1>7. row \in GoodRow
    <2>1. /\ row.total["cases"] >= 1
          /\ AtMost(row.closed, row.verified) /\ AtMost(row.verified, row.rectified)
          /\ AtMost(row.rectified, row.total)
        BY <1>2, <1>5, <1>6 DEF GoodRow
    <2>2. CASE Covers(c, f)
        <3>1. row.status = "CLOSED" /\ AtMost(row.total, row.closed)
            BY <1>6, <2>2 DEF Covers
        <3> QED
            BY <1>6, <2>1, <3>1 DEF GoodRow, BeforeBranch
    <2>3. CASE ~Covers(c, f)
        <3>1. row.status = finding[f].status /\ ~AtMost(row.total, row.closed)
            BY <1>6, <2>3 DEF Covers
        <3> QED
            BY <1>1, <1>2, <1>6, <2>1, <3>1 DEF GoodRow
    <2> QED
        BY <2>2, <2>3
<1>8. cl \in ClosureRow /\ closures[f] \in Seq(ClosureRow)
    BY <1>2, <1>3 DEF ClosureRow, FindingRow, FInv, LedgersOK
<1>9. LedgersFit(row, rectifications[f], cls, transfers[f])
    <2>1. row # NoFinding
        BY <1>6, NoFindingIsNoRow
    <2>2. ASSUME NEW d \in Dim PROVE SumOfRows(cls, Periods, d) = c[d]
        <3>1. \A x \in ClosureRow : x.period \in Periods /\ x.qty \in Quantity
            BY DEF ClosureRow
        <3>2. SumOfRows(cls, Periods, d) = SumOfRows(closures[f], Periods, d) + n[d]
            BY <1>8, <3>1, RowsAppend
        <3> QED
            BY <1>1, <1>2, <1>4, <3>2 DEF LedgersFit, Exists
    <2>3. s = "TRANSFERRED" => finding[f].status = "TRANSFERRED"
        OBVIOUS
    <2> QED
        BY <1>1, <1>2, <1>6, <2>1, <2>2, <2>3 DEF LedgersFit, Exists
<1>10. /\ finding' = [finding EXCEPT ![f] = row]
       /\ rectifications' = [rectifications EXCEPT ![f] = rectifications[f]]
       /\ closures' = [closures EXCEPT ![f] = cls]
       /\ transfers' = [transfers EXCEPT ![f] = transfers[f]]
       /\ period' = period
    BY <1>2 DEF Close, DoClose, FInv, FindingsOK, LedgersOK, FindingRow
<1>11. SignedOK'
    BY DEF Close, DoClose, Sign, FInv, SignedOK
<1>12. /\ rectifications[f] \in Seq(RectificationRow) /\ cls \in Seq(ClosureRow)
       /\ transfers[f] \in Seq(TransferRow)
    BY <1>8 DEF FInv, LedgersOK
<1> QED
    BY <1>7, <1>9, <1>10, <1>11, <1>12, OneFinding

\* Whatever status a finding is sent back from, something is on record.
LEMMA ReturnStep ==
    ASSUME FInv, NEW u \in Users, NEW f \in Findings, ReturnRectification(u, f)
    PROVE  FInv'
<1>1. CanReturn(u, f) /\ DoReturn(f)
    BY DEF ReturnRectification
<1>2. Exists(f) /\ finding[f].status \in Returnable
    BY <1>1 DEF CanReturn
<1>3. /\ finding[f] \in GoodRow /\ finding[f] \in FindingRow
      /\ LedgersFit(finding[f], rectifications[f], closures[f], transfers[f])
      /\ finding[f].total \in Quantity
    BY <1>2, Known
<1>4. finding[f].rectified # Zero
    <2>1. CASE finding[f].status = "TRANSFERRED"
        <3>1. transfers[f] # <<>> /\ RectifiedSinceTransfer(f)
            BY <1>1, <1>2, <1>3, <2>1 DEF CanReturn, LedgersFit, Exists
        <3>2. rectifications[f] # <<>>
            BY <3>1 DEF RectifiedSinceTransfer
        <3> QED
            BY <1>2, <1>3, <3>2 DEF LedgersFit, Exists
    <2>2. CASE finding[f].status = "RECTIFIED"
        <3>1. AtMost(finding[f].total, finding[f].rectified) /\ finding[f].total["cases"] >= 1
            BY <1>3, <2>2 DEF GoodRow
        <3> QED
            BY <1>3, <3>1, QuantityZero DEF AtMost, Quantity, Dim
    <2>3. CASE finding[f].status = "PARTIALLY_RECTIFIED"
        BY <1>3, <2>3 DEF GoodRow
    <2> QED
        BY <1>2, <2>1, <2>2, <2>3 DEF Returnable
<1> DEFINE row == [finding[f] EXCEPT !.status = "RECTIFICATION_RETURNED"]
<1>5. /\ row \in FindingRow /\ row.status = "RECTIFICATION_RETURNED"
      /\ row.total = finding[f].total /\ row.rectified = finding[f].rectified
      /\ row.verified = finding[f].verified /\ row.closed = finding[f].closed
    BY <1>3 DEF FindingRow, Status
<1>6. row \in GoodRow
    BY <1>2, <1>3, <1>4, <1>5 DEF GoodRow, BeforeBranch, Returnable
<1>7. MoveTo(f, "RECTIFICATION_RETURNED") /\ UNCHANGED <<period, ledgers, signed>>
    BY <1>1 DEF DoReturn
<1>8. "RECTIFICATION_RETURNED" \in Status
    BY DEF Status
<1> QED
    BY <1>2, <1>6, <1>7, <1>8, StatusStep

\* Resubmission goes back to the status the counters call for.
LEMMA ResubmitStep ==
    ASSUME FInv, NEW u \in Users, NEW f \in Findings, ResubmitRectification(u, f)
    PROVE  FInv'
<1>1. CanResubmit(u, f) /\ DoResubmit(f)
    BY DEF ResubmitRectification
<1>2. Exists(f) /\ finding[f].status = "RECTIFICATION_RETURNED"
    BY <1>1 DEF CanResubmit
<1>3. finding[f] \in GoodRow /\ finding[f] \in FindingRow /\ finding[f].rectified # Zero
    BY <1>2, Known DEF GoodRow
<1> DEFINE s == IF Covers(finding[f].rectified, f) THEN "RECTIFIED" ELSE "PARTIALLY_RECTIFIED"
           row == [finding[f] EXCEPT !.status = s]
<1>4. MoveTo(f, s) /\ UNCHANGED <<period, ledgers, signed>>
    BY <1>1, <1>3 DEF DoResubmit
<1>5. /\ row \in FindingRow /\ row.status = s
      /\ row.total = finding[f].total /\ row.rectified = finding[f].rectified
      /\ row.verified = finding[f].verified /\ row.closed = finding[f].closed
    BY <1>3 DEF FindingRow, Status
<1>6. row \in GoodRow
    <2>1. CASE Covers(finding[f].rectified, f)
        <3>1. row.status = "RECTIFIED" /\ AtMost(row.total, row.rectified)
            BY <1>5, <2>1 DEF Covers
        <3> QED
            BY <1>2, <1>3, <1>5, <3>1 DEF GoodRow, BeforeBranch
    <2>2. CASE ~Covers(finding[f].rectified, f)
        <3>1. row.status = "PARTIALLY_RECTIFIED" /\ ~AtMost(row.total, row.rectified)
            BY <1>5, <2>2 DEF Covers
        <3> QED
            BY <1>2, <1>3, <1>5, <3>1 DEF GoodRow, BeforeBranch
    <2> QED
        BY <2>1, <2>2
<1>7. s \in Status /\ s # "TRANSFERRED"
    BY DEF Status
<1> QED
    BY <1>2, <1>4, <1>6, <1>7, StatusStep

-----------------------------------------------------------------------------
(* Reopening and transfer. *)

\* Reopening empties counters and ledgers together.
LEMMA ReopenStep ==
    ASSUME FInv, NEW u \in Users, NEW f \in Findings, Reopen(u, f)
    PROVE  FInv'
<1>1. Exists(f) /\ DoReopen(f)
    BY DEF Reopen, CanReopen
<1>2. finding[f] \in GoodRow /\ finding[f] \in FindingRow /\ finding[f].total \in Quantity
    BY <1>1, Known
<1>3. /\ Reopened(f) \in FindingRow /\ Reopened(f).status = "SENT_TO_BRANCH_MANAGER"
      /\ Reopened(f).total = finding[f].total
      /\ Reopened(f).rectified = Zero /\ Reopened(f).verified = Zero
      /\ Reopened(f).closed = Zero
    BY <1>2, QuantityZero DEF Reopened, FindingRow, Status
<1>4. finding[f].total["cases"] >= 1
    BY <1>2 DEF GoodRow
<1>5. AtMost(Zero, Zero) /\ AtMost(Zero, finding[f].total) /\ ~AtMost(finding[f].total, Zero)
    BY <1>2, <1>4, QuantityZero DEF AtMost, Quantity, Dim
<1>6. Reopened(f) \in GoodRow
    BY <1>3, <1>4, <1>5 DEF GoodRow
<1>7. LedgersFit(Reopened(f), <<>>, <<>>, transfers[f])
    <2>1. Reopened(f) # NoFinding
        BY <1>3 DEF NoFinding
    <2> QED
        BY <1>3, <2>1, RowsEmpty, QuantityZero DEF LedgersFit
<1>8. /\ finding' = [finding EXCEPT ![f] = Reopened(f)]
      /\ rectifications' = [rectifications EXCEPT ![f] = <<>>]
      /\ closures' = [closures EXCEPT ![f] = <<>>]
      /\ transfers' = [transfers EXCEPT ![f] = transfers[f]]
      /\ period' = period
    BY <1>1 DEF DoReopen, FInv, LedgersOK
<1>9. SignedOK'
    BY <1>1 DEF DoReopen, SignaturesAfterReopen, FInv, SignedOK
<1>10. /\ <<>> \in Seq(RectificationRow) /\ <<>> \in Seq(ClosureRow)
       /\ transfers[f] \in Seq(TransferRow)
    BY DEF FInv, LedgersOK
<1> QED
    BY <1>6, <1>7, <1>8, <1>9, <1>10, OneFinding

\* The row and the move of a transfer, made by hand or by locking a period
LEMMA TransferredRow ==
    ASSUME FInv, NEW f \in Findings, Exists(f), finding[f].status \in Transferable,
           NEW q \in Periods
    PROVE  /\ Transferred(f, q) \in GoodRow
           /\ Append(transfers[f], Move(f, q)) \in Seq(TransferRow)
           /\ LedgersFit(Transferred(f, q), rectifications[f], closures[f],
                         Append(transfers[f], Move(f, q)))
<1>1. /\ finding[f] \in GoodRow /\ finding[f] \in FindingRow
      /\ LedgersFit(finding[f], rectifications[f], closures[f], transfers[f])
      /\ finding[f].total \in Quantity /\ finding[f].rectified \in Quantity
      /\ finding[f].verified \in Quantity /\ finding[f].closed \in Quantity
      /\ AtMost(finding[f].rectified, finding[f].total)
      /\ AtMost(finding[f].verified, finding[f].rectified)
      /\ AtMost(finding[f].closed, finding[f].verified)
    BY Known
<1> DEFINE row == Transferred(f, q)
<1>2. /\ row \in FindingRow /\ row.status = "TRANSFERRED"
      /\ row.total = finding[f].total /\ row.rectified = finding[f].rectified
      /\ row.verified = finding[f].verified /\ row.closed = finding[f].closed
    BY <1>1 DEF Transferred, FindingRow, Status
<1>3. row \in GoodRow
    BY <1>1, <1>2 DEF GoodRow, BeforeBranch, Transferable, Rectifiable
<1>4. Move(f, q) \in TransferRow /\ transfers[f] \in Seq(TransferRow)
    <2>1. AtMost(finding[f].closed, finding[f].total)
        BY <1>1 DEF AtMost, Quantity
    <2>2. Unclosed(f) \in Quantity
        BY <1>1, <2>1, QuantityMinus DEF Unclosed
    <2> QED
        BY <1>1, <2>2 DEF Move, TransferRow, FindingRow, FInv, LedgersOK
<1>5. Append(transfers[f], Move(f, q)) # <<>>
    BY <1>4
<1>6. LedgersFit(row, rectifications[f], closures[f], Append(transfers[f], Move(f, q)))
    <2>1. row # NoFinding
        BY <1>2 DEF NoFinding
    <2> QED
        BY <1>1, <1>2, <1>5, <2>1 DEF LedgersFit, Exists
<1> QED
    BY <1>3, <1>4, <1>6

\* A transfer by hand
LEMMA TransferStep ==
    ASSUME FInv, NEW u \in Users, NEW f \in Findings, Transfer(u, f)
    PROVE  FInv'
<1>1. PICK q \in Periods : CanTransfer(u, f, q) /\ DoTransfer(f, q)
    BY DEF Transfer
<1>2. Exists(f) /\ finding[f].status \in Transferable
    BY <1>1 DEF CanTransfer
<1>3. /\ finding' = [finding EXCEPT ![f] = Transferred(f, q)]
      /\ rectifications' = [rectifications EXCEPT ![f] = rectifications[f]]
      /\ closures' = [closures EXCEPT ![f] = closures[f]]
      /\ transfers' = [transfers EXCEPT ![f] = Append(transfers[f], Move(f, q))]
      /\ period' = period /\ SignedOK'
    BY <1>1 DEF DoTransfer, FInv, LedgersOK, SignedOK
<1>4. rectifications[f] \in Seq(RectificationRow) /\ closures[f] \in Seq(ClosureRow)
    BY DEF FInv, LedgersOK
<1> QED
    BY <1>2, <1>3, <1>4, TransferredRow, OneFinding

-----------------------------------------------------------------------------
(* Steps on a period. *)

\* A step that touches no finding keeps the invariant if the periods stay typed.
LEMMA PeriodAlone ==
    ASSUME FInv, PeriodsOK', UNCHANGED <<finding, ledgers, signed>>
    PROVE  FInv'
    BY DEF FInv, FindingsOK, SignedOK, LedgersOK, LedgersMatch, ledgers

\* The three ways a period alone changes
LEMMA CreatePeriodStep ==
    ASSUME FInv, NEW u \in Users, NEW p \in Periods, CreatePeriod(u, p)
    PROVE  FInv'
<1>1. PICK at \in Dates : DoCreatePeriod(p, at)
    BY DEF CreatePeriod
<1>2. PeriodsOK'
    BY <1>1, InputsAssumption DEF DoCreatePeriod, FInv, PeriodsOK, PeriodRow
<1> QED
    BY <1>1, <1>2, PeriodAlone DEF DoCreatePeriod

\* Nothing the invariant says depends on a period being there.
LEMMA DeletePeriodStep ==
    ASSUME FInv, NEW u \in Users, NEW p \in Periods, DeletePeriod(u, p)
    PROVE  FInv'
<1>1. PeriodsOK'
    BY DEF DeletePeriod, DoDeletePeriod, FInv, PeriodsOK
<1> QED
    BY <1>1, PeriodAlone DEF DeletePeriod, DoDeletePeriod

\* The submission window is a flag of the period.
LEMMA MoveWindowStep ==
    ASSUME FInv, NEW p \in Periods, MoveWindow(p)
    PROVE  FInv'
<1>1. period[p] \in PeriodRow
    BY DEF MoveWindow, InUse, FInv, PeriodsOK
<1>2. [period[p] EXCEPT !.window = ~@] \in PeriodRow
    BY <1>1 DEF PeriodRow
<1>3. period' = [period EXCEPT ![p] = [period[p] EXCEPT !.window = ~@]]
    BY <1>1 DEF MoveWindow, FInv, PeriodsOK
<1>4. PeriodsOK'
    BY <1>2, <1>3 DEF FInv, PeriodsOK
<1> QED
    BY <1>4, PeriodAlone DEF MoveWindow

\* The value of a field of a PATCH, sent or not, is one the field can have.
LEMMA SentIn ==
    ASSUME NEW T, NEW values \in Optional(T), NEW otherwise
    PROVE  Sent(values, otherwise) \in T \/ Sent(values, otherwise) = otherwise
    BY DEF Optional, Sent

\* A PATCH of a period, with the transfers a lock may make
LEMMA PatchPeriodStep ==
    ASSUME FInv, NEW u \in Users, NEW p \in Periods, PatchPeriod(u, p)
    PROVE  FInv'
<1>1. PICK req \in PatchRequests, sweep \in BOOLEAN :
         /\ CanPatchPeriod(u, p, req)
         /\ DoPatchPeriod(p, req, ChangesStatus(p, req), sweep)
    BY DEF PatchPeriod
<1> DEFINE at == Sent(req.at, period[p].at)
           drafts == Sent(req.drafts, period[p].drafts)
           status == IF ChangesStatus(p, req) THEN req.status ELSE period[p].status
           dests == Destinations(p, at)
           dest == CHOOSE q \in dests : TRUE
           moved == IF ChangesStatus(p, req) /\ req.status = "LOCKED" /\ sweep /\ dests # {}
                    THEN Sweepable(p) ELSE {}
<1>2. period[p] \in PeriodRow
    BY <1>1 DEF CanPatchPeriod, InUse, FInv, PeriodsOK
<1>3. /\ req.status \in {"OPEN", "LOCKED", "KEEP"}
      /\ req.drafts \in Optional(DraftFlags) /\ req.at \in Optional(NewDates)
    BY DEF PatchRequests
<1>4. PeriodsOK'
    <2>1. at \in Nat /\ drafts \in BOOLEAN
        <3>1. period[p].at \in Nat /\ period[p].drafts \in BOOLEAN
            BY <1>2 DEF PeriodRow
        <3>2. at \in NewDates \/ at = period[p].at
            BY <1>3, SentIn
        <3>3. drafts \in DraftFlags \/ drafts = period[p].drafts
            BY <1>3, SentIn
        <3> HIDE DEF at, drafts
        <3> QED
            BY <3>1, <3>2, <3>3, InputsAssumption
    <2>2. status \in {"OPEN", "LOCKED"}
        BY <1>2, <1>3 DEF ChangesStatus, PeriodRow
    <2>3. period' = [period EXCEPT ![p] = [period[p] EXCEPT !.status = status, !.drafts = drafts,
                                                            !.at = at]]
        BY <1>1, <1>2 DEF DoPatchPeriod, FInv, PeriodsOK, PeriodRow
    <2>4. [period[p] EXCEPT !.status = status, !.drafts = drafts, !.at = at] \in PeriodRow
        BY <1>2, <2>1, <2>2 DEF PeriodRow
    <2> QED
        BY <2>3, <2>4 DEF FInv, PeriodsOK
<1>5. /\ finding' = [f \in Findings |->
            IF f \in moved THEN Transferred(f, dest) ELSE finding[f]]
      /\ transfers' = [f \in Findings |->
            IF f \in moved THEN Append(transfers[f], Move(f, dest)) ELSE transfers[f]]
      /\ UNCHANGED <<rectifications, closures, signed>>
    BY <1>1 DEF DoPatchPeriod
<1>6. ASSUME NEW f \in Findings
      PROVE  /\ finding'[f] \in GoodRow \cup {NoFinding}
             /\ transfers'[f] \in Seq(TransferRow)
             /\ LedgersFit(finding'[f], rectifications[f], closures[f], transfers'[f])
    <2>1. CASE f \in moved
        <3>1. Exists(f) /\ finding[f].status \in Transferable /\ dests # {}
            BY <2>1 DEF Sweepable, InPeriod
        <3>2. dest \in Periods
            BY <3>1 DEF Destinations
        <3>3. finding'[f] = Transferred(f, dest) /\ transfers'[f] = Append(transfers[f], Move(f, dest))
            BY <1>5, <2>1
        <3> QED
            BY <3>1, <3>2, <3>3, TransferredRow
    <2>2. CASE f \notin moved
        <3>1. finding'[f] = finding[f] /\ transfers'[f] = transfers[f]
            BY <1>5, <2>2
        <3> QED
            BY <3>1 DEF FInv, FindingsOK, LedgersOK, LedgersMatch
    <2> QED
        BY <2>1, <2>2
<1>7. FindingsOK' /\ LedgersOK'
    <2>1. FindingsOK'
        BY <1>5, <1>6 DEF FindingsOK
    <2>2. LedgersOK'
        BY <1>5, <1>6 DEF LedgersOK, FInv
    <2> QED
        BY <2>1, <2>2
<1>8. LedgersMatch' /\ SignedOK'
    BY <1>5, <1>6 DEF LedgersMatch, SignedOK, FInv
<1> QED
    BY <1>4, <1>7, <1>8 DEF FInv

-----------------------------------------------------------------------------
(* The theorems. *)

\* The empty database
LEMMA InitFInv == Init => FInv
<1> SUFFICES ASSUME Init PROVE FInv
    OBVIOUS
<1>1. FindingsOK /\ PeriodsOK /\ SignedOK
    BY DEF Init, TablesInit, FindingsOK, PeriodsOK, SignedOK
<1>2. LedgersOK
    BY DEF Init, TablesInit, LedgersOK
<1>3. LedgersMatch
    BY DEF Init, TablesInit, LedgersMatch, LedgersFit
<1> QED
    BY <1>1, <1>2, <1>3 DEF FInv

\* Every step of the workflow
LEMMA StepFInv == FInv /\ [Next]_tables => FInv'
<1> SUFFICES ASSUME FInv, [Next]_tables PROVE FInv'
    OBVIOUS
<1>1. ASSUME NEW u \in Users, NEW f \in Findings, FindingStep(u, f) PROVE FInv'
    BY <1>1, CreateStep, EditStep, DeleteStep, SubmitStep, ReviewStep, RectifyStep,
       RectifyItemsStep, VerifyStep, CloseStep, ReturnStep, ResubmitStep, ReopenStep,
       TransferStep DEF FindingStep
<1>2. ASSUME NEW u \in Users, NEW p \in Periods, PeriodStep(u, p) PROVE FInv'
    BY <1>2, CreatePeriodStep, PatchPeriodStep, DeletePeriodStep DEF PeriodStep
<1>3. ASSUME NEW p \in MovingWindows, MoveWindow(p) PROVE FInv'
    BY <1>3, MoveWindowStep, InputsAssumption
<1>4. CASE UNCHANGED tables
    BY <1>4 DEF tables, FInv, FindingsOK, PeriodsOK, SignedOK, LedgersOK, LedgersMatch
<1> QED
    BY <1>1, <1>2, <1>3, <1>4 DEF Next

\* The invariant is inductive for every instance.
THEOREM WorkflowInductive == Spec => []FInv
<1>1. Init => FInv
    BY InitFInv
<1>2. FInv /\ [Next]_tables => FInv'
    BY StepFInv
<1> QED
    BY <1>1, <1>2, PTL DEF Spec

\* What the invariant says, in the properties' words
LEMMA InvariantGives ==
    ASSUME FInv
    PROVE  TypeOK /\ CountersOrdered /\ StatusMatchesCounters /\ LedgerMatchesCounters
<1>1. TypeOK
    <2>1. GoodRow \subseteq FindingRow
        BY DEF GoodRow
    <2> QED
        BY <2>1 DEF FInv, FindingsOK, PeriodsOK, SignedOK, LedgersOK, TypeOK
<1>2. CountersOrdered
    BY Known DEF CountersOrdered, Present
<1>3. StatusMatchesCounters
    <2>1. SUFFICES ASSUME NEW f \in Present
                   PROVE  LET r == finding[f]
                          IN  /\ r.status \in BeforeBranch \cup {"SENT_TO_BRANCH_MANAGER"}
                                    => r.rectified = Zero
                              /\ r.status = "RECTIFIED" => Covers(r.rectified, f)
                              /\ r.status = "PARTIALLY_RECTIFIED" =>
                                    r.rectified # Zero /\ ~Covers(r.rectified, f)
                              /\ r.status = "RECTIFICATION_RETURNED" => r.rectified # Zero
                              /\ r.status = "CLOSED" <=> Covers(r.closed, f)
        BY DEF StatusMatchesCounters
    <2>2. finding[f] \in GoodRow
        BY <2>1, Known DEF Present
    <2> QED
        BY <2>2 DEF GoodRow, Covers
<1>4. LedgerMatchesCounters
    <2>1. ASSUME NEW f \in Present, NEW d \in Dim
          PROVE  /\ SumOfRows(rectifications[f], Periods, d) = finding[f].rectified[d]
                 /\ SumOfRows(closures[f], Periods, d) = finding[f].closed[d]
        BY <2>1, Known DEF Present, Exists, LedgersFit
    <2> QED
        BY <2>1 DEF LedgerMatchesCounters
<1> QED
    BY <1>1, <1>2, <1>3, <1>4

\* Every row of every table keeps its shape.
THEOREM WorkflowTypeCorrect == Spec => []TypeOK
BY InvariantGives, WorkflowInductive, PTL

\* closed <= verified <= rectified <= registered, in cases and in money,
\* whatever handlers run in whatever order.
THEOREM CountersStayOrdered == Spec => []CountersOrdered
BY InvariantGives, WorkflowInductive, PTL

\* A status always tells what the counters tell.
THEOREM StatusFitsCounters == Spec => []StatusMatchesCounters
BY InvariantGives, WorkflowInductive, PTL

\* The ledgers always add up to the counters.
THEOREM LedgersAddUp == Spec => []LedgerMatchesCounters
BY InvariantGives, WorkflowInductive, PTL
=============================================================================
