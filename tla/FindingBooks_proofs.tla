-------------------------- MODULE FindingBooks_proofs --------------------------
(***************************************************************************)
(* The workflow, with imported findings among the others, implements the   *)
(* FindingLifecycle, and what FindingWorkflow_proofs shows of findings     *)
(* registered here holds with the imported ones too.  Then the history:    *)
(* what was settled is undone by a reopening alone, and the periods guard  *)
(* what is registered in them.  Last, the books kept of a finding agree:   *)
(* the path of its transfers, the share each period has of it, its ticked  *)
(* cases and its balance; each of these proofs is about the shapes a step  *)
(* can have for one finding, so that a handler is opened once and not once *)
(* per invariant.  From those books the dashboards: what their periods     *)
(* show adds up to what the lifetime view shows.                           *)
(***************************************************************************)
EXTENDS FindingDashboards, FindingImport, FindingWorkflow_proofs

-----------------------------------------------------------------------------
(* Imported rows keep the workflow's invariant. *)

\* What a row attests to is part of what it registers, and everything exactly
\* when it is imported as closed.
LEMMA DeclaredFits ==
    ASSUME NEW u \in Users, NEW f \in Findings, NEW row \in ImportRows, CanImport(u, f, row)
    PROVE  /\ row.total \in Quantity /\ row.total["cases"] >= 1
           /\ Declared(row) \in Quantity /\ AtMost(Declared(row), row.total)
           /\ AtMost(row.total, Declared(row)) <=> row.status = "CLOSED"
           /\ row.status = "SENT_TO_BRANCH_MANAGER" => Declared(row) = Zero
<1>1. /\ row.status \in ImportStatuses /\ row.total \in Quantity /\ row.rectified \in [Dim -> Nat]
      /\ row.total["cases"] >= 1
    BY InputsAssumption DEF ImportRows, CanImport, Entries
<1>2. CASE row.status = "CLOSED"
    BY <1>1, <1>2 DEF Declared, AtMost, Quantity
<1>3. CASE row.status = "TRANSFERRED"
    <2>1. AtMost(row.rectified, row.total) /\ row.rectified["cases"] # row.total["cases"]
        BY <1>3 DEF CanImport, ValidProgress, Dim
    <2>2. ~AtMost(row.total, row.rectified)
        BY <1>1, <2>1 DEF AtMost, Quantity, Dim
    <2> QED
        BY <1>1, <1>3, <2>1, <2>2 DEF Declared, Quantity
<1>4. CASE row.status = "SENT_TO_BRANCH_MANAGER"
    <2>1. Declared(row) = Zero
        BY <1>4 DEF Declared
    <2> QED
        BY <1>1, <1>4, <2>1, QuantityZero DEF AtMost, Quantity, Dim
<1> QED
    BY <1>1, <1>2, <1>3, <1>4 DEF ImportStatuses

\* The row of findings an import leaves behind
Imported(u, row) ==
    [status |-> row.status, period |-> IF row.status = "TRANSFERRED" THEN row.to ELSE row.period,
     creator |-> u, total |-> row.total, rectified |-> Declared(row), verified |-> Declared(row),
     closed |-> Declared(row), items |-> <<>>, done |-> {}]

LEMMA ImportedIsGood ==
    ASSUME NEW u \in Users, NEW f \in Findings, NEW row \in ImportRows, CanImport(u, f, row)
    PROVE  Imported(u, row) \in GoodRow
<1>1. PICK done : done = Declared(row)
    OBVIOUS
<1>2. /\ row.total \in Quantity /\ row.total["cases"] >= 1
      /\ done \in Quantity /\ AtMost(done, row.total)
      /\ AtMost(row.total, done) <=> row.status = "CLOSED"
      /\ row.status = "SENT_TO_BRANCH_MANAGER" => done = Zero
    BY <1>1, DeclaredFits
<1>3. AtMost(done, done)
    BY <1>2 DEF AtMost, Quantity
<1>4. PICK place : place = IF row.status = "TRANSFERRED" THEN row.to ELSE row.period
    OBVIOUS
<1>5. place \in Periods /\ row.status \in ImportStatuses
    BY <1>4 DEF ImportRows
<1>6. Imported(u, row) =
        [status |-> row.status, period |-> place, creator |-> u, total |-> row.total,
         rectified |-> done, verified |-> done, closed |-> done, items |-> <<>>, done |-> {}]
    BY <1>1, <1>4 DEF Imported
<1>7. <<>> \in Seq(Nat) /\ row.status \in Status
    BY <1>5 DEF ImportStatuses, Status
<1>8. Imported(u, row) \in FindingRow
    BY <1>2, <1>5, <1>6, <1>7 DEF FindingRow
<1> QED
    BY <1>2, <1>3, <1>5, <1>6, <1>8 DEF GoodRow, ImportStatuses, BeforeBranch

\* A ledger with the one row of what was done before the import
LEMMA OneRowLedger ==
    ASSUME NEW R, \A x \in R : x.period \in Periods /\ x.qty \in Quantity,
           NEW row \in R, NEW d \in Dim
    PROVE  SumOfRows(<<row>>, Periods, d) = row.qty[d]
<1>1. <<>> \in Seq(R) /\ <<row>> = Append(<<>>, row)
    OBVIOUS
<1>2. SumOfRows(<<row>>, Periods, d) = SumOfRows(<<>>, Periods, d) + row.qty[d]
    BY <1>1, RowsAppend
<1>3. SumOfRows(<<>>, Periods, d) = 0 /\ row.qty[d] \in Nat
    BY RowsEmpty DEF Quantity
<1> QED
    BY <1>2, <1>3

LEMMA ImportStep ==
    ASSUME FInv, NEW u \in Users, NEW f \in Findings, ImportRow(u, f)
    PROVE  FInv'
<1>1. PICK row \in ImportRows : CanImport(u, f, row) /\ DoImport(u, f, row)
    BY DEF ImportRow
<1>2. PICK new : new = Imported(u, row)
    OBVIOUS
<1>3. PICK done : done = Declared(row)
    OBVIOUS
<1>4. done \in Quantity /\ row.total \in Quantity /\ AtMost(done, row.total)
    BY <1>1, <1>3, DeclaredFits
<1>5. row.period \in Periods /\ row.to \in Periods
    BY DEF ImportRows
<1>6. PICK rect : rect = [period |-> row.period, qty |-> done, after |-> 0]
    OBVIOUS
<1>7. PICK clos : clos = [period |-> row.period, qty |-> done]
    OBVIOUS
<1>8. PICK move : move = [from |-> row.period, to |-> row.to, qty |-> Minus(row.total, done)]
    OBVIOUS
<1>9. rect \in RectificationRow /\ clos \in ClosureRow /\ move \in TransferRow
    <2>1. Minus(row.total, done) \in Quantity
        BY <1>4, QuantityMinus
    <2> QED
        BY <1>4, <1>5, <1>6, <1>7, <1>8, <2>1 DEF RectificationRow, ClosureRow, TransferRow
<1>10. PICK recs : recs = IF done = Zero THEN <<>> ELSE <<rect>>
    OBVIOUS
<1>11. PICK cls : cls = IF done = Zero THEN <<>> ELSE <<clos>>
    OBVIOUS
<1>12. PICK moves : moves = IF row.status = "TRANSFERRED" THEN <<move>> ELSE <<>>
    OBVIOUS
<1>13. recs \in Seq(RectificationRow) /\ cls \in Seq(ClosureRow) /\ moves \in Seq(TransferRow)
    BY <1>9, <1>10, <1>11, <1>12
<1>14. /\ finding' = [finding EXCEPT ![f] = new]
       /\ rectifications' = [rectifications EXCEPT ![f] = recs]
       /\ closures' = [closures EXCEPT ![f] = cls]
       /\ transfers' = [transfers EXCEPT ![f] = moves]
       /\ period' = period /\ signed' = signed
    BY <1>1, <1>2, <1>3, <1>6, <1>7, <1>8, <1>10, <1>11, <1>12 DEF DoImport, Imported
<1>15. new \in GoodRow
    BY <1>1, <1>2, ImportedIsGood
<1>16. new # NoFinding /\ new.status = row.status /\ new.rectified = done /\ new.closed = done
    BY <1>2, <1>3 DEF Imported, NoFinding
<1>17. ASSUME NEW d \in Dim
       PROVE  SumOfRows(recs, Periods, d) = done[d] /\ SumOfRows(cls, Periods, d) = done[d]
    <2>1. CASE done = Zero
        BY <1>10, <1>11, <2>1, RowsEmpty, QuantityZero
    <2>2. CASE done # Zero
        <3>1. SumOfRows(<<rect>>, Periods, d) = rect.qty[d]
            <4>1. \A x \in RectificationRow : x.period \in Periods /\ x.qty \in Quantity
                BY DEF RectificationRow
            <4> QED
                BY <1>9, <4>1, OneRowLedger
        <3>2. SumOfRows(<<clos>>, Periods, d) = clos.qty[d]
            <4>1. \A x \in ClosureRow : x.period \in Periods /\ x.qty \in Quantity
                BY DEF ClosureRow
            <4> QED
                BY <1>9, <4>1, OneRowLedger
        <3>3. recs = <<rect>> /\ cls = <<clos>> /\ rect.qty = done /\ clos.qty = done
            BY <1>6, <1>7, <1>10, <1>11, <2>2
        <3> QED
            BY <3>1, <3>2, <3>3
    <2> QED
        BY <2>1, <2>2
<1>18. recs # <<>> => done # Zero
    BY <1>10
<1>19. row.status = "TRANSFERRED" => moves # <<>>
    BY <1>12
<1>20. LedgersFit(new, recs, cls, moves)
    BY <1>16, <1>17, <1>18, <1>19 DEF LedgersFit
<1>21. SignedOK'
    BY <1>14 DEF FInv, SignedOK
<1> QED
    BY <1>13, <1>14, <1>15, <1>20, <1>21, OneFinding

\* A reversal leaves the findings of the import without a row or a ledger, and
\* the others as they are.
LEMMA ReversalIs ==
    ASSUME NEW u \in Users, NEW S \in SUBSET Findings, ReverseImport(u, S), NEW f \in Findings
    PROVE  /\ f \in S => /\ finding'[f] = NoFinding /\ rectifications'[f] = <<>>
                         /\ closures'[f] = <<>> /\ transfers'[f] = <<>>
           /\ f \notin S => /\ finding'[f] = finding[f] /\ rectifications'[f] = rectifications[f]
                            /\ closures'[f] = closures[f] /\ transfers'[f] = transfers[f]
    BY DEF ReverseImport, DoReverse

LEMMA ReversalStep ==
    ASSUME FInv, NEW u \in Users, NEW S \in SUBSET Findings, ReverseImport(u, S)
    PROVE  FInv'
<1>1. FindingsOK' /\ PeriodsOK'
    BY DEF ReverseImport, DoReverse, FInv, FindingsOK, PeriodsOK
<1>2. SignedOK'
    BY DEF ReverseImport, DoReverse, FInv, SignedOK
<1>3. LedgersOK'
    <2>1. rectifications' \in [Findings -> Seq(RectificationRow)]
        BY DEF ReverseImport, DoReverse, FInv, LedgersOK
    <2>2. closures' \in [Findings -> Seq(ClosureRow)]
        BY DEF ReverseImport, DoReverse, FInv, LedgersOK
    <2>3. transfers' \in [Findings -> Seq(TransferRow)]
        BY DEF ReverseImport, DoReverse, FInv, LedgersOK
    <2> QED
        BY <2>1, <2>2, <2>3 DEF LedgersOK
<1>4. LedgersMatch'
    <2>1. SUFFICES ASSUME NEW f \in Findings
                   PROVE  LedgersFit(finding'[f], rectifications'[f], closures'[f], transfers'[f])
        BY DEF LedgersMatch
    <2>2. CASE f \in S
        BY <2>2, ReversalIs DEF LedgersFit
    <2>3. CASE f \notin S
        BY <2>3, ReversalIs DEF FInv, LedgersMatch
    <2> QED
        BY <2>2, <2>3
<1> QED
    BY <1>1, <1>2, <1>3, <1>4 DEF FInv

LEMMA ImportedStep == FInv /\ [ImportNext]_tables => FInv'
<1>1. ASSUME FInv, NEW u \in Users, NEW f \in Findings, ImportRow(u, f) PROVE FInv'
    BY <1>1, ImportStep
<1>2. ASSUME FInv, NEW u \in Users, NEW S \in SUBSET Findings, ReverseImport(u, S) PROVE FInv'
    BY <1>2, ReversalStep
<1> QED
    BY <1>1, <1>2, StepFInv DEF ImportNext

\* What most proofs need of the specification: who was imported is beside the tables.
LEMMA TablesOfImports == ImportSpec => Init /\ [][ImportNext]_tables
<1>1. [ImportNext]_everything => [ImportNext]_tables
    BY DEF everything
<1> QED
    BY <1>1, PTL DEF ImportSpec

\* The invariant of FindingWorkflow_proofs, imports included
THEOREM ImportedInductive == ImportSpec => []FInv
BY InitFInv, ImportedStep, TablesOfImports, PTL

\* Types, the order of the counters, the statuses and the ledger sums survive
\* findings that skip the whole workflow.
THEOREM ImportsFitIn ==
    ImportSpec => [](TypeOK /\ CountersOrdered /\ StatusMatchesCounters /\ LedgerMatchesCounters)
BY InvariantGives, ImportedInductive, PTL

-----------------------------------------------------------------------------
(* What shows of a row. *)

LEMMA AtMostChain ==
    ASSUME NEW q \in Quantity, NEW r \in Quantity, NEW s \in Quantity, NEW t \in Quantity,
           AtMost(q, r), AtMost(r, s), AtMost(s, t)
    PROVE  AtMost(q, t)
    BY DEF AtMost, Quantity

Shown(row) ==
    IF row # NoFinding THEN [phase |-> PhaseOf(row.status), owed |-> row.total, paid |-> row.closed]
                       ELSE [phase |-> "unknown"]

OwingStatuses == Status \ (BeforeBranch \cup {"CLOSED"})

LEMMA Phases ==
    ASSUME NEW s \in Status
    PROVE  /\ s \in Editable => PhaseOf(s) = "registering"
           /\ s \in Stages => PhaseOf(s) = "reviewing"
           /\ s = "REJECTED" => PhaseOf(s) = "rejected"
           /\ s = "CLOSED" => PhaseOf(s) = "settled"
           /\ s \in OwingStatuses => PhaseOf(s) = "owing"
           /\ PhaseOf(s) \in {"registering", "reviewing", "rejected", "owing", "settled"}
           /\ s \in BeforeBranch => PhaseOf(s) \in {"registering", "reviewing", "rejected"}
<1> USE DEF Status, Editable, Stages, BeforeBranch, OwingStatuses
<1>1. CASE s \in Editable
    BY <1>1 DEF PhaseOf
<1>2. CASE s \in Stages
    BY <1>2 DEF PhaseOf
<1>3. CASE s = "REJECTED"
    BY <1>3 DEF PhaseOf
<1>4. CASE s = "CLOSED"
    BY <1>4 DEF PhaseOf
<1>5. CASE s \in OwingStatuses
    BY <1>5 DEF PhaseOf
<1> QED
    BY <1>1, <1>2, <1>3, <1>4, <1>5

LEMMA RecordShows == record = [f \in Findings |-> Shown(finding[f])]
    BY DEF record, Shown, Exists

LEMMA RecordShowsNext == record' = [f \in Findings |-> Shown(finding'[f])]
    BY DEF record, Shown, Exists

\* The lifecycle's terms are the workflow's.
LEMMA SameTerms ==
    /\ Lifecycle!Quantity = Quantity /\ Lifecycle!Nothing = Zero
    /\ \A q, r : Lifecycle!Within(q, r) <=> AtMost(q, r)
    BY DEF Lifecycle!Quantity, Lifecycle!Nothing, Lifecycle!Within, Lifecycle!Dim,
           Quantity, Zero, AtMost, Dim

LEMMA ShownRow ==
    ASSUME NEW row \in FindingRow
    PROVE  /\ Shown(row) = [phase |-> PhaseOf(row.status), owed |-> row.total, paid |-> row.closed]
           /\ Shown(row) \in Lifecycle!Known
           /\ Shown(row).phase = PhaseOf(row.status)
           /\ Shown(row).owed = row.total /\ Shown(row).paid = row.closed
           /\ row.status \in Status
<1>1. row # NoFinding /\ row.status \in Status /\ row.total \in Quantity /\ row.closed \in Quantity
    BY NoFindingIsNoRow DEF FindingRow
<1>2. Shown(row) = [phase |-> PhaseOf(row.status), owed |-> row.total, paid |-> row.closed]
    BY <1>1 DEF Shown
<1>3. PhaseOf(row.status) \in {"registering", "reviewing", "rejected", "owing", "settled"}
    BY <1>1, Phases
<1> QED
    BY <1>1, <1>2, <1>3, SameTerms DEF Lifecycle!Known

\* A step on one row shows as a step on one record.
LEMMA OneShows ==
    ASSUME FInv, NEW f \in Findings, NEW row, finding' = [finding EXCEPT ![f] = row]
    PROVE  /\ record' = [record EXCEPT ![f] = Shown(row)]
           /\ record'[f] = Shown(row) /\ record[f] = Shown(finding[f])
           /\ finding'[f] = row
<1>1. finding'[f] = row /\ \A g \in Findings \ {f} : finding'[g] = finding[g]
    BY DEF FInv, FindingsOK
<1> QED
    BY <1>1, RecordShows, RecordShowsNext

\* A step on one row that shows on it, ...
LEMMA RowBecomes ==
    ASSUME FInv, NEW f \in Findings, NEW row \in FindingRow, finding' = [finding EXCEPT ![f] = row],
           NEW phases, PhaseOf(row.status) \in phases
    PROVE  /\ Lifecycle!Becomes(f, phases)
           /\ record'[f].phase = PhaseOf(row.status)
           /\ record'[f].owed = row.total /\ record'[f].paid = row.closed
<1>1. record' = [record EXCEPT ![f] = Shown(row)] /\ record'[f] = Shown(row)
    BY OneShows
<1>2. Shown(row) \in Lifecycle!Known /\ Shown(row).phase = PhaseOf(row.status)
      /\ Shown(row).owed = row.total /\ Shown(row).paid = row.closed
    BY ShownRow
<1> QED
    BY <1>1, <1>2 DEF Lifecycle!Becomes

\* ... and one that does not.
LEMMA RowUnmoved ==
    ASSUME FInv, NEW f \in Findings, Exists(f), NEW row \in FindingRow,
           finding' = [finding EXCEPT ![f] = row],
           PhaseOf(row.status) = PhaseOf(finding[f].status),
           row.total = finding[f].total, row.closed = finding[f].closed
    PROVE  record' = record
<1>1. record' = [record EXCEPT ![f] = Shown(row)] /\ record[f] = Shown(finding[f])
    BY OneShows
<1>2. Shown(row) = Shown(finding[f])
    BY Known, ShownRow
<1> QED
    BY <1>1, <1>2, RecordShows

LEMMA RecordKnown ==
    ASSUME FInv, NEW f \in Findings, Exists(f)
    PROVE  /\ record[f].phase = PhaseOf(finding[f].status)
           /\ record[f].owed = finding[f].total /\ record[f].paid = finding[f].closed
           /\ finding[f].status \in Status
    BY RecordShows, Known, ShownRow

LEMMA RecordUnknown ==
    ASSUME NEW f \in Findings, ~Exists(f)
    PROVE  record[f] = Lifecycle!Unknown
    BY RecordShows DEF Shown, Exists, Lifecycle!Unknown

\* Before the branch has a finding nothing of it is settled.
LEMMA NothingSettledYet ==
    ASSUME FInv, NEW f \in Findings, Exists(f), finding[f].status \in BeforeBranch
    PROVE  finding[f].rectified = Zero /\ finding[f].verified = Zero /\ finding[f].closed = Zero
<1>1. finding[f] \in GoodRow /\ finding[f].verified \in Quantity /\ finding[f].closed \in Quantity
      /\ AtMost(finding[f].verified, finding[f].rectified) /\ AtMost(finding[f].closed, finding[f].verified)
    BY Known
<1>2. finding[f].rectified = Zero
    BY <1>1 DEF GoodRow
<1>3. finding[f].verified = Zero
    BY <1>1, <1>2, QuantityNonZero, QuantityZero DEF AtMost, Quantity
<1>4. finding[f].closed = Zero
    BY <1>1, <1>3, QuantityNonZero, QuantityZero DEF AtMost, Quantity
<1> QED
    BY <1>2, <1>3, <1>4

-----------------------------------------------------------------------------
(* Every handler is a step of the lifecycle or invisible to it. *)

LEMMA MovedRow ==
    ASSUME FInv, NEW f \in Findings, Exists(f), NEW s \in Status, MoveTo(f, s)
    PROVE  \E row \in FindingRow :
              /\ finding' = [finding EXCEPT ![f] = row]
              /\ row.status = s /\ row.total = finding[f].total /\ row.closed = finding[f].closed
<1>1. finding[f] \in FindingRow
    BY Known
<1>2. PICK row : row = [finding[f] EXCEPT !.status = s]
    OBVIOUS
<1>3. row \in FindingRow /\ row.status = s /\ row.total = finding[f].total /\ row.closed = finding[f].closed
    BY <1>1, <1>2 DEF FindingRow
<1>4. finding' = [finding EXCEPT ![f] = row]
    BY <1>2 DEF MoveTo, FInv, FindingsOK
<1> QED
    BY <1>3, <1>4

\* A change of status between two that look alike
LEMMA MovedUnseen ==
    ASSUME FInv, NEW f \in Findings, Exists(f), NEW s \in Status, MoveTo(f, s),
           PhaseOf(s) = PhaseOf(finding[f].status)
    PROVE  record' = record
    BY MovedRow, RowUnmoved

LEMMA CreateShows ==
    ASSUME FInv, NEW u \in Users, NEW f \in Findings, Create(u, f)
    PROVE  Lifecycle!Register(f)
<1>1. PICK p \in Periods, total \in Totals, items \in Breakdowns \cup {<<>>}, submit \in BOOLEAN :
         CanCreate(u, f, p, total, items, submit) /\ DoCreate(u, f, p, total, items, submit)
    BY DEF Create
<1>2. PICK s \in {"DRAFT", "DISTRICT_REVIEW", "PENDING_BANK_APPROVAL", "SENT_TO_BRANCH_MANAGER"} :
         finding' = [finding EXCEPT ![f] =
              [status |-> s, period |-> p, creator |-> u, total |-> total,
               rectified |-> Zero, verified |-> Zero, closed |-> Zero,
               items |-> items, done |-> {}]]
    BY <1>1 DEF DoCreate, SubmittedStatuses
<1>3. PICK row : row = [status |-> s, period |-> p, creator |-> u, total |-> total,
               rectified |-> Zero, verified |-> Zero, closed |-> Zero,
               items |-> items, done |-> {}]
    OBVIOUS
<1>4. total \in Quantity /\ total["cases"] >= 1 /\ items \in Seq(Nat)
    <2>1. <<>> \in Seq(Nat)
        OBVIOUS
    <2> QED
        BY <1>1, <2>1, InputsAssumption DEF CanCreate
<1>5. row \in FindingRow /\ row.status = s /\ row.total = total /\ row.closed = Zero
    BY <1>3, <1>4, QuantityZero DEF FindingRow, Status
<1>6. finding' = [finding EXCEPT ![f] = row]
    BY <1>2, <1>3
<1>7. PhaseOf(s) \in {"registering", "reviewing", "owing"}
    BY Phases DEF Status, Editable, Stages, OwingStatuses, BeforeBranch
<1>8. record[f] = Lifecycle!Unknown
    BY <1>1, RecordUnknown DEF CanCreate, Exists
<1>9. Lifecycle!Becomes(f, {"registering", "reviewing", "owing"})
      /\ record'[f].owed = total /\ record'[f].paid = Zero
    BY <1>5, <1>6, <1>7, RowBecomes
<1>10. total["cases"] > 0
    BY <1>4 DEF Quantity, Dim
<1> QED
    BY <1>8, <1>9, <1>10, SameTerms DEF Lifecycle!Register, Lifecycle!Draws

LEMMA ImportShows ==
    ASSUME FInv, NEW u \in Users, NEW f \in Findings, ImportRow(u, f)
    PROVE  Lifecycle!Backfill(f)
<1>1. PICK row \in ImportRows : CanImport(u, f, row) /\ DoImport(u, f, row)
    BY DEF ImportRow
<1>2. PICK new : new = Imported(u, row)
    OBVIOUS
<1>3. finding' = [finding EXCEPT ![f] = new]
    BY <1>1, <1>2 DEF DoImport, Imported
<1>4. new \in GoodRow /\ new \in FindingRow
    BY <1>1, <1>2, ImportedIsGood DEF GoodRow
<1>5. new.status \in ImportStatuses
    BY <1>2 DEF Imported, ImportRows
<1>6. PhaseOf(new.status) = IF new.status = "CLOSED" THEN "settled" ELSE "owing"
    BY <1>5, Phases DEF ImportStatuses, Status, OwingStatuses, BeforeBranch
<1>7. record[f] = Lifecycle!Unknown
    BY <1>1, RecordUnknown DEF CanImport, Exists
<1>8. Lifecycle!Becomes(f, {"owing", "settled"}) /\ record'[f].phase = PhaseOf(new.status)
      /\ record'[f].owed = new.total /\ record'[f].paid = new.closed
    BY <1>3, <1>4, <1>6, RowBecomes
<1>9. /\ new.total \in Quantity /\ new.closed \in Quantity /\ new.total["cases"] > 0
      /\ AtMost(new.closed, new.total)
      /\ new.status = "CLOSED" <=> AtMost(new.total, new.closed)
    <2>1. /\ new.total \in Quantity /\ new.closed \in Quantity /\ new.total["cases"] >= 1
          /\ new.verified \in Quantity /\ new.rectified \in Quantity
          /\ AtMost(new.closed, new.verified) /\ AtMost(new.verified, new.rectified)
          /\ AtMost(new.rectified, new.total)
          /\ new.status = "CLOSED" <=> AtMost(new.total, new.closed)
        BY <1>4 DEF GoodRow, FindingRow
    <2> QED
        BY <2>1, AtMostChain DEF Quantity, Dim
<1>10. new.status = "CLOSED" <=> new.closed = new.total
    BY <1>9 DEF AtMost, Quantity
<1>11. imported' = imported \cup {f}
    BY <1>1 DEF DoImport
<1> QED
    BY <1>6, <1>7, <1>8, <1>9, <1>10, <1>11, SameTerms DEF Lifecycle!Backfill

LEMMA EditShows ==
    ASSUME FInv, NEW u \in Users, NEW f \in Findings, Edit(u, f)
    PROVE  Lifecycle!Amend(f)
<1>1. PICK q \in Periods, changes \in Changes : CanEdit(u, f, q, changes) /\ DoEdit(f, q, changes)
    BY DEF Edit
<1>2. Exists(f) /\ finding[f].status \in Editable
    BY <1>1 DEF CanEdit
<1>3. finding[f] \in GoodRow /\ finding[f] \in FindingRow /\ finding[f].closed = Zero
    BY <1>2, Known, NothingSettledYet DEF Editable, BeforeBranch
<1>4. FInv'
    BY EditStep
<1>5. PICK total : total = [d \in Dim |-> IF d \in DOMAIN changes THEN changes[d] ELSE finding[f].total[d]]
    OBVIOUS
<1>6. PICK row : row = [finding[f] EXCEPT !.period = q, !.total = total]
    OBVIOUS
<1>7. finding' = [finding EXCEPT ![f] = row]
    BY <1>1, <1>3, <1>5, <1>6 DEF DoEdit, FInv, FindingsOK, FindingRow
<1>8. row.status = finding[f].status /\ row.closed = Zero /\ row # NoFinding
    BY <1>3, <1>6 DEF FindingRow, NoFinding
<1>9. finding'[f] = row
    BY <1>7 DEF FInv, FindingsOK
<1>10. row \in GoodRow
    BY <1>4, <1>8, <1>9 DEF FInv, FindingsOK
<1>11. row \in FindingRow /\ row.total["cases"] > 0
    BY <1>10 DEF GoodRow, FindingRow, Quantity, Dim
<1>12. PhaseOf(row.status) = "registering" /\ PhaseOf(finding[f].status) = "registering"
    BY <1>2, <1>8, <1>11, ShownRow, Phases
<1>13. Lifecycle!Becomes(f, {"registering"}) /\ record'[f].owed = row.total /\ record'[f].paid = Zero
    BY <1>7, <1>8, <1>11, <1>12, RowBecomes
<1> QED
    BY <1>2, <1>11, <1>12, <1>13, RecordKnown, SameTerms DEF Lifecycle!Amend, Lifecycle!Draws

LEMMA DeleteShows ==
    ASSUME FInv, NEW u \in Users, NEW f \in Findings, Delete(u, f)
    PROVE  Lifecycle!Discard(f)
<1>1. /\ Exists(f) /\ finding[f].status \in {"DRAFT", "REJECTED"}
      /\ finding' = [finding EXCEPT ![f] = NoFinding]
    BY DEF Delete, CanDelete, DoDelete
<1>2. PhaseOf(finding[f].status) \in {"registering", "rejected"}
    BY <1>1, RecordKnown, Phases DEF Editable
<1>3. record' = [record EXCEPT ![f] = Lifecycle!Unknown]
    BY <1>1, OneShows DEF Shown, Lifecycle!Unknown
<1> QED
    BY <1>1, <1>2, <1>3, RecordKnown DEF Lifecycle!Discard

\* Submitting and reviewing: nothing is settled yet, and what is owed stays.
LEMMA EarlyMoveShows ==
    ASSUME FInv, NEW f \in Findings, Exists(f), finding[f].status \in BeforeBranch,
           NEW s \in Status, MoveTo(f, s), NEW phases, PhaseOf(s) \in phases
    PROVE  Lifecycle!Becomes(f, phases) /\ Lifecycle!Draws(f) /\ Lifecycle!Owes(f)
<1>1. finding[f].closed = Zero /\ finding[f].total \in Quantity /\ finding[f].total["cases"] >= 1
    BY NothingSettledYet, Known DEF GoodRow
<1>2. PICK row \in FindingRow :
              /\ finding' = [finding EXCEPT ![f] = row]
              /\ row.status = s /\ row.total = finding[f].total /\ row.closed = finding[f].closed
    BY MovedRow
<1>3. Lifecycle!Becomes(f, phases) /\ record'[f].owed = finding[f].total /\ record'[f].paid = Zero
    BY <1>1, <1>2, RowBecomes
<1>4. finding[f].total["cases"] > 0
    BY <1>1 DEF Quantity, Dim
<1> QED
    BY <1>3, <1>4, RecordKnown, SameTerms DEF Lifecycle!Draws, Lifecycle!Owes

LEMMA SubmitShows ==
    ASSUME FInv, NEW u \in Users, NEW f \in Findings, Submit(u, f)
    PROVE  Lifecycle!Submit(f)
<1>1. Exists(f) /\ finding[f].status \in Editable
    BY DEF Submit, CanSubmit
<1>2. PICK s \in {"DISTRICT_REVIEW", "PENDING_BANK_APPROVAL", "SENT_TO_BRANCH_MANAGER"} : MoveTo(f, s)
    BY DEF Submit, DoSubmit, SubmittedStatuses
<1>3. s \in Status /\ PhaseOf(s) \in {"reviewing", "owing"}
    BY Phases DEF Status, Stages, OwingStatuses, BeforeBranch
<1>4. finding[f].status \in BeforeBranch /\ PhaseOf(finding[f].status) = "registering"
    BY <1>1, RecordKnown, Phases DEF Editable, BeforeBranch
<1> QED
    BY <1>1, <1>2, <1>3, <1>4, EarlyMoveShows, RecordKnown DEF Lifecycle!Submit

LEMMA ReviewShows ==
    ASSUME FInv, NEW u \in Users, NEW f \in Findings, Review(u, f)
    PROVE  Lifecycle!Review(f)
<1>1. PICK stage \in Stages, decision \in Decisions :
          CanReview(u, f, stage, decision) /\ DoReview(f, stage, decision)
    BY DEF Review
<1>2. Exists(f) /\ finding[f].status \in Stages
    BY <1>1 DEF CanReview
<1>3. PICK s \in {"REJECTED", "RETURNED", "HO_REVIEW", "SENT_TO_BRANCH_MANAGER"} : MoveTo(f, s)
    BY <1>1 DEF DoReview, Decided
<1>4. s \in Status /\ PhaseOf(s) \in {"reviewing", "registering", "rejected", "owing"}
    BY Phases DEF Status, Stages, Editable, OwingStatuses, BeforeBranch
<1>5. finding[f].status \in BeforeBranch /\ PhaseOf(finding[f].status) = "reviewing"
    BY <1>2, RecordKnown, Phases DEF Stages, BeforeBranch
<1> QED
    BY <1>2, <1>3, <1>4, <1>5, EarlyMoveShows, RecordKnown DEF Lifecycle!Review

\* What is rectified, verified, returned, resubmitted or transferred does not
\* show: the branch owes it before and after.
LEMMA RectifiedUnseen ==
    ASSUME FInv, NEW u \in Users, NEW f \in Findings, MayRectify(u, f), NEW n, NEW S, DoRectify(f, n, S), FInv'
    PROVE  record' = record
<1>1. Exists(f) /\ finding[f].status \in Rectifiable /\ finding[f] \in FindingRow
    BY Known DEF MayRectify
<1>2. PICK r : r = Plus(finding[f].rectified, n)
    OBVIOUS
<1>3. PICK s \in {"RECTIFIED", "PARTIALLY_RECTIFIED"} :
          s = IF Covers(r, f) THEN "RECTIFIED" ELSE "PARTIALLY_RECTIFIED"
    OBVIOUS
<1>4. PICK row : row = [finding[f] EXCEPT !.rectified = r, !.done = finding[f].done \cup S, !.status = s]
    OBVIOUS
<1>5. finding' = [finding EXCEPT ![f] = row]
    BY <1>1, <1>2, <1>3, <1>4 DEF DoRectify, FInv, FindingsOK, FindingRow
<1>6. row.status = s /\ row.total = finding[f].total /\ row.closed = finding[f].closed /\ row # NoFinding
    BY <1>1, <1>3, <1>4 DEF FindingRow, NoFinding
<1>7. finding'[f] = row
    BY <1>5 DEF FInv, FindingsOK
<1>8. row \in FindingRow
    BY <1>6, <1>7 DEF FInv, FindingsOK, GoodRow
<1>9. PhaseOf(s) = "owing" /\ PhaseOf(finding[f].status) = "owing"
    BY <1>1, <1>3, Phases DEF Rectifiable, Status, OwingStatuses, BeforeBranch
<1> QED
    BY <1>1, <1>5, <1>6, <1>8, <1>9, RowUnmoved

LEMMA RectifyUnseen ==
    ASSUME FInv, NEW u \in Users, NEW f \in Findings, Rectify(u, f)
    PROVE  record' = record
<1>1. PICK n \in Entries : CanRectify(u, f, n) /\ DoRectify(f, n, {})
    BY DEF Rectify
<1>2. FInv' /\ MayRectify(u, f)
    BY <1>1, RectifyStep DEF CanRectify
<1> QED
    BY <1>1, <1>2, RectifiedUnseen

LEMMA RectifyItemsUnseen ==
    ASSUME FInv, NEW u \in Users, NEW f \in Findings, RectifyItems(u, f)
    PROVE  record' = record
<1>1. PICK S \in SUBSET DOMAIN finding[f].items : \E picks \in [S -> 1..Repeats] :
          CanRectifyItems(u, f, picks) /\ DoRectify(f, Picked(f, picks), S)
    BY DEF RectifyItems
<1>2. PICK n : DoRectify(f, n, S)
    BY <1>1
<1>3. FInv' /\ MayRectify(u, f)
    BY <1>1, RectifyItemsStep DEF CanRectifyItems
<1> QED
    BY <1>2, <1>3, RectifiedUnseen

LEMMA VerifyUnseen ==
    ASSUME FInv, NEW u \in Users, NEW f \in Findings, VerifyRectification(u, f)
    PROVE  record' = record
<1>1. Exists(f) /\ DoVerify(u, f, Verifiable(f))
    BY DEF VerifyRectification, CanVerify
<1>2. finding[f] \in FindingRow
    BY <1>1, Known
<1>3. PICK v : v = Plus(finding[f].verified, Verifiable(f))
    OBVIOUS
<1>4. PICK row : row = [finding[f] EXCEPT !.verified = v]
    OBVIOUS
<1>5. finding' = [finding EXCEPT ![f] = row]
    BY <1>1, <1>2, <1>3, <1>4 DEF DoVerify, FInv, FindingsOK, FindingRow
<1>6. row.status = finding[f].status /\ row.total = finding[f].total /\ row.closed = finding[f].closed
      /\ row # NoFinding
    BY <1>2, <1>4 DEF FindingRow, NoFinding
<1>7. finding'[f] = row
    BY <1>5 DEF FInv, FindingsOK
<1>8. row \in FindingRow
    BY <1>6, <1>7, VerifyStep DEF FInv, FindingsOK, GoodRow
<1> QED
    BY <1>1, <1>5, <1>6, <1>8, RowUnmoved

LEMMA ReturnUnseen ==
    ASSUME FInv, NEW u \in Users, NEW f \in Findings, ReturnRectification(u, f)
    PROVE  record' = record
<1>1. Exists(f) /\ finding[f].status \in Returnable /\ MoveTo(f, "RECTIFICATION_RETURNED")
    BY DEF ReturnRectification, CanReturn, DoReturn
<1>2. PhaseOf("RECTIFICATION_RETURNED") = "owing" /\ PhaseOf(finding[f].status) = "owing"
    BY <1>1, Phases DEF Returnable, Status, OwingStatuses, BeforeBranch
<1>3. "RECTIFICATION_RETURNED" \in Status
    BY DEF Status
<1> QED
    BY <1>1, <1>2, <1>3, MovedUnseen

LEMMA ResubmitUnseen ==
    ASSUME FInv, NEW u \in Users, NEW f \in Findings, ResubmitRectification(u, f)
    PROVE  record' = record
<1>1. Exists(f) /\ finding[f].status = "RECTIFICATION_RETURNED" /\ DoResubmit(f)
    BY DEF ResubmitRectification, CanResubmit
<1>2. PICK s \in {"RECTIFIED", "SENT_TO_BRANCH_MANAGER", "PARTIALLY_RECTIFIED"} : MoveTo(f, s)
    BY <1>1 DEF DoResubmit
<1>3. s \in Status /\ PhaseOf(s) = "owing" /\ PhaseOf(finding[f].status) = "owing"
    BY <1>1, <1>2, Phases DEF Status, OwingStatuses, BeforeBranch
<1> QED
    BY <1>1, <1>2, <1>3, MovedUnseen

\* A transfer, by hand or by the lock of a period
LEMMA TransferredLooksSame ==
    ASSUME FInv, NEW f \in Findings, Exists(f), finding[f].status \in Transferable, NEW q \in Periods
    PROVE  Shown(Transferred(f, q)) = Shown(finding[f])
<1>1. finding[f] \in FindingRow /\ Transferred(f, q) \in FindingRow
    BY Known, TransferredRow DEF GoodRow
<1>2. Transferred(f, q).status = "TRANSFERRED" /\ Transferred(f, q).total = finding[f].total
      /\ Transferred(f, q).closed = finding[f].closed
    BY <1>1 DEF Transferred, FindingRow
<1>3. PhaseOf("TRANSFERRED") = "owing" /\ PhaseOf(finding[f].status) = "owing"
    BY Phases DEF Transferable, Rectifiable, Status, OwingStatuses, BeforeBranch
<1> QED
    BY <1>1, <1>2, <1>3, ShownRow

LEMMA TransferUnseen ==
    ASSUME FInv, NEW u \in Users, NEW f \in Findings, Transfer(u, f)
    PROVE  record' = record
<1>1. PICK q \in Periods : CanTransfer(u, f, q) /\ DoTransfer(f, q)
    BY DEF Transfer
<1>2. finding' = [finding EXCEPT ![f] = Transferred(f, q)]
    BY <1>1 DEF DoTransfer
<1>3. record' = [record EXCEPT ![f] = Shown(Transferred(f, q))] /\ record[f] = Shown(finding[f])
    BY <1>2, OneShows
<1>4. Shown(Transferred(f, q)) = Shown(finding[f])
    BY <1>1, TransferredLooksSame DEF CanTransfer
<1> QED
    BY <1>3, <1>4, RecordShows

LEMMA PatchPeriodUnseen ==
    ASSUME FInv, NEW u \in Users, NEW p \in Periods, PatchPeriod(u, p)
    PROVE  record' = record
<1>1. PICK req \in PatchRequests, sweep \in BOOLEAN : DoPatchPeriod(p, req, ChangesStatus(p, req), sweep)
    BY DEF PatchPeriod
<1>2. PICK at : at = Sent(req.at, period[p].at)
    OBVIOUS
<1>3. PICK dests : dests = Destinations(p, at)
    OBVIOUS
<1>4. PICK moved : moved = IF ChangesStatus(p, req) /\ req.status = "LOCKED" /\ sweep /\ dests # {}
                           THEN Sweepable(p) ELSE {}
    OBVIOUS
<1>5. PICK dest : dest = CHOOSE q \in dests : TRUE
    OBVIOUS
<1>6. finding' = [f \in Findings |-> IF f \in moved THEN Transferred(f, dest) ELSE finding[f]]
    BY <1>1, <1>2, <1>3, <1>4, <1>5 DEF DoPatchPeriod
<1>7. ASSUME NEW f \in Findings PROVE Shown(finding'[f]) = Shown(finding[f])
    <2>1. CASE f \in moved
        <3>1. Exists(f) /\ finding[f].status \in Transferable /\ dests # {}
            BY <1>4, <2>1 DEF Sweepable, InPeriod
        <3>2. dest \in Periods
            BY <1>3, <1>5, <3>1 DEF Destinations
        <3> QED
            BY <1>6, <2>1, <3>1, <3>2, TransferredLooksSame
    <2>2. CASE f \notin moved
        BY <1>6, <2>2
    <2> QED
        BY <2>1, <2>2
<1> QED
    BY <1>7, RecordShows, RecordShowsNext

\* Closing settles what is rectified and verified, and the finding with it
\* exactly when that is everything.
LEMMA CloseShows ==
    ASSUME FInv, NEW u \in Users, NEW f \in Findings, Close(u, f)
    PROVE  Lifecycle!Settle(f)
<1>1. CanClose(u, f) /\ DoClose(u, f, Closable(f)) /\ Exists(f) /\ finding[f].status # "CLOSED"
    BY DEF Close, CanClose
<1>2. /\ finding[f] \in FindingRow /\ finding[f].total \in Quantity /\ finding[f].closed \in Quantity
      /\ finding[f].rectified \in Quantity /\ finding[f].verified \in Quantity
      /\ AtMost(finding[f].closed, finding[f].verified) /\ AtMost(finding[f].verified, finding[f].rectified)
      /\ AtMost(finding[f].rectified, finding[f].total)
    BY <1>1, Known
<1>3. finding[f].status \notin BeforeBranch
    <2>1. SUFFICES ASSUME finding[f].status \in BeforeBranch PROVE FALSE
        OBVIOUS
    <2>2. finding[f].rectified = Zero /\ finding[f].verified = Zero /\ finding[f].closed = Zero
        BY <1>1, <2>1, NothingSettledYet
    <2>3. \A d \in Dim : Closable(f)[d] = 0
        BY <2>2, QuantityZero DEF Closable, Minus, Least
    <2> QED
        BY <1>1, <2>3 DEF CanClose
<1>4. PhaseOf(finding[f].status) = "owing" /\ finding[f].status \in Status
    BY <1>1, <1>2, <1>3, Phases DEF FindingRow, OwingStatuses
<1>5. PICK c : c = Plus(finding[f].closed, Closable(f))
    OBVIOUS
<1>6. \A d \in Dim : c[d] = finding[f].verified[d]
    <2>1. SUFFICES ASSUME NEW d \in Dim PROVE c[d] = finding[f].verified[d]
        OBVIOUS
    <2>2. /\ finding[f].closed[d] \in Nat /\ finding[f].verified[d] \in Nat
          /\ finding[f].verified[d] <= finding[f].rectified[d]
        BY <1>2 DEF Quantity, AtMost
    <2>3. Closable(f)[d] = finding[f].verified[d] - finding[f].closed[d]
        <3>1. PICK l : l = Least(finding[f].rectified, finding[f].verified)
            OBVIOUS
        <3>2. l[d] = finding[f].verified[d]
            <4>1. finding[f].rectified[d] \in Nat
                BY <1>2 DEF Quantity
            <4> QED
                BY <2>2, <3>1, <4>1 DEF Least
        <3>3. Closable(f) = Minus(l, finding[f].closed)
            BY <3>1 DEF Closable
        <3> QED
            BY <3>2, <3>3 DEF Minus
    <2>4. c[d] = finding[f].closed[d] + Closable(f)[d]
        BY <1>5 DEF Plus
    <2> QED
        BY <2>2, <2>3, <2>4
<1>7. c \in Quantity /\ AtMost(finding[f].closed, c) /\ AtMost(c, finding[f].total)
    <2>1. c = [d \in Dim |-> c[d]]
        BY <1>5 DEF Plus
    <2>2. c \in Quantity
        BY <1>2, <1>6, <2>1 DEF Quantity
    <2> QED
        BY <1>2, <1>6, <2>2 DEF AtMost, Quantity
<1>8. PICK s \in Status : s = IF Covers(c, f) THEN "CLOSED" ELSE finding[f].status
    BY <1>4 DEF Status
<1>9. PICK row : row = [finding[f] EXCEPT !.closed = c, !.status = s]
    OBVIOUS
<1>10. finding' = [finding EXCEPT ![f] = row]
    BY <1>1, <1>2, <1>5, <1>8, <1>9 DEF DoClose, FInv, FindingsOK, FindingRow
<1>11. row \in FindingRow /\ row.status = s /\ row.total = finding[f].total /\ row.closed = c
    BY <1>2, <1>7, <1>8, <1>9 DEF FindingRow
<1>12. Covers(c, f) <=> c = finding[f].total
    BY <1>2, <1>7 DEF Covers, AtMost, Quantity
<1>13. PhaseOf(s) = IF c = finding[f].total THEN "settled" ELSE "owing"
    BY <1>4, <1>8, <1>12, Phases
<1>14. Lifecycle!Becomes(f, {"owing", "settled"}) /\ record'[f].phase = PhaseOf(s)
       /\ record'[f].owed = finding[f].total /\ record'[f].paid = c
    BY <1>10, <1>11, <1>13, RowBecomes
<1> QED
    BY <1>1, <1>4, <1>7, <1>13, <1>14, RecordKnown, SameTerms DEF Lifecycle!Settle, Lifecycle!Owes

LEMMA ReopenShows ==
    ASSUME FInv, NEW u \in Users, NEW f \in Findings, Reopen(u, f)
    PROVE  Lifecycle!Reopen(f)
<1>1. CanReopen(u, f) /\ DoReopen(f) /\ Exists(f)
    BY DEF Reopen, CanReopen
<1>2. finding[f] \in FindingRow
    BY <1>1, Known
<1>3. finding[f].status \notin BeforeBranch
    BY <1>1, NothingSettledYet, QuantityZero DEF CanReopen, BeforeBranch
<1>4. PhaseOf(finding[f].status) \in {"owing", "settled"}
    BY <1>2, <1>3, Phases DEF FindingRow, OwingStatuses
<1>5. PICK row : row = Reopened(f)
    OBVIOUS
<1>6. row.status = "SENT_TO_BRANCH_MANAGER" /\ row.total = finding[f].total /\ row.closed = Zero
      /\ row # NoFinding
    BY <1>2, <1>5 DEF Reopened, FindingRow, NoFinding
<1>7. finding' = [finding EXCEPT ![f] = row]
    BY <1>1, <1>5 DEF DoReopen
<1>8. finding'[f] = row
    BY <1>7 DEF FInv, FindingsOK
<1>9. row \in FindingRow
    BY <1>6, <1>8, ReopenStep DEF FInv, FindingsOK, GoodRow
<1>10. PhaseOf(row.status) = "owing"
    BY <1>6, Phases DEF Status, OwingStatuses, BeforeBranch
<1>11. Lifecycle!Becomes(f, {"owing"}) /\ record'[f].owed = finding[f].total /\ record'[f].paid = Zero
    BY <1>6, <1>7, <1>9, <1>10, RowBecomes
<1> QED
    BY <1>1, <1>4, <1>11, RecordKnown, SameTerms DEF Lifecycle!Reopen, Lifecycle!Owes

-----------------------------------------------------------------------------
(* The theorems. *)

\* What a handler may look like
Seen(f) ==
    \/ Lifecycle!Register(f) \/ Lifecycle!Amend(f) \/ Lifecycle!Submit(f) \/ Lifecycle!Review(f)
    \/ Lifecycle!Discard(f) \/ Lifecycle!Settle(f) \/ Lifecycle!Reopen(f)

LEMMA FindingStepShows ==
    ASSUME FInv, NEW u \in Users, NEW f \in Findings, FindingStep(u, f)
    PROVE  Seen(f) \/ record' = record
<1>1. CASE Create(u, f)
    BY <1>1, CreateShows DEF Seen
<1>2. CASE Edit(u, f)
    BY <1>2, EditShows DEF Seen
<1>3. CASE Delete(u, f)
    BY <1>3, DeleteShows DEF Seen
<1>4. CASE Submit(u, f)
    BY <1>4, SubmitShows DEF Seen
<1>5. CASE Review(u, f)
    BY <1>5, ReviewShows DEF Seen
<1>6. CASE Close(u, f)
    BY <1>6, CloseShows DEF Seen
<1>7. CASE Reopen(u, f)
    BY <1>7, ReopenShows DEF Seen
<1> QED
    BY <1>1, <1>2, <1>3, <1>4, <1>5, <1>6, <1>7, RectifyUnseen, RectifyItemsUnseen, VerifyUnseen,
       ReturnUnseen, ResubmitUnseen, TransferUnseen DEF FindingStep

LEMMA StepShows ==
    ASSUME FInv, [Next]_tables
    PROVE  (\E f \in Findings : Seen(f)) \/ record' = record
<1>1. ASSUME NEW u \in Users, NEW p \in Periods, PeriodStep(u, p) PROVE record' = record
    <2>1. CASE PatchPeriod(u, p)
        BY <2>1, PatchPeriodUnseen
    <2>2. CASE CreatePeriod(u, p) \/ DeletePeriod(u, p)
        <3>1. finding' = finding
            BY <2>2 DEF CreatePeriod, DeletePeriod, DoCreatePeriod, DoDeletePeriod
        <3> QED
            BY <3>1, RecordShows, RecordShowsNext
    <2> QED
        BY <1>1, <2>1, <2>2 DEF PeriodStep
<1>2. ASSUME NEW p \in MovingWindows, MoveWindow(p) PROVE record' = record
    BY <1>2, RecordShows, RecordShowsNext DEF MoveWindow
<1>3. CASE UNCHANGED tables
    BY <1>3, RecordShows, RecordShowsNext DEF tables
<1> QED
    BY <1>1, <1>2, <1>3, FindingStepShows DEF Next

\* A finding the branch has stays with the branch, whatever a handler does.
LEMMA BranchKeeps ==
    ASSUME FInv, FInv', [Next]_tables, NEW f \in Findings,
           Exists(f), finding[f].status \notin BeforeBranch
    PROVE  /\ Exists(f)'
           /\ finding'[f].status \notin BeforeBranch
           /\ finding'[f].total = finding[f].total
<1>1. record[f].phase \in {"owing", "settled"} /\ record[f].owed = finding[f].total
    BY RecordKnown, Phases DEF OwingStatuses
<1>2. record'[f].phase \in {"owing", "settled"} /\ record'[f].owed = record[f].owed
    <2>1. CASE record' = record
        BY <1>1, <2>1
    <2>2. CASE \E g \in Findings : Seen(g)
        <3>1. PICK g \in Findings : Seen(g)
            BY <2>2
        <3>2. CASE g # f
            <4>1. record'[f] = record[f]
                BY <3>1, <3>2, RecordShows DEF Seen, Lifecycle!Register, Lifecycle!Amend,
                   Lifecycle!Submit, Lifecycle!Review, Lifecycle!Discard, Lifecycle!Settle,
                   Lifecycle!Reopen, Lifecycle!Becomes
            <4> QED
                BY <1>1, <4>1
        <3>3. CASE g = f
            <4>1. Lifecycle!Settle(f) \/ Lifecycle!Reopen(f)
                BY <1>1, <3>1, <3>3 DEF Seen, Lifecycle!Register, Lifecycle!Amend,
                   Lifecycle!Submit, Lifecycle!Review, Lifecycle!Discard, Lifecycle!Unknown
            <4> QED
                BY <4>1 DEF Lifecycle!Settle, Lifecycle!Reopen, Lifecycle!Becomes, Lifecycle!Owes
        <3> QED
            BY <3>2, <3>3
    <2> QED
        BY <2>1, <2>2, StepShows
<1>3. Exists(f)'
    <2>1. SUFFICES ASSUME ~Exists(f)' PROVE FALSE
        OBVIOUS
    <2>2. record'[f].phase = "unknown"
        BY <2>1, RecordShowsNext DEF Shown, Exists
    <2> QED
        BY <1>2, <2>2
<1>4. finding'[f] \in FindingRow
    BY <1>3 DEF FInv, FindingsOK, Exists, GoodRow
<1>5. record'[f].phase = PhaseOf(finding'[f].status) /\ record'[f].owed = finding'[f].total
      /\ finding'[f].status \in Status
    BY <1>4, RecordShowsNext, ShownRow
<1>6. finding'[f].status \notin BeforeBranch
    BY <1>2, <1>5, Phases
<1> QED
    BY <1>1, <1>2, <1>3, <1>5, <1>6

-----------------------------------------------------------------------------
(* Imported findings are with the branch until they are withdrawn. *)

ImportedAreOwed ==
    imported \subseteq {f \in Findings : Exists(f) /\ finding[f].status \notin BeforeBranch}

\* The row an import writes
LEMMA ImportOwes ==
    ASSUME FInv, NEW u \in Users, NEW f \in Findings, ImportRow(u, f)
    PROVE  /\ Exists(f)' /\ finding'[f].status \notin BeforeBranch /\ ~Exists(f)
           /\ imported' = imported \cup {f}
           /\ \A g \in Findings \ {f} : finding'[g] = finding[g]
<1>1. PICK row \in ImportRows : CanImport(u, f, row) /\ DoImport(u, f, row)
    BY DEF ImportRow
<1>2. finding'[f] = Imported(u, row) /\ \A g \in Findings \ {f} : finding'[g] = finding[g]
    BY <1>1 DEF DoImport, Imported, FInv, FindingsOK
<1>3. Imported(u, row) \in FindingRow /\ Imported(u, row).status \in ImportStatuses
    BY <1>1, ImportedIsGood DEF GoodRow, Imported, ImportRows
<1>4. finding'[f] # NoFinding /\ finding'[f].status \notin BeforeBranch
    BY <1>2, <1>3, NoFindingIsNoRow DEF ImportStatuses, BeforeBranch
<1>5. finding[f] = NoFinding /\ imported' = imported \cup {f}
    BY <1>1 DEF CanImport, DoImport
<1> QED
    BY <1>2, <1>4, <1>5 DEF Exists

LEMMA ImportedStayOwed ==
    ASSUME FInv, FInv', ImportedAreOwed, [ImportNext]_everything
    PROVE  ImportedAreOwed'
<1>1. SUFFICES ASSUME NEW f \in imported'
               PROVE  f \in Findings /\ Exists(f)' /\ finding'[f].status \notin BeforeBranch
    BY DEF ImportedAreOwed, Exists
<1>2. CASE [Next]_tables /\ UNCHANGED imported
    BY <1>1, <1>2, BranchKeeps DEF ImportedAreOwed
<1>3. ASSUME NEW u \in Users, NEW g \in Findings, ImportRow(u, g)
      PROVE  f \in Findings /\ Exists(f)' /\ finding'[f].status \notin BeforeBranch
    BY <1>1, <1>3, ImportOwes DEF ImportedAreOwed, Exists
<1>4. ASSUME NEW u \in Users, NEW S \in SUBSET Findings, ReverseImport(u, S)
      PROVE  f \in Findings /\ Exists(f)' /\ finding'[f].status \notin BeforeBranch
    <2>1. f \in imported /\ f \notin S /\ f \in Findings
        BY <1>1, <1>4 DEF ReverseImport, DoReverse, ImportedAreOwed
    <2> QED
        BY <1>4, <2>1, ReversalIs DEF ImportedAreOwed, Exists
<1> QED
    BY <1>2, <1>3, <1>4 DEF ImportNext, everything

\* Imported findings exist, past registration and review: no route but the
\* reversal removes one, so the set names no finding that is gone.
THEOREM ImportedStayWithBranch == ImportSpec => []ImportedAreOwed
<1>1. Init /\ imported = {} => ImportedAreOwed
    BY DEF ImportedAreOwed
<1>2. FInv /\ FInv' /\ ImportedAreOwed /\ [ImportNext]_everything => ImportedAreOwed'
    BY ImportedStayOwed
<1> QED
    BY <1>1, <1>2, ImportedInductive, PTL DEF ImportSpec

LEMMA ReversalShows ==
    ASSUME ImportedAreOwed, FInv, NEW u \in Users, NEW S \in SUBSET Findings, ReverseImport(u, S)
    PROVE  Lifecycle!Withdraw(S)
<1>1. S # {} /\ S \subseteq imported /\ imported' = imported \ S
    BY DEF ReverseImport, CanReverse, DoReverse
<1>2. \A f \in S : record[f].phase \in {"owing", "settled"}
    BY <1>1, RecordKnown, Phases DEF ImportedAreOwed, OwingStatuses
<1>3. record' = [f \in Findings |-> IF f \in S THEN Lifecycle!Unknown ELSE record[f]]
    BY ReversalIs, RecordShows, RecordShowsNext DEF Shown, Lifecycle!Unknown
<1> QED
    BY <1>1, <1>2, <1>3 DEF Lifecycle!Withdraw

\* The workflow, imports and their reversals included, does what the lifecycle
\* allows of each finding and nothing else.
THEOREM WorkflowImplementsLifecycle == ImportSpec => ImplementsLifecycle
<1>1. Init /\ imported = {} => Lifecycle!Init
    BY RecordShows DEF Init, TablesInit, Lifecycle!Init, Lifecycle!Unknown, Shown
<1>2. FInv /\ ImportedAreOwed /\ [ImportNext]_everything => [Lifecycle!Next]_<<record, imported>>
    <2>1. SUFFICES ASSUME FInv, ImportedAreOwed, [ImportNext]_everything
                   PROVE  Lifecycle!Next \/ (record' = record /\ imported' = imported)
        OBVIOUS
    <2>2. CASE [Next]_tables /\ UNCHANGED imported
        BY <2>1, <2>2, StepShows DEF Seen, Lifecycle!Next
    <2>3. ASSUME NEW u \in Users, NEW f \in Findings, ImportRow(u, f) PROVE Lifecycle!Next
        BY <2>1, <2>3, ImportShows DEF Lifecycle!Next
    <2>4. ASSUME NEW u \in Users, NEW S \in SUBSET Findings, ReverseImport(u, S) PROVE Lifecycle!Next
        BY <2>1, <2>4, ReversalShows DEF Lifecycle!Next
    <2> QED
        BY <2>1, <2>2, <2>3, <2>4 DEF ImportNext, everything
<1> QED
    BY <1>1, <1>2, ImportedInductive, ImportedStayWithBranch, PTL
    DEF ImportSpec, ImplementsLifecycle, Lifecycle!Spec

\* What the branch has been given stays given, and what it owes stays what
\* was registered: the lifecycle settles and reopens.  Only what was imported
\* can be taken back, by the reversal of its import.
THEOREM BranchSideStaysFinal == ImportSpec => BranchSideIsFinal
<1> DEFINE Final == \A f \in Findings :
          Exists(f) /\ finding[f].status \notin BeforeBranch =>
              \/ /\ Exists(f)'
                 /\ finding'[f].status \notin BeforeBranch
                 /\ finding'[f].total = finding[f].total
              \/ Withdrawn(f)
<1>1. FInv /\ FInv' /\ [ImportNext]_everything => [Final]_everything
    <2>1. SUFFICES ASSUME FInv, FInv', [ImportNext]_everything, NEW f \in Findings,
                          Exists(f), finding[f].status \notin BeforeBranch
                   PROVE  \/ /\ Exists(f)'
                             /\ finding'[f].status \notin BeforeBranch
                             /\ finding'[f].total = finding[f].total
                          \/ Withdrawn(f)
        OBVIOUS
    <2>2. CASE [Next]_tables
        BY <2>1, <2>2, BranchKeeps
    <2>3. ASSUME NEW u \in Users, NEW g \in Findings, ImportRow(u, g)
          PROVE  /\ Exists(f)'
                 /\ finding'[f].status \notin BeforeBranch
                 /\ finding'[f].total = finding[f].total
        BY <2>1, <2>3, ImportOwes DEF Exists
    <2>4. ASSUME NEW u \in Users, NEW S \in SUBSET Findings, ReverseImport(u, S), f \in S
          PROVE  Withdrawn(f)
        <3>1. f \in imported /\ f \notin imported'
            BY <2>4 DEF ReverseImport, CanReverse, DoReverse
        <3> QED
            BY <2>4, <3>1, ReversalIs DEF Withdrawn, Exists
    <2>5. ASSUME NEW u \in Users, NEW S \in SUBSET Findings, ReverseImport(u, S), f \notin S
          PROVE  /\ Exists(f)'
                 /\ finding'[f].status \notin BeforeBranch
                 /\ finding'[f].total = finding[f].total
        BY <2>1, <2>5, ReversalIs DEF Exists
    <2> QED
        BY <2>1, <2>2, <2>3, <2>4, <2>5 DEF ImportNext, everything
<1> QED
    BY <1>1, ImportedInductive, PTL DEF ImportSpec, BranchSideIsFinal

-----------------------------------------------------------------------------
(* What a step may do to a finding: before the branch has it, what the     *)
(* registration and review routes do while its period lets them; after,    *)
(* its counters and ledgers grow or a reopening wipes them.                *)

RowKept(f) ==
    /\ finding'[f] = finding[f] /\ rectifications'[f] = rectifications[f]
    /\ closures'[f] = closures[f] /\ transfers'[f] = transfers[f]

Early(f) == ~Exists(f) \/ finding[f].status \in BeforeBranch

\* The routes of registration and review, and imports
Registering(u, f) ==
    Create(u, f) \/ Edit(u, f) \/ Delete(u, f) \/ Submit(u, f) \/ Review(u, f)

Grown(f) ==
    /\ AtMost(finding[f].rectified, finding'[f].rectified)
    /\ AtMost(finding[f].verified, finding'[f].verified)
    /\ AtMost(finding[f].closed, finding'[f].closed)
    /\ finding[f].status = "CLOSED" => finding'[f].status = "CLOSED"
    /\ IsPrefix(rectifications[f], rectifications'[f])
    /\ IsPrefix(closures[f], closures'[f])
    /\ IsPrefix(transfers[f], transfers'[f])

Wiped(f) ==
    /\ finding'[f].status = "SENT_TO_BRANCH_MANAGER"
    /\ finding'[f].rectified = Zero /\ finding'[f].verified = Zero
    /\ finding'[f].closed = Zero /\ finding'[f].done = {}
    /\ rectifications'[f] = <<>> /\ closures'[f] = <<>>
    /\ transfers'[f] = transfers[f]

\* The finding is the branch's, and if it moves it is to an open period.
Worked(f) ==
    /\ ~Early(f)
    /\ \/ finding'[f].period = finding[f].period
       \/ period[finding'[f].period].status = "OPEN"
    /\ Grown(f) \/ Wiped(f)

LEMMA Ledgers ==
    ASSUME FInv, NEW f \in Findings
    PROVE  /\ rectifications[f] \in Seq(RectificationRow)
           /\ closures[f] \in Seq(ClosureRow) /\ transfers[f] \in Seq(TransferRow)
    BY DEF FInv, LedgersOK

\* A step on the row of f alone
LEMMA RowAlone ==
    ASSUME FInv, NEW f \in Findings, NEW row,
           finding' = [finding EXCEPT ![f] = row], UNCHANGED ledgers
    PROVE  /\ finding'[f] = row
           /\ \A g \in Findings \ {f} : RowKept(g)
           /\ IsPrefix(rectifications[f], rectifications'[f])
           /\ IsPrefix(closures[f], closures'[f])
           /\ IsPrefix(transfers[f], transfers'[f])
<1>1. finding'[f] = row /\ \A g \in Findings \ {f} : finding'[g] = finding[g]
    BY DEF FInv, FindingsOK
<1>2. rectifications' = rectifications /\ closures' = closures /\ transfers' = transfers
    BY DEF ledgers
<1>3. /\ IsPrefix(rectifications[f], rectifications[f])
      /\ IsPrefix(closures[f], closures[f])
      /\ IsPrefix(transfers[f], transfers[f])
    BY Ledgers, RowsKept
<1> QED
    BY <1>1, <1>2, <1>3 DEF RowKept

LEMMA AtMostSelf == \A q \in Quantity : AtMost(q, q)
    BY DEF AtMost, Quantity

-----------------------------------------------------------------------------
(* Registration and review leave the other findings alone. *)

LEMMA RegisteringAlone ==
    ASSUME FInv, NEW u \in Users, NEW f \in Findings, Registering(u, f)
    PROVE  \A g \in Findings \ {f} : RowKept(g)
<1>1. CASE Create(u, f)
    BY <1>1, RowAlone DEF Create, DoCreate
<1>2. CASE Edit(u, f)
    <2>1. PICK q \in Periods, changes \in Changes : DoEdit(f, q, changes)
        BY <1>2 DEF Edit
    <2>2. \A g \in Findings \ {f} : finding'[g] = finding[g]
        BY <2>1 DEF DoEdit, FInv, FindingsOK
    <2> QED
        BY <2>1, <2>2 DEF DoEdit, ledgers, RowKept
<1>3. CASE Delete(u, f)
    BY <1>3 DEF Delete, DoDelete, RowKept, FInv, FindingsOK, LedgersOK
<1>4. ASSUME NEW s, MoveTo(f, s), UNCHANGED ledgers
      PROVE  \A g \in Findings \ {f} : RowKept(g)
    BY <1>4 DEF MoveTo, ledgers, RowKept, FInv, FindingsOK
<1>5. CASE Submit(u, f)
    BY <1>4, <1>5 DEF Submit, DoSubmit
<1>6. CASE Review(u, f)
    BY <1>4, <1>6 DEF Review, DoReview
<1> QED
    BY <1>1, <1>2, <1>3, <1>5, <1>6 DEF Registering

-----------------------------------------------------------------------------
(* Work on a finding the branch has. *)

LEMMA RectifiedWorks ==
    ASSUME FInv, NEW u \in Users, NEW f \in Findings, MayRectify(u, f),
           NEW n \in Quantity, NEW S, DoRectify(f, n, S)
    PROVE  Worked(f) /\ \A g \in Findings \ {f} : RowKept(g)
<1>1. Exists(f) /\ finding[f].status \in Rectifiable /\ finding[f] \in FindingRow
      /\ finding[f].rectified \in Quantity /\ finding[f].verified \in Quantity /\ finding[f].closed \in Quantity
    BY Known DEF MayRectify
<1>2. PICK r : r = Plus(finding[f].rectified, n)
    OBVIOUS
<1>3. AtMost(finding[f].rectified, r)
    BY <1>1, <1>2 DEF Plus, AtMost, Quantity
<1>4. PICK s : s = IF Covers(r, f) THEN "RECTIFIED" ELSE "PARTIALLY_RECTIFIED"
    OBVIOUS
<1>5. PICK row : row = [finding[f] EXCEPT !.rectified = r, !.done = finding[f].done \cup S, !.status = s]
    OBVIOUS
<1>6. finding' = [finding EXCEPT ![f] = row]
    BY <1>1, <1>2, <1>4, <1>5 DEF DoRectify, FInv, FindingsOK, FindingRow
<1>7. row.rectified = r /\ row.verified = finding[f].verified /\ row.closed = finding[f].closed
      /\ row.period = finding[f].period
    BY <1>1, <1>5 DEF FindingRow
<1>8. PICK rect : rect = [period |-> finding[f].period, qty |-> n, after |-> Len(transfers[f])]
    OBVIOUS
<1>9. rect \in RectificationRow
    BY <1>1, <1>8, Ledgers DEF RectificationRow, FindingRow
<1>10. /\ rectifications' = [rectifications EXCEPT ![f] = Append(rectifications[f], rect)]
       /\ closures' = closures /\ transfers' = transfers
    BY <1>8 DEF DoRectify
<1>11. /\ rectifications'[f] = Append(rectifications[f], rect)
       /\ \A g \in Findings \ {f} : rectifications'[g] = rectifications[g]
    BY <1>10 DEF FInv, LedgersOK
<1>12. finding'[f] = row /\ \A g \in Findings \ {f} : finding'[g] = finding[g]
    BY <1>6 DEF FInv, FindingsOK
<1>13. /\ IsPrefix(rectifications[f], rectifications'[f])
       /\ IsPrefix(closures[f], closures'[f])
       /\ IsPrefix(transfers[f], transfers'[f])
    BY <1>9, <1>10, <1>11, Ledgers, RowsKept, RowAdded
<1>14. AtMost(finding[f].verified, row.verified) /\ AtMost(finding[f].closed, row.closed)
    BY <1>1, <1>7, AtMostSelf
<1>15. ~Early(f) /\ finding[f].status # "CLOSED"
    BY <1>1 DEF Early, Rectifiable, BeforeBranch
<1> QED
    BY <1>3, <1>7, <1>10, <1>11, <1>12, <1>13, <1>14, <1>15 DEF Worked, Grown, RowKept

LEMMA RectifyWorks ==
    ASSUME FInv, NEW u \in Users, NEW f \in Findings, Rectify(u, f)
    PROVE  Worked(f) /\ \A g \in Findings \ {f} : RowKept(g)
<1>1. PICK n \in Entries : CanRectify(u, f, n) /\ DoRectify(f, n, {})
    BY DEF Rectify
<1>2. n \in Quantity /\ MayRectify(u, f)
    BY <1>1, InputsAssumption DEF Entries, Quantity, CanRectify
<1> QED
    BY <1>1, <1>2, RectifiedWorks

LEMMA RectifyItemsWorks ==
    ASSUME FInv, NEW u \in Users, NEW f \in Findings, RectifyItems(u, f)
    PROVE  Worked(f) /\ \A g \in Findings \ {f} : RowKept(g)
<1>1. PICK S \in SUBSET DOMAIN finding[f].items : \E picks \in [S -> 1..Repeats] :
          CanRectifyItems(u, f, picks) /\ DoRectify(f, Picked(f, picks), S)
    BY DEF RectifyItems
<1>2. PICK picks \in [S -> 1..Repeats] :
          CanRectifyItems(u, f, picks) /\ DoRectify(f, Picked(f, picks), S)
    BY <1>1
<1>3. MayRectify(u, f) /\ finding[f] \in FindingRow
    BY <1>2, Known DEF CanRectifyItems, MayRectify
<1>4. Picked(f, picks) \in Quantity
    BY <1>3, PickedQuantity, InputsAssumption
<1> QED
    BY <1>2, <1>3, <1>4, RectifiedWorks

LEMMA VerifyWorks ==
    ASSUME FInv, NEW u \in Users, NEW f \in Findings, VerifyRectification(u, f)
    PROVE  Worked(f) /\ \A g \in Findings \ {f} : RowKept(g)
<1>1. Exists(f) /\ CanVerify(u, f) /\ DoVerify(u, f, Verifiable(f)) /\ finding[f].status # "CLOSED"
    BY DEF VerifyRectification, CanVerify
<1>2. /\ finding[f] \in FindingRow /\ finding[f].rectified \in Quantity
      /\ finding[f].verified \in Quantity /\ finding[f].closed \in Quantity
      /\ AtMost(finding[f].verified, finding[f].rectified)
    BY <1>1, Known
<1>3. ~Early(f)
    <2>1. SUFFICES ASSUME finding[f].status \in BeforeBranch PROVE FALSE
        BY <1>1 DEF Early
    <2>2. finding[f].rectified = Zero /\ finding[f].verified = Zero
        BY <1>1, <2>1, NothingSettledYet
    <2>3. \A d \in Dim : Verifiable(f)[d] = 0
        BY <2>2, QuantityZero DEF Verifiable, Minus
    <2> QED
        BY <1>1, <2>3 DEF CanVerify
<1>4. PICK v : v = Plus(finding[f].verified, Verifiable(f))
    OBVIOUS
<1>5. AtMost(finding[f].verified, v)
    <2>1. Verifiable(f) \in Quantity
        BY <1>2, QuantityMinus DEF Verifiable
    <2> QED
        BY <1>2, <1>4, <2>1 DEF Plus, AtMost, Quantity
<1>6. PICK row : row = [finding[f] EXCEPT !.verified = v]
    OBVIOUS
<1>7. finding' = [finding EXCEPT ![f] = row] /\ UNCHANGED ledgers
    BY <1>1, <1>2, <1>4, <1>6 DEF DoVerify, FInv, FindingsOK, FindingRow
<1>8. row.verified = v /\ row.rectified = finding[f].rectified /\ row.closed = finding[f].closed
      /\ row.period = finding[f].period
    BY <1>2, <1>6 DEF FindingRow
<1>9. AtMost(finding[f].rectified, row.rectified) /\ AtMost(finding[f].closed, row.closed)
    BY <1>2, <1>8, AtMostSelf
<1> QED
    BY <1>1, <1>3, <1>5, <1>7, <1>8, <1>9, RowAlone DEF Worked, Grown

LEMMA CloseWorks ==
    ASSUME FInv, NEW u \in Users, NEW f \in Findings, Close(u, f)
    PROVE  Worked(f) /\ \A g \in Findings \ {f} : RowKept(g)
<1>1. Exists(f) /\ finding[f].status # "CLOSED" /\ DoClose(u, f, Closable(f))
    BY DEF Close, CanClose
<1>2. /\ finding[f] \in FindingRow /\ finding[f].rectified \in Quantity
      /\ finding[f].verified \in Quantity /\ finding[f].closed \in Quantity
    BY <1>1, Known
<1>3. ~Early(f)
    <2>1. PhaseOf(finding[f].status) = "owing"
        BY <1>1, CloseShows, RecordKnown DEF Lifecycle!Settle
    <2> QED
        BY <1>1, <1>2, <2>1, Phases DEF Early, FindingRow
<1>4. AtMost(finding[f].closed, record'[f].paid) /\ record'[f].paid = finding'[f].closed
    <2>1. AtMost(record[f].paid, record'[f].paid) /\ record'[f] \in Lifecycle!Known
        BY CloseShows, SameTerms DEF Lifecycle!Settle, Lifecycle!Becomes
    <2>2. finding'[f] # NoFinding
        BY <2>1, RecordShowsNext DEF Shown, Lifecycle!Known
    <2>3. record'[f].paid = finding'[f].closed
        BY <2>2, RecordShowsNext DEF Shown
    <2> QED
        BY <1>1, <2>1, <2>3, RecordKnown
<1>5. PICK c : c = Plus(finding[f].closed, Closable(f))
    OBVIOUS
<1>6. PICK s : s = IF Covers(c, f) THEN "CLOSED" ELSE finding[f].status
    OBVIOUS
<1>7. PICK row : row = [finding[f] EXCEPT !.closed = c, !.status = s]
    OBVIOUS
<1>8. finding' = [finding EXCEPT ![f] = row]
    BY <1>1, <1>2, <1>5, <1>6, <1>7 DEF DoClose, FInv, FindingsOK, FindingRow
<1>9. row.rectified = finding[f].rectified /\ row.verified = finding[f].verified
      /\ row.period = finding[f].period
    BY <1>2, <1>7 DEF FindingRow
<1>10. finding'[f] = row /\ \A g \in Findings \ {f} : finding'[g] = finding[g]
    BY <1>8 DEF FInv, FindingsOK
<1>11. PICK clos : clos = [period |-> finding[f].period, qty |-> Closable(f)]
    OBVIOUS
<1>12. /\ closures' = [closures EXCEPT ![f] = Append(closures[f], clos)]
       /\ rectifications' = rectifications /\ transfers' = transfers
    BY <1>1, <1>11 DEF DoClose
<1>13. /\ closures'[f] = Append(closures[f], clos)
       /\ \A g \in Findings \ {f} : closures'[g] = closures[g]
    BY <1>12 DEF FInv, LedgersOK
<1>14. IsPrefix(closures[f], Append(closures[f], clos))
    <2>1. closures[f] \in Seq(ClosureRow \cup {clos})
        BY Ledgers
    <2> QED
        BY <2>1, RowAdded
<1>15. IsPrefix(rectifications[f], rectifications'[f]) /\ IsPrefix(transfers[f], transfers'[f])
    BY <1>12, Ledgers, RowsKept
<1>16. AtMost(finding[f].rectified, row.rectified) /\ AtMost(finding[f].verified, row.verified)
    BY <1>2, <1>9, AtMostSelf
<1> QED
    BY <1>1, <1>3, <1>4, <1>9, <1>10, <1>12, <1>13, <1>14, <1>15, <1>16 DEF Worked, Grown, RowKept

\* return-rectification and resubmit-rectification change the status alone.
LEMMA StatusWorks ==
    ASSUME FInv, NEW f \in Findings, ~Early(f), finding[f].status # "CLOSED", NEW s,
           MoveTo(f, s), UNCHANGED ledgers
    PROVE  Worked(f) /\ \A g \in Findings \ {f} : RowKept(g)
<1>1. /\ finding[f] \in FindingRow /\ finding[f].rectified \in Quantity
      /\ finding[f].verified \in Quantity /\ finding[f].closed \in Quantity
    BY Known DEF Early
<1>2. PICK row : row = [finding[f] EXCEPT !.status = s]
    OBVIOUS
<1>3. finding' = [finding EXCEPT ![f] = row]
    BY <1>2 DEF MoveTo, FInv, FindingsOK
<1>4. /\ row.rectified = finding[f].rectified /\ row.verified = finding[f].verified
      /\ row.closed = finding[f].closed /\ row.period = finding[f].period
    BY <1>1, <1>2 DEF FindingRow
<1> QED
    BY <1>1, <1>3, <1>4, RowAlone, AtMostSelf DEF Worked, Grown

LEMMA ReturnWorks ==
    ASSUME FInv, NEW u \in Users, NEW f \in Findings, ReturnRectification(u, f)
    PROVE  Worked(f) /\ \A g \in Findings \ {f} : RowKept(g)
<1>1. /\ Exists(f) /\ finding[f].status \in Returnable
      /\ MoveTo(f, "RECTIFICATION_RETURNED") /\ UNCHANGED ledgers
    BY DEF ReturnRectification, CanReturn, DoReturn
<1>2. ~Early(f) /\ finding[f].status # "CLOSED"
    BY <1>1 DEF Early, Returnable, BeforeBranch
<1> QED
    BY <1>1, <1>2, StatusWorks

LEMMA ResubmitWorks ==
    ASSUME FInv, NEW u \in Users, NEW f \in Findings, ResubmitRectification(u, f)
    PROVE  Worked(f) /\ \A g \in Findings \ {f} : RowKept(g)
<1>1. Exists(f) /\ finding[f].status = "RECTIFICATION_RETURNED" /\ DoResubmit(f)
    BY DEF ResubmitRectification, CanResubmit
<1>2. PICK s : MoveTo(f, s)
    BY <1>1 DEF DoResubmit
<1>3. UNCHANGED ledgers /\ ~Early(f) /\ finding[f].status # "CLOSED"
    BY <1>1 DEF DoResubmit, Early, BeforeBranch
<1> QED
    BY <1>2, <1>3, StatusWorks

LEMMA ReopenWorks ==
    ASSUME FInv, NEW u \in Users, NEW f \in Findings, Reopen(u, f)
    PROVE  Worked(f) /\ \A g \in Findings \ {f} : RowKept(g)
<1>1. CanReopen(u, f) /\ DoReopen(f) /\ Exists(f)
    BY DEF Reopen, CanReopen
<1>2. finding[f] \in FindingRow
    BY <1>1, Known
<1>3. ~Early(f)
    BY <1>1, NothingSettledYet, QuantityZero DEF CanReopen, BeforeBranch, Early
<1>4. PICK row : row = Reopened(f)
    OBVIOUS
<1>5. /\ row.status = "SENT_TO_BRANCH_MANAGER" /\ row.rectified = Zero /\ row.verified = Zero
      /\ row.closed = Zero /\ row.done = {} /\ row.period = finding[f].period
    BY <1>2, <1>4 DEF Reopened, FindingRow
<1>6. finding'[f] = row /\ \A g \in Findings \ {f} : finding'[g] = finding[g]
    BY <1>1, <1>4 DEF DoReopen, FInv, FindingsOK
<1>7. /\ rectifications'[f] = <<>> /\ closures'[f] = <<>> /\ transfers' = transfers
      /\ \A g \in Findings \ {f} : rectifications'[g] = rectifications[g] /\ closures'[g] = closures[g]
    BY <1>1 DEF DoReopen, FInv, LedgersOK
<1> QED
    BY <1>3, <1>5, <1>6, <1>7 DEF Worked, Wiped, RowKept

\* A transferred finding goes to an open period with all it has.
LEMMA MovedWorks ==
    ASSUME FInv, NEW f \in Findings, Exists(f), finding[f].status \in Transferable,
           NEW q \in Periods, period[q].status = "OPEN",
           finding'[f] = Transferred(f, q), rectifications' = rectifications, closures' = closures,
           NEW move, transfers'[f] = Append(transfers[f], move)
    PROVE  Worked(f)
<1>1. /\ finding[f] \in FindingRow /\ finding[f].rectified \in Quantity
      /\ finding[f].verified \in Quantity /\ finding[f].closed \in Quantity
    BY Known
<1>2. PICK row : row = finding'[f]
    OBVIOUS
<1>3. /\ row.rectified = finding[f].rectified /\ row.verified = finding[f].verified
      /\ row.closed = finding[f].closed /\ row.period = q
    BY <1>1, <1>2 DEF FindingRow, Transferred
<1>4. ~Early(f) /\ finding[f].status # "CLOSED"
    BY DEF Early, Transferable, Rectifiable, BeforeBranch
<1>5. IsPrefix(transfers[f], Append(transfers[f], move))
    <2>1. transfers[f] \in Seq(TransferRow \cup {move})
        BY Ledgers
    <2> QED
        BY <2>1, RowAdded
<1>6. IsPrefix(rectifications[f], rectifications'[f]) /\ IsPrefix(closures[f], closures'[f])
    BY Ledgers, RowsKept
<1>7. /\ AtMost(finding[f].rectified, row.rectified) /\ AtMost(finding[f].verified, row.verified)
      /\ AtMost(finding[f].closed, row.closed)
    BY <1>1, <1>3, AtMostSelf
<1> QED
    BY <1>2, <1>3, <1>4, <1>5, <1>6, <1>7 DEF Worked, Grown

LEMMA TransferWorks ==
    ASSUME FInv, NEW u \in Users, NEW f \in Findings, Transfer(u, f)
    PROVE  Worked(f) /\ \A g \in Findings \ {f} : RowKept(g)
<1>1. PICK q \in Periods : CanTransfer(u, f, q) /\ DoTransfer(f, q)
    BY DEF Transfer
<1>2. Exists(f) /\ finding[f].status \in Transferable /\ period[q].status = "OPEN"
    BY <1>1 DEF CanTransfer
<1>3. finding'[f] = Transferred(f, q) /\ \A g \in Findings \ {f} : finding'[g] = finding[g]
    BY <1>1 DEF DoTransfer, FInv, FindingsOK
<1>4. /\ rectifications' = rectifications /\ closures' = closures
      /\ transfers'[f] = Append(transfers[f], Move(f, q))
      /\ \A g \in Findings \ {f} : transfers'[g] = transfers[g]
    BY <1>1 DEF DoTransfer, FInv, LedgersOK
<1>5. Worked(f)
    BY <1>2, <1>3, <1>4, MovedWorks
<1> QED
    BY <1>3, <1>4, <1>5 DEF RowKept

LEMMA PatchPeriodWorks ==
    ASSUME FInv, NEW u \in Users, NEW p \in Periods, PatchPeriod(u, p)
    PROVE  \A f \in Findings : RowKept(f) \/ Worked(f)
<1>1. PICK req \in PatchRequests, sweep \in BOOLEAN : DoPatchPeriod(p, req, ChangesStatus(p, req), sweep)
    BY DEF PatchPeriod
<1>2. PICK at : at = Sent(req.at, period[p].at)
    OBVIOUS
<1>3. PICK dests : dests = Destinations(p, at)
    OBVIOUS
<1>4. PICK moved : moved = IF ChangesStatus(p, req) /\ req.status = "LOCKED" /\ sweep /\ dests # {}
                           THEN Sweepable(p) ELSE {}
    OBVIOUS
<1>5. PICK dest : dest = CHOOSE q \in dests : TRUE
    OBVIOUS
<1>6. /\ finding' = [f \in Findings |-> IF f \in moved THEN Transferred(f, dest) ELSE finding[f]]
      /\ transfers' = [f \in Findings |->
            IF f \in moved THEN Append(transfers[f], Move(f, dest)) ELSE transfers[f]]
      /\ rectifications' = rectifications /\ closures' = closures
    BY <1>1, <1>2, <1>3, <1>4, <1>5 DEF DoPatchPeriod
<1>7. SUFFICES ASSUME NEW f \in Findings PROVE RowKept(f) \/ Worked(f)
    OBVIOUS
<1>8. CASE f \in moved
    <2>1. Exists(f) /\ finding[f].status \in Transferable /\ dests # {}
        BY <1>4, <1>8 DEF Sweepable, InPeriod
    <2>2. dest \in Periods /\ period[dest].status = "OPEN"
        BY <1>3, <1>5, <2>1 DEF Destinations
    <2>3. finding'[f] = Transferred(f, dest) /\ transfers'[f] = Append(transfers[f], Move(f, dest))
        BY <1>6, <1>8
    <2> QED
        BY <1>6, <2>1, <2>2, <2>3, MovedWorks
<1>9. CASE f \notin moved
    BY <1>6, <1>9 DEF RowKept
<1> QED
    BY <1>8, <1>9

-----------------------------------------------------------------------------
(* Every step, seen from one finding. *)

LEMMA EveryStep ==
    ASSUME FInv, [Next]_tables, NEW f \in Findings
    PROVE  RowKept(f) \/ Worked(f) \/ (\E u \in Users : Registering(u, f))
<1>1. ASSUME NEW u \in Users, NEW g \in Findings, FindingStep(u, g)
      PROVE  RowKept(f) \/ Worked(f) \/ Registering(u, f)
    <2>1. CASE Registering(u, g)
        BY <2>1, RegisteringAlone
    <2>2. CASE ~Registering(u, g)
        BY <1>1, <2>2, RectifyWorks, RectifyItemsWorks, VerifyWorks, CloseWorks, ReturnWorks,
           ResubmitWorks, ReopenWorks, TransferWorks DEF FindingStep, Registering
    <2> QED
        BY <2>1, <2>2
<1>2. ASSUME NEW u \in Users, NEW p \in Periods, PeriodStep(u, p)
      PROVE  RowKept(f) \/ Worked(f)
    BY <1>2, PatchPeriodWorks DEF PeriodStep, CreatePeriod, DeletePeriod, DoCreatePeriod,
       DoDeletePeriod, ledgers, RowKept
<1>3. ASSUME NEW p \in MovingWindows, MoveWindow(p) PROVE RowKept(f)
    BY <1>3 DEF MoveWindow, ledgers, RowKept
<1>4. CASE UNCHANGED tables
    BY <1>4 DEF tables, RowKept
<1> QED
    BY <1>1, <1>2, <1>3, <1>4 DEF Next

LEMMA RegisteringIsEarly ==
    ASSUME NEW u \in Users, NEW f \in Findings, Registering(u, f)
    PROVE  Early(f)
BY DEF Registering, Create, CanCreate, Edit, CanEdit, Delete, CanDelete, Submit, CanSubmit, Review,
       CanReview, Early, Exists, Editable, Stages, BeforeBranch

LEMMA ImportAlone ==
    ASSUME FInv, NEW u \in Users, NEW f \in Findings, ImportRow(u, f)
    PROVE  Early(f) /\ \A g \in Findings \ {f} : RowKept(g)
    BY DEF ImportRow, CanImport, DoImport, Early, Exists, RowKept, FInv, FindingsOK, LedgersOK

LEMMA KeptIsGrown ==
    ASSUME FInv, NEW f \in Findings, Exists(f), RowKept(f)
    PROVE  Grown(f)
<1>1. /\ finding[f].rectified \in Quantity /\ finding[f].verified \in Quantity
      /\ finding[f].closed \in Quantity
    BY Known
<1> QED
    BY <1>1, AtMostSelf, Ledgers, RowsKept DEF Grown, RowKept

\* The counters and the ledgers of a finding grow, all of them, or a reopening
\* wipes them all and keeps the transfers, or the finding goes with all its
\* rows as its import is reversed.
THEOREM OnlyReopeningUndoes == ImportSpec => OnlyReopenUndoes
<1> DEFINE Undone == \A f \in Findings : Exists(f) /\ finding[f].status \notin BeforeBranch =>
          \/ /\ Exists(f)'
             /\ AtMost(finding[f].rectified, finding'[f].rectified)
             /\ AtMost(finding[f].verified, finding'[f].verified)
             /\ AtMost(finding[f].closed, finding'[f].closed)
             /\ finding[f].status = "CLOSED" => finding'[f].status = "CLOSED"
             /\ IsPrefix(rectifications[f], rectifications'[f])
             /\ IsPrefix(closures[f], closures'[f])
             /\ IsPrefix(transfers[f], transfers'[f])
          \/ /\ Exists(f)'
             /\ finding'[f].status = "SENT_TO_BRANCH_MANAGER"
             /\ finding'[f].rectified = Zero /\ finding'[f].verified = Zero
             /\ finding'[f].closed = Zero /\ finding'[f].done = {}
             /\ rectifications'[f] = <<>> /\ closures'[f] = <<>>
             /\ transfers'[f] = transfers[f]
          \/ Withdrawn(f) /\ NothingLeft(f)
<1>1. FInv /\ FInv' /\ [ImportNext]_everything => [Undone]_everything
    <2>1. SUFFICES ASSUME FInv, FInv', [ImportNext]_everything, NEW f \in Findings, ~Early(f)
                   PROVE  \/ Exists(f)' /\ (Grown(f) \/ Wiped(f))
                          \/ Withdrawn(f) /\ NothingLeft(f)
        BY DEF Grown, Wiped, Early
    <2>2. ASSUME RowKept(f) \/ Worked(f) PROVE Grown(f) \/ Wiped(f)
        BY <2>1, <2>2, KeptIsGrown DEF Worked, Early
    <2>3. CASE [Next]_tables
        <3>1. RowKept(f) \/ Worked(f)
            BY <2>1, <2>3, EveryStep, RegisteringIsEarly
        <3>2. Exists(f)'
            BY <2>1, <2>3, BranchKeeps DEF Early
        <3> QED
            BY <2>2, <3>1, <3>2
    <2>4. ASSUME NEW u \in Users, NEW g \in Findings, ImportRow(u, g)
          PROVE  Exists(f)' /\ (Grown(f) \/ Wiped(f))
        <3>1. RowKept(f)
            BY <2>1, <2>4, ImportAlone
        <3> QED
            BY <2>1, <2>2, <3>1 DEF RowKept, Exists, Early
    <2>5. ASSUME NEW u \in Users, NEW S \in SUBSET Findings, ReverseImport(u, S), f \notin S
          PROVE  Exists(f)' /\ (Grown(f) \/ Wiped(f))
        <3>1. RowKept(f)
            BY <2>5, ReversalIs DEF RowKept
        <3> QED
            BY <2>1, <2>2, <3>1 DEF RowKept, Exists, Early
    <2>6. ASSUME NEW u \in Users, NEW S \in SUBSET Findings, ReverseImport(u, S), f \in S
          PROVE  Withdrawn(f) /\ NothingLeft(f)
        <3>1. f \in imported /\ f \notin imported'
            BY <2>6 DEF ReverseImport, CanReverse, DoReverse
        <3> QED
            BY <2>6, <3>1, ReversalIs DEF Withdrawn, NothingLeft, Exists
    <2> QED
        BY <2>1, <2>3, <2>4, <2>5, <2>6 DEF ImportNext, everything
<1> QED
    BY <1>1, ImportedInductive, PTL DEF ImportSpec, OnlyReopenUndoes

-----------------------------------------------------------------------------
(* Periods guard registration. *)

\* A locked period that does not take drafts back holds what is in it.
LEMMA Held ==
    ASSUME FInv, [Next]_tables, NEW f \in Findings, Exists(f), finding[f].status \in BeforeBranch,
           period[finding[f].period].status = "LOCKED",
           finding[f].status = "DRAFT" => ~period[finding[f].period].drafts
    PROVE  finding'[f] = finding[f]
<1>1. ~PeriodWritable(finding[f].period, finding[f].status)
    BY DEF PeriodWritable
<1>2. ASSUME NEW u \in Users, Registering(u, f) PROVE FALSE
    <2>1. ~Create(u, f)
        BY DEF Create, CanCreate, Exists
    <2>2. ~Edit(u, f) /\ ~Delete(u, f)
        BY <1>1 DEF Edit, CanEdit, Movable, Delete, CanDelete
    <2>3. ~Submit(u, f)
        BY DEF Submit, CanSubmit, PeriodWritable
    <2>4. ~Review(u, f)
        BY <1>1 DEF Review, CanReview
    <2> QED
        BY <1>2, <2>1, <2>2, <2>3, <2>4 DEF Registering
<1> QED
    BY <1>2, EveryStep DEF RowKept, Worked, Early

\* What arrives in a locked period is a draft it allows.
LEMMA Arrivals ==
    ASSUME FInv, [Next]_tables, NEW f \in Findings, NEW p, p = finding'[f].period,
           finding'[f] # NoFinding, Exists(f) => finding[f].period # p, period[p].status = "LOCKED"
    PROVE  finding'[f].status = "DRAFT" /\ period[p].drafts
<1>1. PICK u \in Users : Registering(u, f)
    <2>1. ~RowKept(f)
        BY DEF RowKept, Exists
    <2>2. ~Worked(f)
        BY DEF Worked, Early
    <2> QED
        BY <2>1, <2>2, EveryStep
<1>2. ASSUME NEW row, finding' = [finding EXCEPT ![f] = row] PROVE finding'[f] = row
    BY <1>2 DEF FInv, FindingsOK
<1>3. CASE Create(u, f)
    <2>1. PICK q \in Periods, total \in Totals, items \in Breakdowns \cup {<<>>}, submit \in BOOLEAN :
             CanCreate(u, f, q, total, items, submit) /\ DoCreate(u, f, q, total, items, submit)
        BY <1>3 DEF Create
    <2>2. PICK s \in IF submit THEN SubmittedStatuses(u) ELSE {"DRAFT"} :
             finding' = [finding EXCEPT ![f] =
                 [status |-> s, period |-> q, creator |-> u, total |-> total,
                  rectified |-> Zero, verified |-> Zero, closed |-> Zero,
                  items |-> items, done |-> {}]]
        BY <2>1 DEF DoCreate
    <2>3. finding'[f].status = s /\ p = q
        BY <1>2, <2>2
    <2>4. ~submit /\ PeriodWritable(p, "DRAFT")
        BY <2>1, <2>3 DEF CanCreate, Registrable
    <2> QED
        BY <2>2, <2>3, <2>4 DEF PeriodWritable
<1>4. CASE Edit(u, f)
    <2>1. PICK q \in Periods, changes \in Changes : CanEdit(u, f, q, changes) /\ DoEdit(f, q, changes)
        BY <1>4 DEF Edit
    <2>2. Exists(f) /\ finding[f] \in FindingRow /\ PeriodWritable(q, finding[f].status)
        BY <2>1, Known DEF CanEdit, Movable
    <2>3. PICK total : total = [d \in Dim |-> IF d \in DOMAIN changes THEN changes[d] ELSE finding[f].total[d]]
        OBVIOUS
    <2>4. PICK row : row = [finding[f] EXCEPT !.period = q, !.total = total]
        OBVIOUS
    <2>5. finding' = [finding EXCEPT ![f] = row]
        BY <2>1, <2>2, <2>3, <2>4 DEF DoEdit, FInv, FindingsOK, FindingRow
    <2>6. row.period = q /\ row.status = finding[f].status
        BY <2>2, <2>4 DEF FindingRow
    <2> QED
        BY <1>2, <2>2, <2>5, <2>6 DEF PeriodWritable
<1>5. ASSUME NEW s \in Status, Exists(f), MoveTo(f, s) PROVE FALSE
    <2>1. finding[f] \in FindingRow /\ finding' = [finding EXCEPT ![f] = [finding[f] EXCEPT !.status = s]]
        BY <1>5, Known DEF MoveTo, FInv, FindingsOK
    <2>2. finding'[f].period = finding[f].period
        BY <1>2, <2>1 DEF FindingRow
    <2> QED
        BY <1>5, <2>2
<1>6. ~Submit(u, f)
    BY <1>5 DEF Submit, CanSubmit, DoSubmit, SubmittedStatuses, Status
<1>7. ~Review(u, f)
    <2>1. \A stage \in Stages, decision \in Decisions : Decided(stage, decision) \in Status
        BY DEF Decided, Status
    <2> QED
        BY <1>5, <2>1 DEF Review, CanReview, DoReview
<1>8. ~Delete(u, f)
    BY <1>2 DEF Delete, DoDelete
<1> QED
    BY <1>1, <1>3, <1>4, <1>6, <1>7, <1>8 DEF Registering

\* What leaves registration does so inside an open period's window.
LEMMA Submissions ==
    ASSUME FInv, [Next]_tables, NEW f \in Findings, ~Exists(f) \/ finding[f].status \in Editable,
           finding'[f] # NoFinding, finding'[f].status \notin Editable
    PROVE  period[finding'[f].period].status = "OPEN" /\ period[finding'[f].period].window
<1>1. PICK u \in Users : Registering(u, f)
    <2>1. ~RowKept(f)
        BY DEF RowKept, Exists
    <2>2. ~Worked(f)
        BY DEF Worked, Early, Editable, BeforeBranch
    <2> QED
        BY <2>1, <2>2, EveryStep
<1>2. ASSUME NEW row, finding' = [finding EXCEPT ![f] = row] PROVE finding'[f] = row
    BY <1>2 DEF FInv, FindingsOK
<1>3. CASE Create(u, f)
    <2>1. PICK q \in Periods, total \in Totals, items \in Breakdowns \cup {<<>>}, submit \in BOOLEAN :
             CanCreate(u, f, q, total, items, submit) /\ DoCreate(u, f, q, total, items, submit)
        BY <1>3 DEF Create
    <2>2. PICK s \in IF submit THEN SubmittedStatuses(u) ELSE {"DRAFT"} :
             finding' = [finding EXCEPT ![f] =
                 [status |-> s, period |-> q, creator |-> u, total |-> total,
                  rectified |-> Zero, verified |-> Zero, closed |-> Zero,
                  items |-> items, done |-> {}]]
        BY <2>1 DEF DoCreate
    <2>3. finding'[f].status = s /\ finding'[f].period = q
        BY <1>2, <2>2
    <2>4. submit
        BY <2>2, <2>3 DEF Editable
    <2> QED
        BY <2>1, <2>3, <2>4 DEF CanCreate, Registrable, OpenForSubmission
<1>4. CASE Edit(u, f)
    <2>1. PICK q \in Periods, changes \in Changes : CanEdit(u, f, q, changes) /\ DoEdit(f, q, changes)
        BY <1>4 DEF Edit
    <2>2. Exists(f) /\ finding[f] \in FindingRow /\ finding[f].status \in Editable
        BY <2>1, Known DEF CanEdit
    <2>3. PICK total : total = [d \in Dim |-> IF d \in DOMAIN changes THEN changes[d] ELSE finding[f].total[d]]
        OBVIOUS
    <2>4. PICK row : row = [finding[f] EXCEPT !.period = q, !.total = total]
        OBVIOUS
    <2>5. finding' = [finding EXCEPT ![f] = row]
        BY <2>1, <2>2, <2>3, <2>4 DEF DoEdit, FInv, FindingsOK, FindingRow
    <2>6. row.status = finding[f].status
        BY <2>2, <2>4 DEF FindingRow
    <2> QED
        BY <1>2, <2>2, <2>5, <2>6
<1>5. CASE Submit(u, f)
    <2>1. PICK s \in SubmittedStatuses(u) : MoveTo(f, s)
        BY <1>5 DEF Submit, DoSubmit
    <2>2. Exists(f) /\ finding[f] \in FindingRow
        BY <1>5, Known DEF Submit, CanSubmit
    <2>3. finding' = [finding EXCEPT ![f] = [finding[f] EXCEPT !.status = s]]
        BY <2>1 DEF MoveTo, FInv, FindingsOK
    <2>4. finding'[f].period = finding[f].period
        BY <1>2, <2>2, <2>3 DEF FindingRow
    <2> QED
        BY <1>5, <2>4 DEF Submit, CanSubmit, PeriodWritable, OpenForSubmission
<1>6. ~Review(u, f)
    BY DEF Review, CanReview, Exists, Editable, Stages
<1>7. ~Delete(u, f)
    BY <1>2 DEF Delete, DoDelete
<1> QED
    BY <1>1, <1>3, <1>4, <1>5, <1>6, <1>7 DEF Registering

\* A period's lock and its submission window hold for registration and review
\* on every path: what is there stays, what arrives is a draft, what is
\* submitted is in time.
THEOREM PeriodsAlwaysGuard == Spec => PeriodsGuardRegistration
<1> DEFINE HeldHere ==
              \A f \in Findings :
                  /\ Exists(f) /\ finding[f].status \in BeforeBranch
                  /\ period[finding[f].period].status = "LOCKED"
                  /\ finding[f].status = "DRAFT" => ~period[finding[f].period].drafts
                  => finding'[f] = finding[f]
           OnlyDrafts ==
              \A f \in Findings :
                  LET p == finding'[f].period
                  IN  /\ finding'[f] # NoFinding
                      /\ Exists(f) => finding[f].period # p
                      /\ period[p].status = "LOCKED"
                      => finding'[f].status = "DRAFT" /\ period[p].drafts
           InTime ==
              \A f \in Findings :
                  /\ ~Exists(f) \/ finding[f].status \in Editable
                  /\ finding'[f] # NoFinding /\ finding'[f].status \notin Editable
                  => LET p == period[finding'[f].period] IN p.status = "OPEN" /\ p.window
<1>1. FInv /\ [Next]_tables => [HeldHere]_tables
    BY Held
<1>2. FInv /\ [Next]_tables => [OnlyDrafts]_tables
    BY Arrivals
<1>3. FInv /\ [Next]_tables => [InTime]_tables
    BY Submissions
<1> QED
    BY <1>1, <1>2, <1>3, WorkflowInductive, PTL
    DEF Spec, PeriodsGuardRegistration, LockedHoldsRegistrations, LockedGainsOnlyDrafts, SubmittedInWindow


-----------------------------------------------------------------------------
(* What a step can be for one finding. *)

Registered(f) ==
    finding'[f].period = finding[f].period /\ finding'[f].total = finding[f].total
    /\ finding'[f].items = finding[f].items

LedgersKept(f) ==
    /\ rectifications'[f] = rectifications[f] /\ closures'[f] = closures[f]
    /\ transfers'[f] = transfers[f]

LedgersEmpty(f) ==
    rectifications'[f] = <<>> /\ closures'[f] = <<>> /\ transfers'[f] = <<>>

\* POST
Entered(f) ==
    /\ ~Exists(f) /\ Exists(f)' /\ May(finding'[f].creator, "create", f)
    /\ finding'[f].rectified = Zero /\ finding'[f].closed = Zero /\ finding'[f].done = {}
    /\ InUse(finding'[f].period) /\ finding'[f].total \in Totals
    /\ finding'[f].items # <<>> => BreaksDown(finding'[f].items, finding'[f].total)
    /\ LedgersEmpty(f)

\* An import
BroughtIn(f) == \E u \in Users, row \in ImportRows : CanImport(u, f, row) /\ DoImport(u, f, row)

\* PATCH
Amended(f) ==
    /\ Exists(f) /\ Exists(f)' /\ finding[f].status \in Editable
    /\ finding'[f].status = finding[f].status /\ finding'[f].creator = finding[f].creator
    /\ finding'[f].items = finding[f].items /\ finding'[f].done = finding[f].done
    /\ finding'[f].rectified = finding[f].rectified /\ finding'[f].closed = finding[f].closed
    /\ InUse(finding'[f].period)
    /\ \A d \in Dim : \/ finding'[f].total[d] = finding[f].total[d]
                      \/ \E t \in Totals : finding'[f].total[d] = t[d]
    /\ finding[f].items # <<>> =>
          /\ finding'[f].total["cases"] = finding[f].total["cases"]
          /\ Distance(finding'[f].total["amount"], finding[f].total["amount"]) <= Tolerance
    /\ LedgersKept(f)

\* DELETE, and the reversal of an import
Dropped(f) == finding'[f] = NoFinding /\ LedgersEmpty(f)

\* Another status, or verified figures
Restated(f) ==
    /\ Exists(f) /\ Exists(f)' /\ Registered(f) /\ finding'[f].creator = finding[f].creator
    /\ finding'[f].status \in BeforeBranch => finding[f].status \in BeforeBranch
    /\ finding'[f].rectified = finding[f].rectified /\ finding'[f].closed = finding[f].closed
    /\ finding'[f].done = finding[f].done
    /\ LedgersKept(f)

\* What one rectification adds: an entry of the form, or cases ticked
Entry(f, n, S) ==
    \/ finding[f].items = <<>> /\ S = {} /\ AtMost(n, Outstanding(f)) /\ ExhaustsTogether(f, n)
    \/ /\ finding[f].items # <<>> /\ S \subseteq DOMAIN finding[f].items \ finding[f].done
       /\ \E picks \in [S -> 1..Repeats] : n = Picked(f, picks)

RectificationOf(f, n) ==
    [period |-> finding[f].period, qty |-> n, after |-> Len(transfers[f])]

RectifiedMore(f) ==
    /\ Exists(f) /\ Exists(f)' /\ Registered(f)
    /\ finding'[f].status \notin BeforeBranch
    /\ period[finding[f].period].status = "OPEN"
    /\ \E n \in Quantity, S \in SUBSET DOMAIN finding[f].items :
          /\ Entry(f, n, S)
          /\ finding'[f].rectified = Plus(finding[f].rectified, n)
          /\ finding'[f].done = finding[f].done \cup S
          /\ rectifications'[f] = Append(rectifications[f], RectificationOf(f, n))
    /\ finding'[f].closed = finding[f].closed
    /\ closures'[f] = closures[f] /\ transfers'[f] = transfers[f]

ClosureOf(f, n) == [period |-> finding[f].period, qty |-> n]

ClosedMore(f) ==
    /\ Exists(f) /\ Exists(f)' /\ Registered(f)
    /\ finding'[f].status \notin BeforeBranch
    /\ \E n \in Quantity :
          /\ finding'[f].closed = Plus(finding[f].closed, n)
          /\ closures'[f] = Append(closures[f], ClosureOf(f, n))
    /\ finding'[f].rectified = finding[f].rectified /\ finding'[f].done = finding[f].done
    /\ rectifications'[f] = rectifications[f] /\ transfers'[f] = transfers[f]

StartedOver(f) ==
    /\ Exists(f) /\ Exists(f)' /\ Registered(f)
    /\ finding'[f].status = "SENT_TO_BRANCH_MANAGER"
    /\ finding'[f].rectified = Zero /\ finding'[f].closed = Zero /\ finding'[f].done = {}
    /\ rectifications'[f] = <<>> /\ closures'[f] = <<>> /\ transfers'[f] = transfers[f]
    /\ \E u \in Users : "reopen" \in Grants[u]

\* By hand or as its period is locked
Carried(f) ==
    /\ Exists(f) /\ Exists(f)' /\ finding[f].status \in Transferable
    /\ \E q \in Periods :
          /\ period[q].status = "OPEN"
          /\ NewDates = {} /\ InUse(finding[f].period) => period[finding[f].period].at < period[q].at
          /\ finding'[f].period = q
          /\ transfers'[f] = Append(transfers[f], Move(f, q))
    /\ finding'[f].status = "TRANSFERRED"
    /\ finding'[f].total = finding[f].total /\ finding'[f].items = finding[f].items
    /\ finding'[f].rectified = finding[f].rectified /\ finding'[f].closed = finding[f].closed
    /\ finding'[f].done = finding[f].done
    /\ rectifications'[f] = rectifications[f] /\ closures'[f] = closures[f]

\* What a handler can do, and an import or its reversal besides
Handled(f) ==
    \/ RowKept(f) \/ Entered(f) \/ Amended(f) \/ Dropped(f) \/ Restated(f)
    \/ RectifiedMore(f) \/ ClosedMore(f) \/ StartedOver(f) \/ Carried(f)

Shaped(f) ==
    \/ RowKept(f) \/ Entered(f) \/ BroughtIn(f) \/ Amended(f) \/ Dropped(f) \/ Restated(f)
    \/ RectifiedMore(f) \/ ClosedMore(f) \/ StartedOver(f) \/ Carried(f)

-----------------------------------------------------------------------------
(* The handlers have these shapes. *)

\* The tables after a step that gives f one row and changes no ledger
LEMMA RowGiven ==
    ASSUME FInv, NEW f \in Findings, NEW row, finding' = [finding EXCEPT ![f] = row], UNCHANGED ledgers
    PROVE  finding'[f] = row /\ LedgersKept(f)
    BY DEF FInv, FindingsOK, LedgersKept, ledgers

\* POST enters a finding with nothing settled and an empty history.
LEMMA CreateShape ==
    ASSUME FInv, NEW u \in Users, NEW f \in Findings, Create(u, f)
    PROVE  Entered(f)
<1>1. PICK p \in Periods, total \in Totals, items \in Breakdowns \cup {<<>>}, submit \in BOOLEAN :
         CanCreate(u, f, p, total, items, submit) /\ DoCreate(u, f, p, total, items, submit)
    BY DEF Create
<1>2. PICK s : finding' = [finding EXCEPT ![f] =
              [status |-> s, period |-> p, creator |-> u, total |-> total,
               rectified |-> Zero, verified |-> Zero, closed |-> Zero,
               items |-> items, done |-> {}]]
    BY <1>1 DEF DoCreate
<1>3. /\ finding'[f].rectified = Zero /\ finding'[f].closed = Zero /\ finding'[f].done = {}
      /\ finding'[f].items = items /\ finding'[f].total = total /\ finding'[f].period = p
      /\ finding'[f] # NoFinding /\ finding'[f].creator = u
    BY <1>2 DEF FInv, FindingsOK, NoFinding
<1>4. ~Exists(f) /\ LedgersEmpty(f) /\ May(u, "create", f)
    BY <1>1 DEF CanCreate, DoCreate, Exists, FInv, LedgersMatch, LedgersFit, ledgers, LedgersEmpty
<1>5. InUse(p)
    BY <1>1 DEF CanCreate, Registrable, PeriodWritable, InUse, NoPeriod
<1>6. items # <<>> => BreaksDown(items, total)
    BY <1>1 DEF CanCreate
<1>7. period' = period
    BY <1>1 DEF DoCreate
<1> QED
    BY <1>3, <1>4, <1>5, <1>6 DEF Entered, Exists

\* PATCH amends what is registered, its period included.
LEMMA EditShape ==
    ASSUME FInv, NEW u \in Users, NEW f \in Findings, Edit(u, f)
    PROVE  Amended(f)
<1>1. PICK q \in Periods, changes \in Changes : CanEdit(u, f, q, changes) /\ DoEdit(f, q, changes)
    BY DEF Edit
<1>2. Exists(f) /\ finding[f].status \in Editable /\ finding[f] \in FindingRow
      /\ finding[f].total \in Quantity
    BY <1>1, Known DEF CanEdit
<1>3. PICK total : total = [d \in Dim |-> IF d \in DOMAIN changes THEN changes[d] ELSE finding[f].total[d]]
    OBVIOUS
<1>4. PICK row : row = [finding[f] EXCEPT !.period = q, !.total = total]
    OBVIOUS
<1>5. finding' = [finding EXCEPT ![f] = row] /\ UNCHANGED ledgers
    BY <1>1, <1>2, <1>3, <1>4 DEF DoEdit, FInv, FindingsOK, FindingRow
<1>6. finding'[f] = row /\ LedgersKept(f)
    BY <1>5, RowGiven
<1>7. /\ row.period = q /\ row.total = total /\ row.status = finding[f].status
      /\ row.items = finding[f].items /\ row.done = finding[f].done
      /\ row.rectified = finding[f].rectified /\ row.closed = finding[f].closed
      /\ row.creator = finding[f].creator /\ row # NoFinding
    BY <1>2, <1>4 DEF FindingRow, NoFinding
<1>8. InUse(q)
    BY <1>1 DEF CanEdit, Movable, PeriodWritable, InUse, NoPeriod
<1>9. PICK D \in SUBSET Dim, t \in Totals : changes = [d \in D |-> t[d]]
    BY DEF Changes
<1>10. \A d \in Dim : total[d] = finding[f].total[d] \/ total[d] = t[d]
    BY <1>3, <1>9
<1>11. finding[f].items # <<>> =>
          /\ total["cases"] = finding[f].total["cases"]
          /\ Distance(total["amount"], finding[f].total["amount"]) <= Tolerance
    <2>1. SUFFICES ASSUME finding[f].items # <<>>
                   PROVE  /\ total["cases"] = finding[f].total["cases"]
                          /\ Distance(total["amount"], finding[f].total["amount"]) <= Tolerance
        OBVIOUS
    <2>2. "cases" \in Dim /\ "amount" \in Dim
        BY DEF Dim
    <2>3. Distance(finding[f].total["amount"], finding[f].total["amount"]) <= Tolerance
        BY <1>2, <2>2, ConstantsAssumption DEF Distance, Quantity
    <2>4. /\ "cases" \in DOMAIN changes => changes["cases"] = finding[f].total["cases"]
          /\ "amount" \in DOMAIN changes =>
                Distance(changes["amount"], finding[f].total["amount"]) <= Tolerance
        BY <1>1, <2>1 DEF CanEdit
    <2> QED
        BY <1>3, <2>2, <2>3, <2>4
<1> QED
    BY <1>2, <1>6, <1>7, <1>8, <1>10, <1>11 DEF Amended, Exists

\* DELETE drops the finding with its history.
LEMMA DeleteShape ==
    ASSUME FInv, NEW u \in Users, NEW f \in Findings, Delete(u, f)
    PROVE  Dropped(f)
BY DEF Delete, CanDelete, DoDelete, Dropped, LedgersEmpty, FInv, FindingsOK, LedgersOK, BeforeBranch

\* One of the routes that move a finding from status to status
LEMMA MoveShape ==
    ASSUME FInv, NEW f \in Findings, Exists(f), NEW s, MoveTo(f, s), UNCHANGED ledgers,
           s \in BeforeBranch => finding[f].status \in BeforeBranch
    PROVE  Restated(f)
<1>1. finding[f] \in FindingRow
    BY Known
<1>2. PICK row : row = [finding[f] EXCEPT !.status = s]
    OBVIOUS
<1>3. finding' = [finding EXCEPT ![f] = row]
    BY <1>2 DEF MoveTo, FInv, FindingsOK
<1>4. finding'[f] = row /\ LedgersKept(f)
    BY <1>3, RowGiven
<1>5. /\ row.period = finding[f].period /\ row.total = finding[f].total /\ row.items = finding[f].items
      /\ row.rectified = finding[f].rectified /\ row.closed = finding[f].closed
      /\ row.done = finding[f].done /\ row.status = s /\ row.creator = finding[f].creator
      /\ row # NoFinding
    BY <1>1, <1>2 DEF FindingRow, NoFinding
<1> QED
    BY <1>4, <1>5 DEF Restated, Registered, Exists

\* A handler that sets the status alone only restates the finding.
LEMMA StatusShape ==
    ASSUME FInv, NEW u \in Users, NEW f \in Findings,
           Submit(u, f) \/ Review(u, f) \/ ReturnRectification(u, f) \/ ResubmitRectification(u, f)
    PROVE  Restated(f)
<1>1. CASE Submit(u, f)
    BY <1>1, MoveShape DEF Submit, CanSubmit, DoSubmit, Editable, BeforeBranch
<1>2. CASE Review(u, f)
    BY <1>2, MoveShape DEF Review, CanReview, DoReview, Stages, BeforeBranch
<1>3. CASE ReturnRectification(u, f)
    BY <1>3, MoveShape DEF ReturnRectification, CanReturn, DoReturn, BeforeBranch
<1>4. CASE ResubmitRectification(u, f)
    <2>1. PICK s \in {"RECTIFIED", "SENT_TO_BRANCH_MANAGER", "PARTIALLY_RECTIFIED"} : MoveTo(f, s)
        BY <1>4 DEF ResubmitRectification, DoResubmit
    <2> QED
        BY <1>4, <2>1, MoveShape DEF ResubmitRectification, CanResubmit, DoResubmit, BeforeBranch
<1> QED
    BY <1>1, <1>2, <1>3, <1>4

\* Verification moves a counter that the books of the periods do not look at.
LEMMA VerifyShape ==
    ASSUME FInv, NEW u \in Users, NEW f \in Findings, VerifyRectification(u, f)
    PROVE  Restated(f)
<1>1. Exists(f) /\ DoVerify(u, f, Verifiable(f)) /\ finding[f] \in FindingRow
    BY Known DEF VerifyRectification, CanVerify
<1>2. PICK v : v = Plus(finding[f].verified, Verifiable(f))
    OBVIOUS
<1>3. PICK row : row = [finding[f] EXCEPT !.verified = v]
    OBVIOUS
<1>4. finding' = [finding EXCEPT ![f] = row] /\ UNCHANGED ledgers
    BY <1>1, <1>2, <1>3 DEF DoVerify, FInv, FindingsOK, FindingRow
<1>5. finding'[f] = row /\ LedgersKept(f)
    BY <1>4, RowGiven
<1>6. /\ row.period = finding[f].period /\ row.total = finding[f].total /\ row.items = finding[f].items
      /\ row.rectified = finding[f].rectified /\ row.closed = finding[f].closed
      /\ row.done = finding[f].done /\ row.status = finding[f].status
      /\ row.creator = finding[f].creator /\ row # NoFinding
    BY <1>1, <1>3 DEF FindingRow, NoFinding
<1> QED
    BY <1>1, <1>5, <1>6 DEF Restated, Registered, Exists

\* What both rectification handlers write: the counter and its row together.
LEMMA RectifiedShape ==
    ASSUME FInv, NEW u \in Users, NEW f \in Findings, MayRectify(u, f),
           NEW n \in Quantity, NEW S \in SUBSET DOMAIN finding[f].items, Entry(f, n, S),
           DoRectify(f, n, S)
    PROVE  RectifiedMore(f)
<1>1. Exists(f) /\ finding[f] \in FindingRow
    BY Known DEF MayRectify
<1>2. PICK r : r = Plus(finding[f].rectified, n)
    OBVIOUS
<1>3. PICK s \in {"RECTIFIED", "PARTIALLY_RECTIFIED"} :
          s = IF Covers(r, f) THEN "RECTIFIED" ELSE "PARTIALLY_RECTIFIED"
    OBVIOUS
<1>4. PICK row : row = [finding[f] EXCEPT !.rectified = r, !.done = finding[f].done \cup S, !.status = s]
    OBVIOUS
<1>5. finding' = [finding EXCEPT ![f] = row]
    BY <1>1, <1>2, <1>3, <1>4 DEF DoRectify, FInv, FindingsOK, FindingRow
<1>6. finding'[f] = row
    BY <1>5 DEF FInv, FindingsOK
<1>7. /\ rectifications'[f] = Append(rectifications[f], RectificationOf(f, n))
      /\ closures'[f] = closures[f] /\ transfers'[f] = transfers[f]
    BY DEF DoRectify, RectificationOf, FInv, LedgersOK
<1>8. /\ row.period = finding[f].period /\ row.total = finding[f].total /\ row.items = finding[f].items
      /\ row.rectified = r /\ row.closed = finding[f].closed
      /\ row.done = finding[f].done \cup S /\ row.status = s /\ row # NoFinding
    BY <1>1, <1>4 DEF FindingRow, NoFinding
<1>9. period[finding[f].period].status = "OPEN"
    BY DEF MayRectify, PeriodWritable
<1>10. s \notin BeforeBranch
    BY DEF BeforeBranch
<1> QED
    BY <1>1, <1>2, <1>6, <1>7, <1>8, <1>9, <1>10 DEF RectifiedMore, Registered, Exists

\* A plain entry ...
LEMMA RectifyShape ==
    ASSUME FInv, NEW u \in Users, NEW f \in Findings, Rectify(u, f) \/ RectifyItems(u, f)
    PROVE  RectifiedMore(f)
<1>1. CASE Rectify(u, f)
    <2>1. PICK n \in Entries : CanRectify(u, f, n) /\ DoRectify(f, n, {})
        BY <1>1 DEF Rectify
    <2>2. n \in Quantity /\ MayRectify(u, f) /\ Entry(f, n, {})
        BY <2>1, InputsAssumption DEF Entries, Quantity, CanRectify, Entry
    <2> QED
        BY <2>1, <2>2, RectifiedShape
<1>2. CASE RectifyItems(u, f)
    <2>1. PICK S \in SUBSET DOMAIN finding[f].items : \E picks \in [S -> 1..Repeats] :
              CanRectifyItems(u, f, picks) /\ DoRectify(f, Picked(f, picks), S)
        BY <1>2 DEF RectifyItems
    <2>2. PICK picks \in [S -> 1..Repeats] :
              CanRectifyItems(u, f, picks) /\ DoRectify(f, Picked(f, picks), S)
        BY <2>1
    <2>3. MayRectify(u, f) /\ finding[f] \in FindingRow
        BY <2>2, Known DEF CanRectifyItems, MayRectify
    <2>4. Picked(f, picks) \in Quantity
        BY <2>3, PickedQuantity, InputsAssumption
    <2>5. Entry(f, Picked(f, picks), S)
        BY <2>2 DEF CanRectifyItems, Entry
    <2> QED
        BY <2>2, <2>3, <2>4, <2>5, RectifiedShape
<1> QED
    BY <1>1, <1>2

\* Closing credits the closed difference to the period the finding is in.
LEMMA CloseShape ==
    ASSUME FInv, NEW u \in Users, NEW f \in Findings, Close(u, f)
    PROVE  ClosedMore(f)
<1>1. Exists(f) /\ DoClose(u, f, Closable(f))
    BY DEF Close, CanClose
<1>2. /\ finding[f] \in FindingRow /\ finding[f].rectified \in Quantity
      /\ finding[f].verified \in Quantity /\ finding[f].closed \in Quantity
      /\ AtMost(finding[f].verified, finding[f].rectified) /\ AtMost(finding[f].closed, finding[f].verified)
    BY <1>1, Known
<1>3. Closable(f) \in Quantity
    BY <1>2 DEF Closable, Least, Minus, AtMost, Quantity
<1>4. ~Early(f)
    BY CloseWorks DEF Worked
<1>5. PICK c : c = Plus(finding[f].closed, Closable(f))
    OBVIOUS
<1>6. PICK s : s = IF Covers(c, f) THEN "CLOSED" ELSE finding[f].status
    OBVIOUS
<1>7. PICK row : row = [finding[f] EXCEPT !.closed = c, !.status = s]
    OBVIOUS
<1>8. finding' = [finding EXCEPT ![f] = row]
    BY <1>1, <1>2, <1>5, <1>6, <1>7 DEF DoClose, FInv, FindingsOK, FindingRow
<1>9. finding'[f] = row
    BY <1>8 DEF FInv, FindingsOK
<1>10. /\ closures'[f] = Append(closures[f], ClosureOf(f, Closable(f)))
       /\ rectifications'[f] = rectifications[f] /\ transfers'[f] = transfers[f]
    BY <1>1 DEF DoClose, ClosureOf, FInv, LedgersOK
<1>11. /\ row.period = finding[f].period /\ row.total = finding[f].total /\ row.items = finding[f].items
       /\ row.rectified = finding[f].rectified /\ row.closed = c
       /\ row.done = finding[f].done /\ row.status = s /\ row # NoFinding
    BY <1>2, <1>7 DEF FindingRow, NoFinding
<1>12. s \notin BeforeBranch
    BY <1>4, <1>6 DEF Early, BeforeBranch
<1> QED
    BY <1>1, <1>3, <1>5, <1>9, <1>10, <1>11, <1>12 DEF ClosedMore, Registered, Exists

\* Reopening empties rectifications and closures; the transfers stay.
LEMMA ReopenShape ==
    ASSUME FInv, NEW u \in Users, NEW f \in Findings, Reopen(u, f)
    PROVE  StartedOver(f)
<1>1. CanReopen(u, f) /\ DoReopen(f) /\ Exists(f) /\ finding[f] \in FindingRow
    BY Known DEF Reopen, CanReopen
<1>2. PICK row : row = Reopened(f)
    OBVIOUS
<1>3. /\ row.status = "SENT_TO_BRANCH_MANAGER" /\ row.rectified = Zero /\ row.closed = Zero
      /\ row.done = {} /\ row.period = finding[f].period /\ row.total = finding[f].total
      /\ row.items = finding[f].items /\ row # NoFinding
    BY <1>1, <1>2 DEF Reopened, FindingRow, NoFinding
<1>4. finding'[f] = row
    BY <1>1, <1>2 DEF DoReopen, FInv, FindingsOK
<1>5. rectifications'[f] = <<>> /\ closures'[f] = <<>> /\ transfers'[f] = transfers[f]
    BY <1>1 DEF DoReopen, FInv, LedgersOK
<1>6. "reopen" \in Grants[u]
    BY <1>1 DEF CanReopen, May
<1> QED
    BY <1>1, <1>3, <1>4, <1>5, <1>6 DEF StartedOver, Registered, Exists

\* What a transfer writes, by its button or by a closing period.
LEMMA CarriedShape ==
    ASSUME FInv, NEW f \in Findings, Exists(f), finding[f].status \in Transferable,
           NEW q \in Periods, period[q].status = "OPEN",
           NewDates = {} /\ InUse(finding[f].period) => period[finding[f].period].at < period[q].at,
           finding'[f] = Transferred(f, q), transfers'[f] = Append(transfers[f], Move(f, q)),
           rectifications' = rectifications, closures' = closures
    PROVE  Carried(f)
<1>1. finding[f] \in FindingRow
    BY Known
<1>2. PICK row : row = Transferred(f, q)
    OBVIOUS
<1>3. /\ row.status = "TRANSFERRED" /\ row.period = q /\ row.total = finding[f].total
      /\ row.items = finding[f].items /\ row.rectified = finding[f].rectified
      /\ row.closed = finding[f].closed /\ row.done = finding[f].done /\ row # NoFinding
    BY <1>1, <1>2 DEF Transferred, FindingRow, NoFinding
<1> QED
    BY <1>2, <1>3 DEF Carried, Exists

\* The transfer button ...
LEMMA TransferShape ==
    ASSUME FInv, NEW u \in Users, NEW f \in Findings, Transfer(u, f)
    PROVE  Carried(f)
<1>1. PICK q \in Periods : CanTransfer(u, f, q) /\ DoTransfer(f, q)
    BY DEF Transfer
<1>2. Exists(f) /\ finding[f].status \in Transferable /\ period[q].status = "OPEN" /\ Onward(f, q)
    BY <1>1 DEF CanTransfer
<1>3. /\ finding'[f] = Transferred(f, q) /\ rectifications' = rectifications /\ closures' = closures
      /\ transfers'[f] = Append(transfers[f], Move(f, q))
    BY <1>1 DEF DoTransfer, FInv, FindingsOK, LedgersOK
<1>4. /\ finding[f].period \in Periods
      /\ InUse(finding[f].period) => period[finding[f].period].at < period[q].at
    <2>1. finding[f].period \in Periods
        BY <1>2, Known DEF FindingRow
    <2>2. period[q] \in PeriodRow
        BY <1>2 DEF FInv, PeriodsOK, NoPeriod
    <2>3. InUse(finding[f].period) => period[finding[f].period] \in PeriodRow
        BY <2>1 DEF FInv, PeriodsOK, InUse
    <2> QED
        BY <1>2, <2>1, <2>2, <2>3 DEF Onward, PeriodRow
<1> QED
    BY <1>2, <1>3, <1>4, CarriedShape

\* ... and the lock of a period, which may sweep what can be transferred to the next one.
LEMMA PatchPeriodShape ==
    ASSUME FInv, NEW u \in Users, NEW p \in Periods, PatchPeriod(u, p), NEW f \in Findings
    PROVE  RowKept(f) \/ Carried(f)
<1>1. PICK req \in PatchRequests, sweep \in BOOLEAN :
          CanPatchPeriod(u, p, req) /\ DoPatchPeriod(p, req, ChangesStatus(p, req), sweep)
    BY DEF PatchPeriod
<1>2. PICK at : at = Sent(req.at, period[p].at)
    OBVIOUS
<1>3. PICK dests : dests = Destinations(p, at)
    OBVIOUS
<1>4. PICK moved : moved = IF ChangesStatus(p, req) /\ req.status = "LOCKED" /\ sweep /\ dests # {}
                           THEN Sweepable(p) ELSE {}
    OBVIOUS
<1>5. PICK dest : dest = CHOOSE q \in dests : TRUE
    OBVIOUS
<1>6. /\ finding' = [g \in Findings |-> IF g \in moved THEN Transferred(g, dest) ELSE finding[g]]
      /\ transfers' = [g \in Findings |->
            IF g \in moved THEN Append(transfers[g], Move(g, dest)) ELSE transfers[g]]
      /\ rectifications' = rectifications /\ closures' = closures
    BY <1>1, <1>2, <1>3, <1>4, <1>5 DEF DoPatchPeriod
<1>7. CASE f \in moved
    <2>1. Exists(f) /\ finding[f].status \in Transferable /\ dests # {} /\ finding[f].period = p
        BY <1>4, <1>7 DEF Sweepable, InPeriod
    <2>2. dest \in Periods /\ period[dest].status = "OPEN" /\ period[dest].at > at
        BY <1>3, <1>5, <2>1 DEF Destinations
    <2>3. NewDates = {} => at = period[p].at
        BY <1>2 DEF PatchRequests, Optional, Sent
    <2>4. period[dest] \in PeriodRow /\ period[p] \in PeriodRow
        BY <1>1, <2>2 DEF FInv, PeriodsOK, NoPeriod, CanPatchPeriod, InUse
    <2>5. NewDates = {} => period[p].at < period[dest].at
        BY <2>2, <2>3, <2>4 DEF PeriodRow
    <2>6. finding'[f] = Transferred(f, dest) /\ transfers'[f] = Append(transfers[f], Move(f, dest))
        BY <1>6, <1>7
    <2> QED
        BY <1>6, <2>1, <2>2, <2>5, <2>6, CarriedShape
<1>8. CASE f \notin moved
    BY <1>6, <1>8 DEF RowKept
<1> QED
    BY <1>7, <1>8

\* Every step of the workflow has one of the shapes for each finding.
LEMMA HandlersAreShaped ==
    ASSUME FInv, [Next]_tables, NEW f \in Findings
    PROVE  Handled(f)
<1>1. ASSUME NEW u \in Users, NEW g \in Findings, FindingStep(u, g)
      PROVE  Handled(f)
    <2>1. CASE g = f
        BY <1>1, <2>1, CreateShape, EditShape, DeleteShape, StatusShape, VerifyShape, RectifyShape,
           CloseShape, ReopenShape, TransferShape DEF FindingStep, Handled
    <2>2. CASE g # f
        <3>1. Registering(u, g) => RowKept(f)
            BY <2>2, RegisteringAlone
        <3>2. ~Registering(u, g) => RowKept(f)
            BY <1>1, <2>2, RectifyWorks, RectifyItemsWorks, VerifyWorks, CloseWorks, ReturnWorks,
               ResubmitWorks, ReopenWorks, TransferWorks DEF FindingStep, Registering
        <3> QED
            BY <3>1, <3>2 DEF Handled
    <2> QED
        BY <2>1, <2>2
<1>2. ASSUME NEW u \in Users, NEW p \in Periods, PeriodStep(u, p)
      PROVE  Handled(f)
    BY <1>2, PatchPeriodShape DEF PeriodStep, CreatePeriod, DeletePeriod, DoCreatePeriod,
       DoDeletePeriod, ledgers, RowKept, Handled
<1>3. ASSUME NEW p \in MovingWindows, MoveWindow(p) PROVE Handled(f)
    BY <1>3 DEF MoveWindow, ledgers, RowKept, Handled
<1>4. CASE UNCHANGED tables
    BY <1>4 DEF tables, RowKept, Handled
<1> QED
    BY <1>1, <1>2, <1>3, <1>4 DEF Next

\* So has every import, and its reversal.
LEMMA StepsAreShaped ==
    ASSUME FInv, [ImportNext]_tables, NEW f \in Findings
    PROVE  Shaped(f)
<1>1. ASSUME NEW u \in Users, NEW g \in Findings, ImportRow(u, g) PROVE Shaped(f)
    <2>1. CASE g = f
        BY <1>1, <2>1 DEF ImportRow, BroughtIn, Shaped
    <2>2. CASE g # f
        BY <1>1, <2>2, ImportAlone DEF Shaped
    <2> QED
        BY <2>1, <2>2
<1>2. ASSUME NEW u \in Users, NEW S \in SUBSET Findings, ReverseImport(u, S) PROVE Shaped(f)
    BY <1>2, ReversalIs DEF RowKept, Dropped, LedgersEmpty, Shaped
<1>3. CASE [Next]_tables
    BY <1>3, HandlersAreShaped DEF Handled, Shaped
<1> QED
    BY <1>1, <1>2, <1>3 DEF ImportNext

-----------------------------------------------------------------------------
(* The path of a finding through the periods. *)

\* A finding that is still in registration has made no transfer; the rows of
\* any other follow each other and end where it is.
PathOK(row, moves) ==
    row # NoFinding =>
        /\ \A i \in 1..(Len(moves) - 1) : moves[i].to = moves[i + 1].from
        /\ moves # <<>> => moves[Len(moves)].to = row.period
        /\ row.status \in BeforeBranch => moves = <<>>

PathsOK == \A f \in Findings : PathOK(finding[f], transfers[f])

\* One move more, from the end of a path
LEMMA PathExtends ==
    ASSUME NEW moves \in Seq(TransferRow), NEW m \in TransferRow,
           \A i \in 1..(Len(moves) - 1) : moves[i].to = moves[i + 1].from,
           moves # <<>> => moves[Len(moves)].to = m.from
    PROVE  LET more == Append(moves, m)
           IN  /\ \A i \in 1..(Len(more) - 1) : more[i].to = more[i + 1].from
               /\ more # <<>> /\ more[Len(more)] = m
<1> DEFINE more == Append(moves, m)
           n == Len(moves)
<1>1. /\ n \in Nat /\ Len(more) = n + 1 /\ more[n + 1] = m /\ more # <<>>
      /\ \A i \in 1..n : more[i] = moves[i]
    OBVIOUS
<1>2. n = 0 <=> moves = <<>>
    OBVIOUS
<1>3. ASSUME NEW i \in 1..n PROVE more[i].to = more[i + 1].from
    <2>1. CASE i = n
        <3>1. moves # <<>> /\ more[i] = moves[n] /\ more[i + 1] = m
            BY <1>1, <1>2, <2>1
        <3> QED
            BY <3>1
    <2>2. CASE i # n
        <3>1. i \in 1..(n - 1) /\ more[i] = moves[i] /\ more[i + 1] = moves[i + 1]
            BY <1>1, <2>2
        <3> QED
            BY <3>1
    <2> QED
        BY <2>1, <2>2
<1> HIDE DEF more, n
<1> QED
    BY <1>1, <1>3 DEF more, n

\* Each shape of a step keeps the path of its finding connected.
LEMMA PathStep ==
    ASSUME FInv, PathsOK, NEW f \in Findings, Shaped(f)
    PROVE  PathOK(finding'[f], transfers'[f])
<1>1. SUFFICES ASSUME finding'[f] # NoFinding PROVE PathOK(finding'[f], transfers'[f])
    BY DEF PathOK
<1>2. PathOK(finding[f], transfers[f])
    BY DEF PathsOK
<1>3. CASE RowKept(f)
    BY <1>2, <1>3 DEF RowKept
<1>4. CASE Entered(f)
    BY <1>4 DEF Entered, LedgersEmpty, PathOK
<1>5. CASE BroughtIn(f)
    <2>1. PICK u \in Users, row \in ImportRows : CanImport(u, f, row) /\ DoImport(u, f, row)
        BY <1>5 DEF BroughtIn
    <2>2. PICK moved : moved = [from |-> row.period, to |-> row.to, qty |-> Minus(row.total, Declared(row))]
        OBVIOUS
    <2>3. /\ finding'[f].status = row.status
          /\ finding'[f].period = IF row.status = "TRANSFERRED" THEN row.to ELSE row.period
          /\ transfers'[f] = IF row.status = "TRANSFERRED" THEN <<moved>> ELSE <<>>
        BY <2>1, <2>2 DEF DoImport, FInv, FindingsOK, LedgersOK
    <2>4. row.status \notin BeforeBranch
        BY DEF ImportRows, ImportStatuses, BeforeBranch
    <2>5. Len(<<moved>>) = 1 /\ <<moved>>[1] = moved /\ moved.to = row.to
        BY <2>2
    <2> QED
        BY <2>3, <2>4, <2>5 DEF PathOK
<1>6. CASE Amended(f)
    BY <1>2, <1>6 DEF Amended, LedgersKept, PathOK, Exists, Editable, BeforeBranch
<1>7. CASE Dropped(f)
    BY <1>1, <1>7 DEF Dropped
<1>8. CASE Restated(f) \/ RectifiedMore(f) \/ ClosedMore(f) \/ StartedOver(f)
    <2>1. /\ transfers'[f] = transfers[f] /\ finding'[f].period = finding[f].period /\ Exists(f)
          /\ finding'[f].status \in BeforeBranch => finding[f].status \in BeforeBranch
        BY <1>8 DEF Restated, RectifiedMore, ClosedMore, StartedOver, LedgersKept, Registered, BeforeBranch
    <2> QED
        BY <1>2, <2>1 DEF PathOK, Exists
<1>9. CASE Carried(f)
    <2>1. PICK q \in Periods :
              finding'[f].period = q /\ transfers'[f] = Append(transfers[f], Move(f, q))
        BY <1>9 DEF Carried
    <2>2. PICK m : m = Move(f, q)
        OBVIOUS
    <2>3. Exists(f) /\ finding[f].status \in Transferable /\ finding'[f].status = "TRANSFERRED"
        BY <1>9 DEF Carried
    <2>4. m \in TransferRow /\ transfers[f] \in Seq(TransferRow)
        <3>1. finding[f] \in FindingRow /\ AtMost(finding[f].closed, finding[f].total)
              /\ finding[f].total \in Quantity /\ finding[f].closed \in Quantity
            BY <2>3, Known DEF AtMost, Quantity
        <3>2. Unclosed(f) \in Quantity
            BY <3>1, QuantityMinus DEF Unclosed
        <3> QED
            BY <2>2, <3>1, <3>2, Ledgers DEF Move, TransferRow, FindingRow
    <2>5. m.from = finding[f].period /\ m.to = q
        BY <2>2 DEF Move
    <2>6. /\ \A i \in 1..(Len(transfers[f]) - 1) : transfers[f][i].to = transfers[f][i + 1].from
          /\ transfers[f] # <<>> => transfers[f][Len(transfers[f])].to = m.from
        BY <1>2, <2>3, <2>5 DEF PathOK, Exists
    <2>7. PICK more : more = Append(transfers[f], m)
        OBVIOUS
    <2>8. /\ \A i \in 1..(Len(more) - 1) : more[i].to = more[i + 1].from
          /\ more # <<>> /\ more[Len(more)] = m
        BY <2>4, <2>6, <2>7, PathExtends
    <2>9. transfers'[f] = more /\ finding'[f].period = m.to
        BY <2>1, <2>2, <2>5, <2>7
    <2> QED
        BY <2>3, <2>8, <2>9 DEF PathOK, BeforeBranch
<1> QED
    BY <1>3, <1>4, <1>5, <1>6, <1>7, <1>8, <1>9 DEF Shaped

-----------------------------------------------------------------------------
(* The periods that rows name. *)

\* A period in use stays so, on its date unless dates may be moved, except when
\* it is deleted: then nothing is in it and no row names it.
LEMMA PeriodsStay ==
    ASSUME FInv, [ImportNext]_tables, NEW p \in Periods, InUse(p)
    PROVE  \/ InUse(p)' /\ (NewDates = {} => period'[p].at = period[p].at)
           \/ InPeriod(p) = {} /\ NamedBy(p) = {} /\ \A f \in Findings : RowKept(f)
<1>1. period[p] \in PeriodRow
    BY DEF InUse, FInv, PeriodsOK
<1>2. CASE period' = period
    BY <1>2 DEF InUse
<1>3. ASSUME NEW u \in Users, NEW q \in Periods, CreatePeriod(u, q)
      PROVE  period'[p] = period[p]
    BY <1>3 DEF CreatePeriod, CanCreatePeriod, DoCreatePeriod, FInv, PeriodsOK
<1>4. ASSUME NEW u \in Users, NEW q \in Periods, DeletePeriod(u, q)
      PROVE  \/ period'[p] = period[p]
             \/ InPeriod(p) = {} /\ NamedBy(p) = {} /\ \A f \in Findings : RowKept(f)
    BY <1>4 DEF DeletePeriod, CanDeletePeriod, DoDeletePeriod, FInv, PeriodsOK, RowKept, ledgers
<1>5. ASSUME NEW u \in Users, NEW q \in Periods, PatchPeriod(u, q)
      PROVE  InUse(p)' /\ (NewDates = {} => period'[p].at = period[p].at)
    <2>1. PICK req \in PatchRequests, sweep \in BOOLEAN :
              CanPatchPeriod(u, q, req) /\ DoPatchPeriod(q, req, ChangesStatus(q, req), sweep)
        BY <1>5 DEF PatchPeriod
    <2>2. PICK at, status, drafts :
              /\ at = Sent(req.at, period[q].at)
              /\ status = IF ChangesStatus(q, req) THEN req.status ELSE period[q].status
              /\ drafts = Sent(req.drafts, period[q].drafts)
        OBVIOUS
    <2>3. period[q] \in PeriodRow
        BY <2>1 DEF CanPatchPeriod, InUse, FInv, PeriodsOK
    <2>4. PICK row : row = [period[q] EXCEPT !.status = status, !.drafts = drafts, !.at = at]
        OBVIOUS
    <2>5. period' = [period EXCEPT ![q] = row]
        BY <2>1, <2>2, <2>3, <2>4 DEF DoPatchPeriod, FInv, PeriodsOK, PeriodRow
    <2>6. row.at = at /\ row.status = status
        BY <2>3, <2>4 DEF PeriodRow
    <2>7. status # "NONE"
        BY <2>2, <2>3 DEF PatchRequests, PeriodRow, ChangesStatus
    <2>8. NewDates = {} => at = period[q].at
        BY <2>2 DEF PatchRequests, Optional, Sent
    <2>9. period'[p] = IF p = q THEN row ELSE period[p]
        BY <2>5 DEF FInv, PeriodsOK
    <2> QED
        BY <1>1, <2>6, <2>7, <2>8, <2>9 DEF InUse, NoPeriod
<1>6. ASSUME NEW q \in MovingWindows, MoveWindow(q)
      PROVE  InUse(p)' /\ period'[p].at = period[p].at
    <2>1. q \in Periods /\ period[q] \in PeriodRow
        BY <1>6, InputsAssumption DEF MoveWindow, InUse, FInv, PeriodsOK
    <2>2. PICK window : window = ~period[q].window
        OBVIOUS
    <2>3. PICK row : row = [period[q] EXCEPT !.window = window]
        OBVIOUS
    <2>4. period' = [period EXCEPT ![q] = row]
        BY <1>6, <2>1, <2>2, <2>3 DEF MoveWindow, FInv, PeriodsOK
    <2>5. row.at = period[q].at /\ row.status = period[q].status
        BY <2>1, <2>3 DEF PeriodRow
    <2>6. period'[p] = IF p = q THEN row ELSE period[p]
        BY <2>4 DEF FInv, PeriodsOK
    <2> QED
        BY <1>1, <2>1, <2>5, <2>6 DEF InUse, NoPeriod, PeriodRow
<1>7. ASSUME NEW u \in Users, NEW f \in Findings, FindingStep(u, f) \/ ImportRow(u, f)
      PROVE  period' = period
    BY <1>7 DEF FindingStep, Create, DoCreate, Edit, DoEdit, Delete, DoDelete, Submit, DoSubmit, Review,
       DoReview, Rectify, DoRectify, RectifyItems, VerifyRectification, DoVerify, Close, DoClose,
       ReturnRectification, DoReturn, ResubmitRectification, DoResubmit, Reopen, DoReopen,
       Transfer, DoTransfer, ImportRow, DoImport
<1>8. ASSUME NEW u \in Users, NEW S \in SUBSET Findings, ReverseImport(u, S)
      PROVE  period' = period
    BY <1>8 DEF ReverseImport, DoReverse
<1> QED
    BY <1>2, <1>3, <1>4, <1>5, <1>6, <1>7, <1>8 DEF ImportNext, Next, PeriodStep, tables, InUse

\* f is in p or one of its rows names p.
Names(row, recs, cls, moves, p) ==
    \/ row.period = p
    \/ \E i \in DOMAIN recs : recs[i].period = p
    \/ \E i \in DOMAIN cls : cls[i].period = p
    \/ \E i \in DOMAIN moves : p \in {moves[i].from, moves[i].to}

NamedHere(f, p) == Names(finding[f], rectifications[f], closures[f], transfers[f], p)

NamedNext(f, p) == Names(finding'[f], rectifications'[f], closures'[f], transfers'[f], p)

\* NoDanglingPeriod, said finding by finding.
LEMMA DanglingMeans ==
    NoDanglingPeriod <=>
        \A f \in Present : InUse(finding[f].period) /\ \A p \in Periods : NamedHere(f, p) => InUse(p)
BY DEF NoDanglingPeriod, InWork, InTransfers, NamedHere, Names

\* What one row more adds to what a ledger says of its rows
LEMMA OneRowMore ==
    ASSUME NEW R, NEW rows \in Seq(R), NEW x
    PROVE  /\ DOMAIN Append(rows, x) = DOMAIN rows \cup {Len(rows) + 1}
           /\ Append(rows, x)[Len(rows) + 1] = x
           /\ \A i \in DOMAIN rows : Append(rows, x)[i] = rows[i]
OBVIOUS

\* A period a step makes a row name was in use.
LEMMA NewNamesInUse ==
    ASSUME FInv, NoDanglingPeriod, NEW f \in Findings, Shaped(f), finding'[f] # NoFinding,
           NEW p \in Periods, NamedNext(f, p)
    PROVE  InUse(p)
<1>1. ASSUME Exists(f), NamedHere(f, p) PROVE InUse(p)
    BY <1>1, DanglingMeans DEF Present
<1>2. Exists(f) => InUse(finding[f].period)
    BY DanglingMeans DEF Present
<1>3. CASE RowKept(f)
    BY <1>1, <1>3 DEF RowKept, NamedHere, NamedNext, Exists
<1>4. CASE Entered(f)
    BY <1>4 DEF Entered, LedgersEmpty, NamedNext, Names
<1>5. CASE BroughtIn(f)
    <2>1. PICK u \in Users, row \in ImportRows : CanImport(u, f, row) /\ DoImport(u, f, row)
        BY <1>5 DEF BroughtIn
    <2>2. PICK rect : rect = [period |-> row.period, qty |-> Declared(row), after |-> 0]
        OBVIOUS
    <2>3. PICK clos : clos = [period |-> row.period, qty |-> Declared(row)]
        OBVIOUS
    <2>4. PICK moved : moved = [from |-> row.period, to |-> row.to, qty |-> Minus(row.total, Declared(row))]
        OBVIOUS
    <2>5. /\ finding'[f].period = IF row.status = "TRANSFERRED" THEN row.to ELSE row.period
          /\ rectifications'[f] = <<>> \/ rectifications'[f] = <<rect>>
          /\ closures'[f] = <<>> \/ closures'[f] = <<clos>>
          /\ transfers'[f] = IF row.status = "TRANSFERRED" THEN <<moved>> ELSE <<>>
        BY <2>1, <2>2, <2>3, <2>4 DEF DoImport, FInv, FindingsOK, LedgersOK
    <2>6. InUse(row.period) /\ (row.status = "TRANSFERRED" => InUse(row.to))
        BY <2>1 DEF CanImport, ValidDestination, InUse, NoPeriod
    <2>7. p = row.period \/ (row.status = "TRANSFERRED" /\ p = row.to)
        BY <2>2, <2>3, <2>4, <2>5 DEF NamedNext, Names
    <2> QED
        BY <2>6, <2>7
<1>6. CASE Amended(f)
    <2>1. Exists(f) /\ InUse(finding'[f].period) /\ LedgersKept(f)
        BY <1>6 DEF Amended
    <2>2. p = finding'[f].period \/ NamedHere(f, p)
        BY <2>1 DEF LedgersKept, NamedHere, NamedNext, Names
    <2> QED
        BY <1>1, <2>1, <2>2
<1>7. CASE Restated(f)
    BY <1>1, <1>7 DEF Restated, LedgersKept, Registered, NamedHere, NamedNext, Names
<1>8. CASE RectifiedMore(f)
    <2>1. PICK n : rectifications'[f] = Append(rectifications[f], RectificationOf(f, n))
        BY <1>8 DEF RectifiedMore
    <2>2. RectificationOf(f, n).period = finding[f].period
        BY DEF RectificationOf
    <2>3. /\ Exists(f) /\ closures'[f] = closures[f] /\ transfers'[f] = transfers[f]
          /\ finding'[f].period = finding[f].period
        BY <1>8 DEF RectifiedMore, Registered
    <2>4. NamedHere(f, p)
        BY <2>1, <2>2, <2>3, OneRowMore, Ledgers DEF NamedHere, NamedNext, Names
    <2> QED
        BY <1>1, <2>3, <2>4
<1>9. CASE ClosedMore(f)
    <2>1. PICK n : closures'[f] = Append(closures[f], ClosureOf(f, n))
        BY <1>9 DEF ClosedMore
    <2>2. ClosureOf(f, n).period = finding[f].period
        BY DEF ClosureOf
    <2>3. /\ Exists(f) /\ rectifications'[f] = rectifications[f] /\ transfers'[f] = transfers[f]
          /\ finding'[f].period = finding[f].period
        BY <1>9 DEF ClosedMore, Registered
    <2>4. NamedHere(f, p)
        BY <2>1, <2>2, <2>3, OneRowMore, Ledgers DEF NamedHere, NamedNext, Names
    <2> QED
        BY <1>1, <2>3, <2>4
<1>10. CASE StartedOver(f)
    BY <1>1, <1>10 DEF StartedOver, Registered, NamedHere, NamedNext, Names
<1>11. CASE Carried(f)
    <2>1. PICK q \in Periods : /\ period[q].status = "OPEN" /\ finding'[f].period = q
                               /\ transfers'[f] = Append(transfers[f], Move(f, q))
        BY <1>11 DEF Carried
    <2>2. Move(f, q).from = finding[f].period /\ Move(f, q).to = q /\ InUse(q)
        BY <2>1 DEF Move, InUse, NoPeriod
    <2>3. Exists(f) /\ rectifications'[f] = rectifications[f] /\ closures'[f] = closures[f]
        BY <1>11 DEF Carried
    <2>4. p = q \/ NamedHere(f, p)
        BY <2>1, <2>2, <2>3, OneRowMore, Ledgers DEF NamedHere, NamedNext, Names
    <2> QED
        BY <1>1, <2>2, <2>3, <2>4
<1>12. ~Dropped(f)
    BY DEF Dropped
<1> QED
    BY <1>3, <1>4, <1>5, <1>6, <1>7, <1>8, <1>9, <1>10, <1>11, <1>12 DEF Shaped

\* A step leaves no name of a period that is not in use.
LEMMA NamesStep ==
    ASSUME FInv, NoDanglingPeriod, [ImportNext]_tables, FInv'
    PROVE  NoDanglingPeriod'
<1>1. ASSUME NEW f \in Findings, finding'[f] # NoFinding, NEW p \in Periods, NamedNext(f, p)
      PROVE  InUse(p)'
    <2>1. InUse(p)
        BY <1>1, StepsAreShaped, NewNamesInUse
    <2>2. ~(InPeriod(p) = {} /\ NamedBy(p) = {} /\ RowKept(f))
        BY <1>1 DEF InPeriod, NamedBy, InWork, InTransfers, RowKept, NamedNext, Names, Exists
    <2> QED
        BY <2>1, <2>2, PeriodsStay
<1>2. ASSUME NEW f \in Findings, finding'[f] # NoFinding
      PROVE  finding'[f].period \in Periods /\ NamedNext(f, finding'[f].period)
    BY <1>2 DEF FInv, FindingsOK, GoodRow, FindingRow, NamedNext, Names
<1> QED
    BY <1>1, <1>2 DEF NoDanglingPeriod, Present, Exists, InWork, InTransfers, NamedNext, Names
-----------------------------------------------------------------------------
(* What each period has of a finding. *)

\* Transfers of the workflow move quantities between its periods.
LEMMA TransfersMove == TransferRow = Moving(Periods, Dim) /\ Quantity = Amounts(Dim)
BY DEF TransferRow, Moving, Quantity, Amounts

\* Only the last stay has not ended, and it is in the finding's own period.
LEMMA LastStayIsHome ==
    ASSUME NEW moves \in Seq(TransferRow), NEW home \in Periods, NEW total \in Quantity,
           moves # <<>> => moves[Len(moves)].to = home, NEW p \in Periods
    PROVE  StillIn(moves, home, total, p) <=> p = home
<1>1. moves \in Seq(Moving(Periods, Dim)) /\ total \in Amounts(Dim)
    BY TransfersMove
<1> QED
    BY <1>1, OnlyLastStayGoesOn

\* The shares of the periods add up to the finding.
LEMMA SharesOfOne ==
    ASSUME NEW f \in Findings, Exists(f), FInv, NEW d \in Dim
    PROVE  SumFunction([p \in Periods |-> Eligible(f, p, d)]) = finding[f].total[d]
<1>1. /\ finding[f].period \in Periods /\ finding[f].total \in Quantity
      /\ transfers[f] \in Seq(TransferRow)
    BY Known, Ledgers DEF FindingRow
<1>2. /\ transfers[f] \in Seq(Moving(Periods, Dim)) /\ finding[f].total \in Amounts(Dim)
      /\ IsFiniteSet(Periods)
    BY <1>1, TransfersMove, ConstantsAssumption
<1>3. PICK share : share = [p \in Periods |-> Eligible(f, p, d)]
    OBVIOUS
<1>4. \A p \in Periods : share[p] = EligibleIn(transfers[f], finding[f].period, finding[f].total, p, d)
    BY <1>3 DEF Eligible
<1>5. SumFunctionOnSet(share, Periods) = finding[f].total[d]
    BY <1>1, <1>2, <1>4, SharesOfStays
<1>6. DOMAIN share = Periods
    BY <1>3
<1> QED
    BY <1>3, <1>5, <1>6 DEF SumFunction

-----------------------------------------------------------------------------
(* The residency of every finding adds up. *)

\* Paths and names, with the rows they are about, are inductive.
RInv == FInv /\ PathsOK /\ NoDanglingPeriod

\* At first there is no finding to have a path.
LEMMA InitRInv == Init => RInv
<1> SUFFICES ASSUME Init PROVE RInv
    OBVIOUS
<1>1. FInv
    BY InitFInv
<1>2. \A f \in Findings : finding[f] = NoFinding
    BY DEF Init, TablesInit
<1>3. PathsOK /\ NoDanglingPeriod
    BY <1>2 DEF PathsOK, PathOK, NoDanglingPeriod, Present, Exists
<1> QED
    BY <1>1, <1>3 DEF RInv

\* The invariant behind the shares of the periods is inductive.
LEMMA StepRInv == RInv /\ [ImportNext]_tables => RInv'
<1> SUFFICES ASSUME RInv, [ImportNext]_tables PROVE RInv'
    OBVIOUS
<1>1. FInv /\ PathsOK /\ NoDanglingPeriod /\ FInv'
    BY ImportedStep DEF RInv
<1>2. PathsOK'
    BY <1>1, StepsAreShaped, PathStep DEF PathsOK
<1>3. NoDanglingPeriod'
    BY <1>1, NamesStep
<1> QED
    BY <1>1, <1>2, <1>3 DEF RInv

\* Every case has one period to answer for it
LEMMA RInvGives == RInv => ResidencyAddsUp
<1> SUFFICES ASSUME RInv PROVE ResidencyAddsUp
    OBVIOUS
<1>1. FInv /\ PathsOK /\ NoDanglingPeriod
    BY DEF RInv
<1>2. TransfersFormPath
    BY <1>1 DEF PathsOK, PathOK, TransfersFormPath, Present, Exists
<1>3. CurrentStayIsHome
    <2>1. ASSUME NEW f \in Present, NEW p \in Periods
          PROVE  StillIn(transfers[f], finding[f].period, finding[f].total, p) <=> p = finding[f].period
        <3>1. f \in Findings /\ Exists(f)
            BY <2>1 DEF Present
        <3>2. /\ finding[f].period \in Periods /\ finding[f].total \in Quantity
              /\ transfers[f] \in Seq(TransferRow)
            BY <1>1, <3>1, Known, Ledgers DEF FindingRow
        <3>3. transfers[f] # <<>> => transfers[f][Len(transfers[f])].to = finding[f].period
            BY <1>1, <3>1 DEF PathsOK, PathOK, Exists
        <3> QED
            BY <3>2, <3>3, LastStayIsHome
    <2>2. ASSUME NEW f \in Present PROVE finding[f].period \in Periods
        BY <1>1, <2>2, Known DEF Present, FindingRow
    <2> QED
        BY <2>1, <2>2 DEF CurrentStayIsHome
<1>4. SharesAddUp
    BY <1>1, SharesOfOne DEF SharesAddUp, Present
<1> QED
    BY <1>1, <1>2, <1>3, <1>4 DEF ResidencyAddsUp

\* Wherever it is transferred, reopened or imported to, a finding's path is
\* unbroken, names periods that exist, ends where the finding is, and the
\* shares of the periods add up to it.
THEOREM ResidencyAlwaysAddsUp == ImportSpec => []ResidencyAddsUp
BY InitRInv, StepRInv, RInvGives, TablesOfImports, PTL

-----------------------------------------------------------------------------
(* The ticked cases of an itemised finding. *)

\* The cases and the money of a set of ticked cases
Ones(items) == [i \in DOMAIN items |-> 1]
Places(items) == [i \in DOMAIN items |-> i]
Ticked(items, S) ==
    [d \in Dim |-> DealtTo(IF d = "cases" THEN Ones(items) ELSE items, Places(items), S)]

\* The amounts of the registered cases, and the ones that count the cases.
LEMMA ItemsAre ==
    ASSUME NEW items \in Seq(Nat)
    PROVE  /\ Len(items) \in Nat /\ DOMAIN items = 1..Len(items)
           /\ items \in [1..Len(items) -> Nat] /\ Ones(items) \in [1..Len(items) -> Nat]
           /\ items \in [1..Len(items) -> Int] /\ Ones(items) \in [1..Len(items) -> Int]
BY DEF Ones

\* Ticking more cases adds their number and their amount, ...
LEMMA TickedBoth ==
    ASSUME NEW items \in Seq(Nat), NEW S, NEW T, S \cap T = {}
    PROVE  Ticked(items, S \cup T) = Plus(Ticked(items, S), Ticked(items, T))
<1>1. PICK m \in Nat : m = Len(items)
    BY ItemsAre
<1>2. items \in [1..m -> Int] /\ Ones(items) \in [1..m -> Int]
    BY <1>1, ItemsAre
<1>3. PICK w : w = Places(items)
    OBVIOUS
<1>4. /\ DealtTo(items, w, S \cup T) = DealtTo(items, w, S) + DealtTo(items, w, T)
      /\ DealtTo(Ones(items), w, S \cup T) = DealtTo(Ones(items), w, S) + DealtTo(Ones(items), w, T)
    BY <1>2, DealtBoth
<1>5. \A d \in Dim : Ticked(items, S \cup T)[d] = Ticked(items, S)[d] + Ticked(items, T)[d]
    BY <1>3, <1>4 DEF Ticked
<1> QED
    BY <1>5 DEF Ticked, Plus

\* ... which are a quantity, ...
LEMMA TickedQuantity ==
    ASSUME NEW items \in Seq(Nat), NEW S
    PROVE  Ticked(items, S) \in Quantity
<1>1. PICK m \in Nat : m = Len(items)
    BY ItemsAre
<1>2. items \in [1..m -> Nat] /\ Ones(items) \in [1..m -> Nat]
    BY <1>1, ItemsAre
<1>3. \A d \in Dim : Ticked(items, S)[d] \in Nat
    BY <1>2, DealtNat DEF Ticked
<1> QED
    BY <1>3 DEF Ticked, Quantity

\* ... and nothing when nothing is ticked.
LEMMA TickedNone ==
    ASSUME NEW items \in Seq(Nat)
    PROVE  Ticked(items, {}) = Zero
<1>1. PICK m \in Nat : m = Len(items)
    BY ItemsAre
<1>2. items \in [1..m -> Int] /\ Ones(items) \in [1..m -> Int]
    BY <1>1, ItemsAre
<1>3. \A d \in Dim : Ticked(items, {})[d] = 0
    BY <1>2, DealtNone DEF Ticked
<1> QED
    BY <1>3 DEF Ticked, Zero

\* All cases ticked
LEMMA TickedAll ==
    ASSUME NEW items \in Seq(Nat)
    PROVE  /\ Ticked(items, DOMAIN items)["cases"] = Len(items)
           /\ Ticked(items, DOMAIN items)["amount"] = SumOf(items)
<1>1. PICK m \in Nat : m = Len(items) /\ DOMAIN items = 1..m
    BY ItemsAre
<1>2. "cases" \in Dim /\ "amount" \in Dim /\ "cases" # "amount"
    BY DEF Dim
<1>3. [i \in DOMAIN items |-> IF Places(items)[i] \in DOMAIN items THEN items[i] ELSE 0] = items
    BY <1>1 DEF Places
<1>4. [i \in DOMAIN Ones(items) |-> IF Places(items)[i] \in DOMAIN items THEN Ones(items)[i] ELSE 0]
        = Ones(items)
    BY DEF Places, Ones
<1>5. SumOf(Ones(items)) = m
    BY <1>1, SumOfOnes DEF Ones
<1> QED
    BY <1>1, <1>2, <1>3, <1>4, <1>5 DEF Ticked, DealtTo

\* A selection that lists its cases once picks what is ticked.
LEMMA PickedOnce ==
    ASSUME NEW f \in Findings, finding[f].items \in Seq(Nat), NEW S \in SUBSET DOMAIN finding[f].items
    PROVE  Picked(f, Once(S)) = Ticked(finding[f].items, S)
<1>1. PICK items : items = finding[f].items
    OBVIOUS
<1>2. \A i \in DOMAIN items : items[i] \in Nat
    BY <1>1
<1>3. [i \in DOMAIN items |-> IF i \in DOMAIN Once(S) THEN Once(S)[i] ELSE 0]
        = [i \in DOMAIN Ones(items) |-> IF Places(items)[i] \in S THEN Ones(items)[i] ELSE 0]
    BY <1>1 DEF Once, Ones, Places
<1>4. [i \in DOMAIN items |-> (IF i \in DOMAIN Once(S) THEN Once(S)[i] ELSE 0) * items[i]]
        = [i \in DOMAIN items |-> IF Places(items)[i] \in S THEN items[i] ELSE 0]
    <2>1. ASSUME NEW i \in DOMAIN items
          PROVE  (IF i \in DOMAIN Once(S) THEN Once(S)[i] ELSE 0) * items[i]
                    = IF Places(items)[i] \in S THEN items[i] ELSE 0
        <3>1. CASE i \in S
            <4>1. i \in DOMAIN Once(S) /\ Once(S)[i] = 1 /\ Places(items)[i] = i
                BY <2>1, <3>1 DEF Once, Places
            <4>2. 1 * items[i] = items[i]
                BY <1>2, <2>1
            <4> QED
                BY <3>1, <4>1, <4>2
        <3>2. CASE i \notin S
            <4>1. i \notin DOMAIN Once(S) /\ Places(items)[i] = i
                BY <2>1, <3>2 DEF Once, Places
            <4>2. 0 * items[i] = 0
                BY <1>2, <2>1
            <4> QED
                BY <3>2, <4>1, <4>2
        <3> QED
            BY <3>1, <3>2
    <2> QED
        BY <2>1
<1>5. Picked(f, Once(S)) = [d \in Dim |->
          IF d = "cases"
          THEN SumOf([i \in DOMAIN items |-> IF i \in DOMAIN Once(S) THEN Once(S)[i] ELSE 0])
          ELSE SumOf([i \in DOMAIN items |-> (IF i \in DOMAIN Once(S) THEN Once(S)[i] ELSE 0) * items[i]])]
    BY <1>1 DEF Picked
<1>6. Ticked(items, S) = [d \in Dim |->
          IF d = "cases"
          THEN SumOf([i \in DOMAIN Ones(items) |-> IF Places(items)[i] \in S THEN Ones(items)[i] ELSE 0])
          ELSE SumOf([i \in DOMAIN items |-> IF Places(items)[i] \in S THEN items[i] ELSE 0])]
    BY DEF Ticked, DealtTo
<1> QED
    BY <1>1, <1>3, <1>4, <1>5, <1>6

\* On an itemised finding the ticked cases are those its counters count.
ItemsFit(row) ==
    row # NoFinding /\ row.items # <<>> =>
        /\ Len(row.items) = row.total["cases"] /\ SumOf(row.items) = row.total["amount"]
        /\ row.done \subseteq DOMAIN row.items
        /\ Ticked(row.items, row.done) = row.rectified

AllItemsFit == \A f \in Findings : ItemsFit(finding[f])

\* What that takes: a selection lists a case once, and a breakdown adds up to
\* the registered amount exactly.
ExactItems == Repeats <= 1 /\ Tolerance = 0

\* A step keeps the ticked cases and the counter in agreement.
LEMMA ItemsStep ==
    ASSUME ExactItems, FInv, FInv', AllItemsFit, NEW f \in Findings, Shaped(f)
    PROVE  ItemsFit(finding'[f])
<1>1. SUFFICES ASSUME finding'[f] # NoFinding, finding'[f].items # <<>> PROVE ItemsFit(finding'[f])
    BY DEF ItemsFit
<1>2. finding'[f] \in FindingRow /\ finding'[f].items \in Seq(Nat) /\ finding'[f].total \in Quantity
    BY <1>1 DEF FInv, FindingsOK, GoodRow, FindingRow
<1>3. Exists(f) => finding[f] \in FindingRow /\ finding[f].items \in Seq(Nat) /\ finding[f].total \in Quantity
    BY Known DEF FindingRow
<1>4. Exists(f) /\ finding[f].items # <<>> =>
          /\ Len(finding[f].items) = finding[f].total["cases"]
          /\ SumOf(finding[f].items) = finding[f].total["amount"]
          /\ finding[f].done \subseteq DOMAIN finding[f].items
          /\ Ticked(finding[f].items, finding[f].done) = finding[f].rectified
    BY DEF AllItemsFit, ItemsFit, Exists
<1>5. CASE RowKept(f)
    BY <1>5 DEF RowKept, AllItemsFit
<1>6. CASE Entered(f)
    <2>1. /\ BreaksDown(finding'[f].items, finding'[f].total)
          /\ finding'[f].rectified = Zero /\ finding'[f].done = {}
        BY <1>1, <1>6 DEF Entered
    <2>2. SumOf(finding'[f].items) \in Nat /\ finding'[f].total["amount"] \in Nat
        BY <1>2, SumOfNats DEF Quantity, Dim
    <2>3. SumOf(finding'[f].items) = finding'[f].total["amount"]
        BY <2>1, <2>2 DEF BreaksDown, Distance, ExactItems
    <2>4. Ticked(finding'[f].items, {}) = Zero
        BY <1>2, TickedNone
    <2> QED
        BY <2>1, <2>3, <2>4 DEF BreaksDown, ItemsFit
<1>7. ~BroughtIn(f)
    BY <1>1 DEF BroughtIn, DoImport, FInv, FindingsOK
<1>8. CASE Amended(f)
    <2>1. /\ Exists(f) /\ finding'[f].items = finding[f].items /\ finding'[f].done = finding[f].done
          /\ finding'[f].rectified = finding[f].rectified
        BY <1>8 DEF Amended
    <2>2. /\ finding'[f].total["cases"] = finding[f].total["cases"]
          /\ Distance(finding'[f].total["amount"], finding[f].total["amount"]) <= Tolerance
        BY <1>1, <1>8, <2>1 DEF Amended
    <2>3. finding'[f].total["amount"] \in Nat /\ finding[f].total["amount"] \in Nat
        BY <1>2, <1>3, <2>1 DEF Quantity, Dim
    <2>4. finding'[f].total["amount"] = finding[f].total["amount"]
        BY <2>2, <2>3 DEF Distance, ExactItems
    <2> QED
        BY <1>1, <1>4, <2>1, <2>2, <2>4 DEF ItemsFit
<1>9. ~Dropped(f)
    BY <1>1 DEF Dropped
<1>10. CASE Restated(f) \/ ClosedMore(f) \/ Carried(f)
    <2>1. /\ Exists(f) /\ finding'[f].items = finding[f].items /\ finding'[f].done = finding[f].done
          /\ finding'[f].rectified = finding[f].rectified /\ finding'[f].total = finding[f].total
        BY <1>10 DEF Restated, ClosedMore, Carried, Registered
    <2> QED
        BY <1>1, <1>4, <2>1 DEF ItemsFit
<1>11. CASE StartedOver(f)
    <2>1. /\ Exists(f) /\ finding'[f].items = finding[f].items /\ finding'[f].done = {}
          /\ finding'[f].rectified = Zero /\ finding'[f].total = finding[f].total
        BY <1>11 DEF StartedOver, Registered
    <2>2. Ticked(finding[f].items, {}) = Zero
        BY <1>3, <2>1, TickedNone
    <2> QED
        BY <1>1, <1>4, <2>1, <2>2 DEF ItemsFit
<1>12. CASE RectifiedMore(f)
    <2>1. Exists(f) /\ finding'[f].items = finding[f].items /\ finding'[f].total = finding[f].total
        BY <1>12 DEF RectifiedMore, Registered
    <2>2. PICK n \in Quantity, S \in SUBSET DOMAIN finding[f].items :
              /\ Entry(f, n, S)
              /\ finding'[f].rectified = Plus(finding[f].rectified, n)
              /\ finding'[f].done = finding[f].done \cup S
        BY <1>12 DEF RectifiedMore
    <2>3. S \subseteq DOMAIN finding[f].items \ finding[f].done
        BY <1>1, <2>1, <2>2 DEF Entry
    <2>4. PICK picks \in [S -> 1..Repeats] : n = Picked(f, picks)
        BY <1>1, <2>1, <2>2 DEF Entry
    <2>5. picks = Once(S)
        <3>1. \A i \in S : picks[i] = 1
            <4>1. \A i \in S : picks[i] \in 1..Repeats
                BY <2>4
            <4> QED
                BY <4>1, InputsAssumption DEF ExactItems
        <3> QED
            BY <2>4, <3>1 DEF Once
    <2>6. n = Ticked(finding[f].items, S)
        BY <1>3, <2>1, <2>4, <2>5, PickedOnce
    <2>7. Ticked(finding[f].items, finding[f].done \cup S)
            = Plus(Ticked(finding[f].items, finding[f].done), Ticked(finding[f].items, S))
        <3>1. finding[f].done \cap S = {}
            BY <2>3
        <3> QED
            BY <1>3, <2>1, <3>1, TickedBoth
    <2> QED
        BY <1>1, <1>4, <2>1, <2>2, <2>3, <2>6, <2>7 DEF ItemsFit
<1> QED
    BY <1>5, <1>6, <1>7, <1>8, <1>9, <1>10, <1>11, <1>12 DEF Shaped

\* The three books of a finding
LEMMA ItemsGive == FInv /\ AllItemsFit => BooksAgree
<1> SUFFICES ASSUME FInv, AllItemsFit PROVE BooksAgree
    OBVIOUS
<1>1. ASSUME NEW f \in Present, finding[f].items # <<>>
      PROVE  /\ finding[f].items \in Seq(Nat) /\ finding[f].done \subseteq DOMAIN finding[f].items
             /\ Ticked(finding[f].items, finding[f].done) = finding[f].rectified
             /\ \A S \in SUBSET DOMAIN finding[f].items :
                   Picked(f, Once(S)) = Ticked(finding[f].items, S)
    <2>1. f \in Findings /\ finding[f] \in FindingRow /\ finding[f].items \in Seq(Nat)
        BY <1>1, Known DEF Present, FindingRow
    <2> QED
        BY <1>1, <2>1, PickedOnce DEF Present, Exists, AllItemsFit, ItemsFit
<1>2. ItemsMatchCounters
    BY <1>1 DEF ItemsMatchCounters
<1>3. ASSUME NEW f \in Present, NEW S \in SUBSET (DOMAIN finding[f].items \ finding[f].done)
      PROVE  AtMost(Picked(f, Once(S)), Outstanding(f))
    <2>1. f \in Findings /\ finding[f] \in FindingRow /\ finding[f].items \in Seq(Nat)
          /\ finding[f].total \in Quantity /\ finding[f].rectified \in Quantity
          /\ AtMost(finding[f].rectified, finding[f].total)
        BY <1>3, Known DEF Present, FindingRow, AtMost, Quantity
    <2>2. PICK items : items = finding[f].items
        OBVIOUS
    <2>3. PICK done : done = finding[f].done
        OBVIOUS
    <2>4. Picked(f, Once(S)) = Ticked(items, S)
        BY <2>1, <2>2, <2>3, PickedOnce
    <2>5. CASE items = <<>>
        <3>1. DOMAIN items = {}
            BY <2>5
        <3>2. S = {}
            BY <2>2, <3>1
        <3>3. Ticked(items, S) = Zero
            BY <2>1, <2>2, <3>2, TickedNone
        <3> QED
            BY <2>1, <2>4, <3>3 DEF AtMost, Zero, Outstanding, Minus, Quantity
    <2>6. CASE items # <<>>
        <3>1. PICK rest : rest = (DOMAIN items \ done) \ S
            OBVIOUS
        <3>2. DOMAIN items = done \cup (S \cup rest) /\ done \cap (S \cup rest) = {} /\ S \cap rest = {}
            BY <1>1, <1>3, <2>2, <2>3, <2>6, <3>1
        <3>3. Ticked(items, DOMAIN items) = Plus(Ticked(items, done), Ticked(items, S \cup rest))
            BY <2>1, <2>2, <3>2, TickedBoth
        <3>4. Ticked(items, S \cup rest) = Plus(Ticked(items, S), Ticked(items, rest))
            BY <2>1, <2>2, <3>2, TickedBoth
        <3>5. Ticked(items, S) \in Quantity /\ Ticked(items, rest) \in Quantity
            BY <2>1, <2>2, TickedQuantity
        <3>6. Ticked(items, done) = finding[f].rectified
            BY <1>1, <2>2, <2>3, <2>6
        <3>7. \A d \in Dim : Ticked(items, DOMAIN items)[d] = finding[f].total[d]
            BY <2>1, <2>2, <2>6, TickedAll DEF AllItemsFit, ItemsFit, Dim, NoFinding, FindingRow
        <3>8. ASSUME NEW d \in Dim PROVE Ticked(items, S)[d] <= finding[f].total[d] - finding[f].rectified[d]
            <4>1. finding[f].total[d] = finding[f].rectified[d] + (Ticked(items, S)[d] + Ticked(items, rest)[d])
                BY <3>3, <3>4, <3>6, <3>7 DEF Plus
            <4>2. /\ finding[f].rectified[d] \in Nat /\ Ticked(items, S)[d] \in Nat
                  /\ Ticked(items, rest)[d] \in Nat
                BY <2>1, <3>5 DEF Quantity
            <4> QED
                BY <4>1, <4>2
        <3> QED
            BY <2>4, <3>8 DEF AtMost, Outstanding, Minus
    <2> QED
        BY <2>5, <2>6
<1>4. SelectionWithinOutstanding
    BY <1>3 DEF SelectionWithinOutstanding
<1> QED
    BY <1>2, <1>4, InvariantGives DEF BooksAgree

\* The counters, the ledger rows and the ticked cases of a finding say the
\* same, and a selection of outstanding cases never exceeds what is
\* outstanding - where no request lists a case twice and breakdowns add up
\* exactly.  Without either the ticked cases and the counters part.
THEOREM BooksAlwaysAgree == ExactItems => (ImportSpec => []BooksAgree)
<1> SUFFICES ASSUME ExactItems PROVE ImportSpec => []BooksAgree
    OBVIOUS
<1>1. Init => FInv /\ AllItemsFit
    <2>1. ASSUME Init PROVE AllItemsFit
        BY <2>1 DEF Init, TablesInit, AllItemsFit, ItemsFit
    <2> QED
        BY <2>1, InitFInv
<1>2. (FInv /\ AllItemsFit) /\ [ImportNext]_tables => (FInv /\ AllItemsFit)'
    <2>1. SUFFICES ASSUME FInv, AllItemsFit, [ImportNext]_tables PROVE (FInv /\ AllItemsFit)'
        OBVIOUS
    <2>2. FInv'
        BY <2>1, ImportedStep
    <2>3. AllItemsFit'
        BY <2>1, <2>2, StepsAreShaped, ItemsStep DEF AllItemsFit
    <2> QED
        BY <2>2, <2>3
<1>3. FInv /\ AllItemsFit => BooksAgree
    BY ItemsGive
<1> QED
    BY <1>1, <1>2, <1>3, TablesOfImports, PTL

-----------------------------------------------------------------------------
(* What is still owed can be settled. *)

\* A plain finding has cases left as long as it has money left, and the other
\* way round unless it is about cases alone.
NoOrphan(row) ==
    row # NoFinding /\ row.items = <<>> =>
        /\ row.total["cases"] = row.rectified["cases"] => row.total["amount"] = row.rectified["amount"]
        /\ row.total["amount"] = row.rectified["amount"] /\ row.total["amount"] > 0 =>
              row.total["cases"] = row.rectified["cases"]

NoOrphans == \A f \in Findings : NoOrphan(finding[f])

\* Nothing rectified yet, nothing orphaned
LEMMA UntouchedIsNoOrphan ==
    ASSUME NEW row \in GoodRow, row.rectified = Zero
    PROVE  NoOrphan(row)
<1>1. row.total["cases"] >= 1 /\ Zero["cases"] = 0 /\ Zero["amount"] = 0
    BY DEF GoodRow, Zero, Dim
<1> QED
    BY <1>1 DEF NoOrphan

\* A step never leaves money without a case, nor cases without the money.
LEMMA OrphanStep ==
    ASSUME FInv, FInv', NoOrphans, NEW f \in Findings, Shaped(f)
    PROVE  NoOrphan(finding'[f])
<1>1. SUFFICES ASSUME finding'[f] # NoFinding PROVE NoOrphan(finding'[f])
    BY DEF NoOrphan
<1>2. finding'[f] \in GoodRow
    BY <1>1 DEF FInv, FindingsOK
<1>3. Exists(f) => NoOrphan(finding[f]) /\ finding[f] \in GoodRow /\ finding[f] \in FindingRow
    BY Known DEF NoOrphans
<1>4. CASE finding'[f].rectified = Zero
    BY <1>2, <1>4, UntouchedIsNoOrphan
<1>5. CASE RowKept(f)
    BY <1>1, <1>3, <1>5 DEF RowKept, Exists
<1>6. CASE Entered(f) \/ StartedOver(f)
    BY <1>4, <1>6 DEF Entered, StartedOver
<1>7. CASE BroughtIn(f)
    <2>1. PICK u \in Users, row \in ImportRows : CanImport(u, f, row) /\ DoImport(u, f, row)
        BY <1>7 DEF BroughtIn
    <2>2. finding'[f].rectified = Declared(row) /\ finding'[f].total = row.total
        BY <2>1 DEF DoImport, FInv, FindingsOK
    <2>3. CASE row.status = "CLOSED"
        BY <2>2, <2>3 DEF Declared, NoOrphan
    <2>4. CASE row.status = "TRANSFERRED"
        <3>1. \A d \in Dim : row.rectified[d] # row.total[d]
            BY <2>1, <2>4 DEF CanImport, ValidProgress
        <3>2. finding'[f].rectified = row.rectified
            BY <2>2, <2>4 DEF Declared
        <3>3. "cases" \in Dim /\ "amount" \in Dim
            BY DEF Dim
        <3> QED
            BY <2>2, <3>1, <3>2, <3>3 DEF NoOrphan
    <2>5. CASE row.status \notin {"CLOSED", "TRANSFERRED"}
        BY <1>4, <2>2, <2>5 DEF Declared
    <2> QED
        BY <2>3, <2>4, <2>5
<1>8. CASE Amended(f)
    <2>1. Exists(f) /\ finding[f].status \in BeforeBranch /\ finding'[f].rectified = finding[f].rectified
        BY <1>8 DEF Amended, Editable, BeforeBranch
    <2>2. finding[f].rectified = Zero
        BY <1>3, <2>1 DEF GoodRow
    <2> QED
        BY <1>4, <2>1, <2>2
<1>9. ~Dropped(f)
    BY <1>1 DEF Dropped
<1>10. CASE Restated(f) \/ ClosedMore(f) \/ Carried(f)
    <2>1. /\ Exists(f) /\ finding'[f].items = finding[f].items
          /\ finding'[f].rectified = finding[f].rectified /\ finding'[f].total = finding[f].total
        BY <1>10 DEF Restated, ClosedMore, Carried, Registered
    <2> QED
        BY <1>3, <2>1 DEF NoOrphan, Exists
<1>11. CASE RectifiedMore(f)
    <2>1. SUFFICES ASSUME finding'[f].items = <<>> PROVE NoOrphan(finding'[f])
        BY DEF NoOrphan
    <2>2. Exists(f) /\ finding'[f].items = finding[f].items /\ finding'[f].total = finding[f].total
        BY <1>11 DEF RectifiedMore, Registered
    <2>3. PICK n \in Quantity, S \in SUBSET DOMAIN finding[f].items :
              Entry(f, n, S) /\ finding'[f].rectified = Plus(finding[f].rectified, n)
        BY <1>11 DEF RectifiedMore
    <2>4. AtMost(n, Outstanding(f)) /\ ExhaustsTogether(f, n)
        BY <2>1, <2>2, <2>3 DEF Entry
    <2>5. PICK r : r = finding[f].rectified
        OBVIOUS
    <2>6. PICK t : t = finding[f].total
        OBVIOUS
    <2>7. r \in Quantity /\ t \in Quantity /\ AtMost(r, t)
        BY <1>3, <2>2, <2>5, <2>6, Known DEF AtMost, Quantity
    <2>8. "cases" \in Dim /\ "amount" \in Dim
        BY DEF Dim
    <2>9. /\ r["cases"] \in Nat /\ r["amount"] \in Nat /\ t["cases"] \in Nat /\ t["amount"] \in Nat
          /\ n["cases"] \in Nat /\ n["amount"] \in Nat
          /\ r["cases"] <= t["cases"] /\ r["amount"] <= t["amount"]
        BY <2>7, <2>8 DEF Quantity, AtMost
    <2>10. /\ n["cases"] = t["cases"] - r["cases"] => n["amount"] = t["amount"] - r["amount"]
           /\ t["amount"] - r["amount"] > 0 /\ n["amount"] = t["amount"] - r["amount"] =>
                 n["cases"] = t["cases"] - r["cases"]
           /\ n["cases"] <= t["cases"] - r["cases"] /\ n["amount"] <= t["amount"] - r["amount"]
        BY <2>4, <2>5, <2>6, <2>8 DEF ExhaustsTogether, Outstanding, Minus, AtMost
    <2>11. /\ t["cases"] = r["cases"] => t["amount"] = r["amount"]
           /\ t["amount"] = r["amount"] /\ t["amount"] > 0 => t["cases"] = r["cases"]
        BY <1>3, <2>1, <2>2, <2>5, <2>6 DEF NoOrphan, Exists
    <2>12. /\ finding'[f].rectified["cases"] = r["cases"] + n["cases"]
           /\ finding'[f].rectified["amount"] = r["amount"] + n["amount"]
        BY <2>3, <2>5, <2>8 DEF Plus
    <2>13. /\ t["cases"] = r["cases"] + n["cases"] => t["amount"] = r["amount"] + n["amount"]
           /\ t["amount"] = r["amount"] + n["amount"] /\ t["amount"] > 0 =>
                 t["cases"] = r["cases"] + n["cases"]
        <3>1. PICK rc \in Nat, ra \in Nat, tc \in Nat, ta \in Nat, nc \in Nat, na \in Nat :
                 /\ rc = r["cases"] /\ ra = r["amount"] /\ tc = t["cases"] /\ ta = t["amount"]
                 /\ nc = n["cases"] /\ na = n["amount"]
            BY <2>9
        <3>2. /\ nc = tc - rc => na = ta - ra
              /\ ta - ra > 0 /\ na = ta - ra => nc = tc - rc
              /\ nc <= tc - rc /\ na <= ta - ra
            BY <2>10, <3>1
        <3>3. (tc = rc => ta = ra) /\ (ta = ra /\ ta > 0 => tc = rc)
            BY <2>11, <3>1
        <3>4. tc = rc + nc => ta = ra + na
            BY <3>2
        <3>5. ASSUME ta = ra + na, ta > 0 PROVE tc = rc + nc
            <4>1. CASE ta = ra
                BY <3>2, <3>3, <3>5, <4>1
            <4>2. CASE ta # ra
                BY <3>2, <3>5, <4>2
            <4> QED
                BY <4>1, <4>2
        <3> QED
            BY <3>1, <3>4, <3>5
    <2> QED
        BY <2>2, <2>6, <2>12, <2>13 DEF NoOrphan
<1> QED
    BY <1>5, <1>6, <1>7, <1>8, <1>9, <1>10, <1>11 DEF Shaped

\* The rows say it of every reachable balance.
LEMMA NoOrphansGive == FInv /\ NoOrphans => NoOrphanBalance
<1> SUFFICES ASSUME FInv, NoOrphans, NEW f \in Present, finding[f].items = <<>>
             PROVE  LET left == Outstanding(f)
                    IN  /\ left["cases"] = 0 => left["amount"] = 0
                        /\ left["amount"] = 0 /\ finding[f].total["amount"] > 0 => left["cases"] = 0
    BY DEF NoOrphanBalance
<1>1. f \in Findings /\ Exists(f) /\ finding[f].total \in Quantity /\ finding[f].rectified \in Quantity
    BY Known DEF Present
<1>2. "cases" \in Dim /\ "amount" \in Dim
    BY DEF Dim
<1>3. /\ finding[f].total["cases"] \in Nat /\ finding[f].total["amount"] \in Nat
      /\ finding[f].rectified["cases"] \in Nat /\ finding[f].rectified["amount"] \in Nat
    BY <1>1, <1>2 DEF Quantity
<1>4. NoOrphan(finding[f]) /\ finding[f] # NoFinding
    BY <1>1 DEF NoOrphans, Exists
<1> QED
    BY <1>2, <1>3, <1>4 DEF NoOrphan, Outstanding, Minus

\* Money is never left without a case to attach it to, nor a case without the
\* money it was registered with.
THEOREM NoBalanceOrphaned == ImportSpec => []NoOrphanBalance
<1>1. Init => FInv /\ NoOrphans
    <2>1. ASSUME Init PROVE NoOrphans
        BY <2>1 DEF Init, TablesInit, NoOrphans, NoOrphan
    <2> QED
        BY <2>1, InitFInv
<1>2. (FInv /\ NoOrphans) /\ [ImportNext]_tables => (FInv /\ NoOrphans)'
    <2>1. SUFFICES ASSUME FInv, NoOrphans, [ImportNext]_tables PROVE (FInv /\ NoOrphans)'
        OBVIOUS
    <2>2. FInv'
        BY <2>1, ImportedStep
    <2>3. NoOrphans'
        BY <2>1, <2>2, StepsAreShaped, OrphanStep DEF NoOrphans
    <2> QED
        BY <2>2, <2>3
<1> QED
    BY <1>1, <1>2, NoOrphansGive, TablesOfImports, PTL

\* What settling takes besides: somebody may rectify each finding, and the
\* form takes any number up to what is registered.
Workable ==
    /\ \A f \in Findings : \E u \in Users : May(u, "rectify", f)
    /\ \A t \in Totals, d \in Dim : t[d] <= EntryBound

WithinEntries(row) == row # NoFinding => \A d \in Dim : row.total[d] <= EntryBound

AllWithinEntries == \A f \in Findings : WithinEntries(finding[f])

\* A step keeps what is registered within what the form can take.
LEMMA WithinStep ==
    ASSUME Workable, FInv, AllWithinEntries, NEW f \in Findings, Shaped(f)
    PROVE  WithinEntries(finding'[f])
<1>1. SUFFICES ASSUME finding'[f] # NoFinding PROVE WithinEntries(finding'[f])
    BY DEF WithinEntries
<1>2. CASE RowKept(f)
    BY <1>2 DEF RowKept, AllWithinEntries
<1>3. CASE Entered(f)
    BY <1>3 DEF Entered, Workable, WithinEntries
<1>4. CASE BroughtIn(f)
    <2>1. PICK u \in Users, row \in ImportRows : CanImport(u, f, row) /\ DoImport(u, f, row)
        BY <1>4 DEF BroughtIn
    <2>2. finding'[f].total = row.total /\ row.total \in Totals
        BY <2>1 DEF DoImport, FInv, FindingsOK, ImportRows
    <2> QED
        BY <2>2 DEF Workable, WithinEntries
<1>5. CASE Amended(f)
    <2>1. Exists(f) /\ \A d \in Dim : \/ finding'[f].total[d] = finding[f].total[d]
                                      \/ \E t \in Totals : finding'[f].total[d] = t[d]
        BY <1>5 DEF Amended
    <2> QED
        BY <2>1 DEF Workable, WithinEntries, AllWithinEntries, Exists
<1>6. ~Dropped(f)
    BY <1>1 DEF Dropped
<1>7. CASE Restated(f) \/ RectifiedMore(f) \/ ClosedMore(f) \/ StartedOver(f) \/ Carried(f)
    <2>1. Exists(f) /\ finding'[f].total = finding[f].total
        BY <1>7 DEF Restated, RectifiedMore, ClosedMore, StartedOver, Carried, Registered
    <2> QED
        BY <2>1 DEF WithinEntries, AllWithinEntries, Exists
<1> QED
    BY <1>2, <1>3, <1>4, <1>5, <1>6, <1>7 DEF Shaped

\* A finding at the branch, neither closed nor returned nor waiting for a
\* verification or a closure, has something outstanding and a user to work it.
LEMMA OwingMeans ==
    ASSUME FInv, Workable, NEW f \in Findings, Exists(f),
           finding[f].status \notin BeforeBranch \cup {"CLOSED"},
           finding[f].status # "RECTIFICATION_RETURNED",
           period[finding[f].period].status = "OPEN", HasRoom(f),
           ~\E d \in Dim : Verifiable(f)[d] > 0 \/ Closable(f)[d] > 0
    PROVE  /\ \E u \in Users : MayRectify(u, f)
           /\ \E d \in Dim : Outstanding(f)[d] > 0
           /\ Outstanding(f) \in Quantity
<1>1. /\ finding[f] \in GoodRow /\ finding[f] \in FindingRow
      /\ finding[f].total \in Quantity /\ finding[f].rectified \in Quantity
      /\ finding[f].verified \in Quantity /\ finding[f].closed \in Quantity
      /\ AtMost(finding[f].rectified, finding[f].total)
      /\ AtMost(finding[f].verified, finding[f].rectified)
      /\ AtMost(finding[f].closed, finding[f].verified)
    BY Known
<1>2. \A d \in Dim :
         /\ finding[f].total[d] \in Nat /\ finding[f].rectified[d] \in Nat
         /\ finding[f].verified[d] \in Nat /\ finding[f].closed[d] \in Nat
         /\ finding[f].rectified[d] <= finding[f].total[d]
         /\ finding[f].verified[d] <= finding[f].rectified[d]
         /\ finding[f].closed[d] <= finding[f].verified[d]
    BY <1>1 DEF Quantity, AtMost
<1>3. \A d \in Dim : finding[f].verified[d] = finding[f].rectified[d]
    BY <1>2 DEF Verifiable, Minus
<1>4. \A d \in Dim : finding[f].closed[d] = finding[f].rectified[d]
    BY <1>2, <1>3 DEF Closable, Minus, Least
<1>5. ~AtMost(finding[f].total, finding[f].closed)
    BY <1>1 DEF GoodRow
<1>6. PICK d \in Dim : ~(finding[f].total[d] <= finding[f].closed[d])
    BY <1>5 DEF AtMost
<1>7. Outstanding(f)[d] > 0
    BY <1>2, <1>4, <1>6 DEF Outstanding, Minus
<1>8. finding[f].status # "RECTIFIED"
    <2>1. finding[f].status = "RECTIFIED" => AtMost(finding[f].total, finding[f].rectified)
        BY <1>1 DEF GoodRow
    <2> QED
        BY <1>4, <1>6, <2>1 DEF AtMost
<1>9. finding[f].status \in Rectifiable
    BY <1>1, <1>8 DEF FindingRow, Status, BeforeBranch, Rectifiable
<1>10. PICK u \in Users : May(u, "rectify", f)
    BY DEF Workable
<1>11. MayRectify(u, f)
    BY <1>9, <1>10 DEF MayRectify, PeriodWritable
<1> QED
    BY <1>1, <1>7, <1>11, QuantityMinus DEF Outstanding

\* A plain finding: an entry of everything outstanding is accepted.
LEMMA PlainSettles ==
    ASSUME FInv, NoOrphans, AllWithinEntries, NEW f \in Findings, Exists(f), NEW u \in Users,
           finding[f].items = <<>>, MayRectify(u, f), Outstanding(f) \in Quantity,
           \E d \in Dim : Outstanding(f)[d] > 0
    PROVE  Outstanding(f) \in Entries /\ CanRectify(u, f, Outstanding(f))
<1>1. finding[f].total \in Quantity /\ finding[f].rectified \in Quantity
    BY Known
<1>2. PICK n \in Quantity : n = Outstanding(f)
    OBVIOUS
<1>3. \A d \in Dim : /\ finding[f].total[d] \in Nat /\ finding[f].rectified[d] \in Nat /\ n[d] \in Nat
                     /\ n[d] = finding[f].total[d] - finding[f].rectified[d]
                     /\ finding[f].total[d] <= EntryBound
    BY <1>1, <1>2 DEF Outstanding, Minus, Quantity, AllWithinEntries, WithinEntries, Exists
<1>4. n \in Entries
    <2>1. \A d \in Dim : n[d] \in 0..EntryBound
        BY <1>3, InputsAssumption
    <2> QED
        BY <2>1 DEF Entries, Quantity
<1>5. n # Zero
    BY <1>2 DEF Zero
<1>6. "cases" \in Dim /\ "amount" \in Dim
    BY DEF Dim
<1>7. finding[f].total["cases"] = finding[f].rectified["cases"] =>
          finding[f].total["amount"] = finding[f].rectified["amount"]
    BY DEF NoOrphans, NoOrphan, Exists
<1>8. n["cases"] = 0 => n["amount"] = 0
    BY <1>3, <1>6, <1>7
<1>9. Sensible(n)
    BY <1>3, <1>5, <1>6, <1>8 DEF Sensible
<1>10. AtMost(n, n)
    BY AtMostSelf
<1>11. ExhaustsTogether(f, n)
    BY <1>2 DEF ExhaustsTogether
<1> QED
    BY <1>2, <1>4, <1>9, <1>10, <1>11 DEF CanRectify

\* An itemised finding: so is the selection of all cases not done yet.
LEMMA ItemisedSettles ==
    ASSUME FInv, AllItemsFit, NEW f \in Findings, Exists(f), NEW u \in Users,
           finding[f].items # <<>>, MayRectify(u, f), \E d \in Dim : Outstanding(f)[d] > 0
    PROVE  \E S \in SUBSET DOMAIN finding[f].items : CanRectifyItems(u, f, Once(S))
<1>1. /\ finding[f] \in FindingRow /\ finding[f].items \in Seq(Nat)
      /\ finding[f].total \in Quantity /\ finding[f].rectified \in Quantity
    BY Known DEF FindingRow
<1>2. PICK S : S = DOMAIN finding[f].items \ finding[f].done
    OBVIOUS
<1>3. S \in SUBSET DOMAIN finding[f].items
    BY <1>2
<1>4. S # {}
    <2>1. SUFFICES ASSUME S = {} PROVE FALSE
        OBVIOUS
    <2>2. /\ Len(finding[f].items) = finding[f].total["cases"]
          /\ SumOf(finding[f].items) = finding[f].total["amount"]
          /\ finding[f].done \subseteq DOMAIN finding[f].items
          /\ Ticked(finding[f].items, finding[f].done) = finding[f].rectified
        BY DEF AllItemsFit, ItemsFit, Exists
    <2>3. finding[f].done = DOMAIN finding[f].items
        BY <1>2, <2>1, <2>2
    <2>4. \A d \in Dim : finding[f].rectified[d] = finding[f].total[d]
        BY <1>1, <2>2, <2>3, TickedAll DEF Dim
    <2>5. \A d \in Dim : Outstanding(f)[d] = 0
        BY <1>1, <2>4 DEF Outstanding, Minus, Quantity
    <2> QED
        BY <2>5
<1>5. AtMost(Picked(f, Once(S)), Outstanding(f))
    <2>1. SelectionWithinOutstanding
        BY ItemsGive DEF BooksAgree
    <2> QED
        BY <1>2, <2>1 DEF SelectionWithinOutstanding, Present
<1>6. DOMAIN Once(S) = S
    BY DEF Once
<1>7. CanRectifyItems(u, f, Once(S))
    BY <1>2, <1>4, <1>5, <1>6 DEF CanRectifyItems
<1> QED
    BY <1>3, <1>7

\* Whatever is outstanding, somebody may settle at once.
LEMMA NobodyStuck ==
    ASSUME Workable, FInv, NoOrphans, AllItemsFit, AllWithinEntries
    PROVE  NeverStuck
<1> SUFFICES ASSUME NEW f \in Present,
                    finding[f].status \notin BeforeBranch \cup {"CLOSED"},
                    period[finding[f].period].status = "OPEN",
                    ~\E d \in Dim : Verifiable(f)[d] > 0 \/ Closable(f)[d] > 0,
                    finding[f].status # "RECTIFICATION_RETURNED", HasRoom(f)
             PROVE  \E u \in Users :
                       \/ \E n \in Entries : CanRectify(u, f, n)
                       \/ \E S \in SUBSET DOMAIN finding[f].items : CanRectifyItems(u, f, Once(S))
    BY DEF NeverStuck
<1>1. f \in Findings /\ Exists(f)
    BY DEF Present
<1>2. /\ \E u \in Users : MayRectify(u, f)
      /\ \E d \in Dim : Outstanding(f)[d] > 0
      /\ Outstanding(f) \in Quantity
    BY <1>1, OwingMeans
<1>3. PICK u \in Users : MayRectify(u, f)
    BY <1>2
<1>4. CASE finding[f].items = <<>>
    BY <1>1, <1>2, <1>3, <1>4, PlainSettles
<1>5. CASE finding[f].items # <<>>
    BY <1>1, <1>2, <1>3, <1>5, ItemisedSettles
<1> QED
    BY <1>4, <1>5

\* What it takes to settle is inductive with the rows it is about.
SettlingInv == FInv /\ AllItemsFit /\ AllWithinEntries /\ NoOrphans

\* At first there is no finding to settle.
LEMMA InitSettlingInv == Init => SettlingInv
<1>1. ASSUME Init PROVE AllItemsFit /\ AllWithinEntries /\ NoOrphans
    BY <1>1 DEF Init, TablesInit, AllItemsFit, ItemsFit, AllWithinEntries, WithinEntries,
       NoOrphans, NoOrphan
<1> QED
    BY <1>1, InitFInv DEF SettlingInv

\* The invariant behind the settling of balances is inductive.
LEMMA StepSettlingInv ==
    ASSUME ExactItems, Workable, SettlingInv, [ImportNext]_tables
    PROVE  SettlingInv'
<1>1. FInv'
    BY ImportedStep DEF SettlingInv
<1>2. \A f \in Findings : Shaped(f)
    BY StepsAreShaped DEF SettlingInv
<1>3. AllItemsFit'
    BY <1>1, <1>2, ItemsStep DEF AllItemsFit, SettlingInv
<1>4. AllWithinEntries'
    BY <1>2, WithinStep DEF AllWithinEntries, SettlingInv
<1>5. NoOrphans'
    BY <1>1, <1>2, OrphanStep DEF NoOrphans, SettlingInv
<1> QED
    BY <1>1, <1>3, <1>4, <1>5 DEF SettlingInv

\* No combination of the rules strands a balance: whatever a branch owes in an
\* open period, an entry of the form or a selection of cases is accepted, or
\* the next move is the district's.
THEOREM BalanceAlwaysReachable ==
    ExactItems /\ Workable => (ImportSpec => []BalanceReachable)
<1> SUFFICES ASSUME ExactItems, Workable PROVE ImportSpec => []BalanceReachable
    OBVIOUS
<1>1. Init => SettlingInv
    BY InitSettlingInv
<1>2. SettlingInv /\ [ImportNext]_tables => SettlingInv'
    BY StepSettlingInv
<1>3. SettlingInv => BalanceReachable
    BY NoOrphansGive, NobodyStuck DEF BalanceReachable, SettlingInv
<1> QED
    BY <1>1, <1>2, <1>3, TablesOfImports, PTL

-----------------------------------------------------------------------------
(* What a period is credited with. *)

\* One row more in a ledger, whichever periods are counted
LEMMA RowsOneMore ==
    ASSUME NEW rows \in Seq(ClosureRow), NEW row \in ClosureRow, NEW S, NEW d \in Dim
    PROVE  /\ SumOfRows(rows, S, d) \in Int
           /\ SumOfRows(Append(rows, row), S, d)
                = SumOfRows(rows, S, d) + (IF row.period \in S THEN row.qty[d] ELSE 0)
<1>1. \A y \in ClosureRow : y.qty[d] \in Int
    BY DEF ClosureRow, Quantity
<1> QED
    BY <1>1, LedgerOneMore

\* The sums of a ledger of no rows, and of one
LEMMA RowsFew ==
    ASSUME NEW row \in ClosureRow, NEW S, NEW d \in Dim
    PROVE  /\ SumOfRows(<<>>, S, d) = 0
           /\ SumOfRows(<<row>>, S, d) = IF row.period \in S THEN row.qty[d] ELSE 0
<1>1. SumOfRows(<<>>, S, d) = 0
    BY SumOfEmpty DEF SumOfRows
<1>2. PICK none : none = <<>> /\ none \in Seq(ClosureRow)
    BY EmptySeq
<1>3. /\ SumOfRows(none, S, d) \in Int
      /\ SumOfRows(Append(none, row), S, d)
            = SumOfRows(none, S, d) + (IF row.period \in S THEN row.qty[d] ELSE 0)
    <2>1. none \in Seq(ClosureRow)
        BY <1>2
    <2> HIDE <1>2
    <2> QED
        BY <2>1, RowsOneMore
<1>5. Append(none, row) = <<row>>
    BY <1>2
<1>4. (IF row.period \in S THEN row.qty[d] ELSE 0) \in Int
    BY DEF ClosureRow, Quantity
<1> QED
    BY <1>1, <1>2, <1>3, <1>4, <1>5

\* A period's eligible cases, stay by stay.
LEMMA EligibleSplit ==
    ASSUME NEW moves \in Seq(TransferRow), NEW home \in Periods, NEW total \in Quantity,
           moves # <<>> => moves[Len(moves)].to = home, NEW p \in Periods, NEW d \in Dim
    PROVE  /\ EndedStays(moves, home, total, p, d) \in Int
           /\ Arrived(moves, total) \in Quantity
           /\ EligibleIn(moves, home, total, p, d)
                = EndedStays(moves, home, total, p, d)
                    + (IF home = p THEN Arrived(moves, total)[d] ELSE 0)
<1>1. moves \in Seq(Moving(Periods, Dim)) /\ total \in Amounts(Dim)
    BY TransfersMove
<1>2. /\ EndedStays(moves, home, total, p, d) \in Int
      /\ HasHere(moves, home, total, p, d) \in Int
      /\ Arrived(moves, total) \in Amounts(Dim)
    BY <1>1, EligibleByStay
<1>4. EligibleIn(moves, home, total, p, d)
        = EndedStays(moves, home, total, p, d) + HasHere(moves, home, total, p, d)
    BY <1>1, <1>2, EligibleByStay
<1>3. Arrived(moves, total) \in Quantity
    BY <1>2, TransfersMove
<1> QED
    BY <1>2, <1>3, <1>4 DEF HasHere

\* A transfer ends the stay the finding was in and starts another.
LEMMA EndedMore ==
    ASSUME NEW moves \in Seq(TransferRow), NEW home \in Periods, NEW total \in Quantity,
           moves # <<>> => moves[Len(moves)].to = home, NEW p \in Periods, NEW d \in Dim,
           NEW m \in TransferRow, m.from = home,
           NEW more \in Seq(TransferRow), Len(more) = Len(moves) + 1, more[Len(moves) + 1] = m,
           \A i \in 1..Len(moves) : more[i] = moves[i]
    PROVE  /\ EndedStays(more, m.to, total, p, d)
                = EndedStays(moves, home, total, p, d)
                    + (IF home = p THEN Arrived(moves, total)[d] - m.qty[d] ELSE 0)
           /\ Arrived(more, total) = m.qty
<1>1. /\ moves \in Seq(Moving(Periods, Dim)) /\ total \in Amounts(Dim)
      /\ m \in Moving(Periods, Dim) /\ more \in Seq(Moving(Periods, Dim))
    BY TransfersMove
<1> QED
    BY <1>1, StayEnds

\* Closures are credited to the stay they were made in: a period has closed
\* what ended stays kept there, and where the finding is now, what is closed
\* of what arrived last.
CreditedIn(row, cls, moves, p, d) ==
    ClosedIn(cls, p, d)
        = EndedStays(moves, row.period, row.total, p, d)
            + (IF row.period = p THEN Arrived(moves, row.total)[d] - (row.total[d] - row.closed[d])
                                 ELSE 0)

\* Nothing is closed before the branch has the finding.
Credited(row, cls, moves) ==
    row # NoFinding =>
        /\ \A p \in Periods, d \in Dim : CreditedIn(row, cls, moves, p, d)
        /\ row.status \in BeforeBranch => cls = <<>>

AllCredited == \A f \in Findings : Credited(finding[f], closures[f], transfers[f])

\* A finding nothing has happened to
LEMMA UntouchedIsCredited ==
    ASSUME NEW row \in FindingRow, row.closed = Zero
    PROVE  Credited(row, <<>>, <<>>)
<1>1. SUFFICES ASSUME NEW p \in Periods, NEW d \in Dim PROVE CreditedIn(row, <<>>, <<>>, p, d)
    BY DEF Credited
<1>2. EndedStays(<<>>, row.period, row.total, p, d) = 0 /\ Arrived(<<>>, row.total) = row.total
    BY EndedNone
<1>3. ClosedIn(<<>>, p, d) = 0
    BY SumOfEmpty DEF ClosedIn, SumOfRows
<1>4. row.closed[d] = 0 /\ row.total[d] \in Nat
    BY QuantityZero DEF FindingRow, Quantity
<1> QED
    BY <1>2, <1>3, <1>4 DEF CreditedIn

\* One imported as closed, in the one period it was ever in
LEMMA ClosedAtOnceIsCredited ==
    ASSUME NEW row \in FindingRow, row.closed = row.total, row.status \notin BeforeBranch,
           NEW c \in ClosureRow, c.period = row.period, c.qty = row.total
    PROVE  Credited(row, <<c>>, <<>>)
<1>1. SUFFICES ASSUME NEW p \in Periods, NEW d \in Dim PROVE CreditedIn(row, <<c>>, <<>>, p, d)
    BY DEF Credited
<1>2. EndedStays(<<>>, row.period, row.total, p, d) = 0 /\ Arrived(<<>>, row.total) = row.total
    BY EndedNone
<1>3. ClosedIn(<<c>>, p, d) = IF row.period = p THEN row.total[d] ELSE 0
    BY RowsFew DEF ClosedIn
<1>4. row.total[d] \in Nat
    BY DEF FindingRow, Quantity
<1> QED
    BY <1>2, <1>3, <1>4 DEF CreditedIn

\* The first transfer of a finding
LEMMA EndedFirst ==
    ASSUME NEW m \in TransferRow, NEW total \in Quantity, NEW p \in Periods, NEW d \in Dim
    PROVE  /\ EndedStays(<<m>>, m.to, total, p, d) = IF m.from = p THEN total[d] - m.qty[d] ELSE 0
           /\ Arrived(<<m>>, total) = m.qty
<1>1. PICK none : none = <<>> /\ none \in Seq(TransferRow) /\ Len(none) = 0
    BY EmptySeq
<1>2. PICK one : one = <<m>>
    OBVIOUS
<1>3. one \in Seq(TransferRow) /\ Len(one) = Len(none) + 1 /\ one[Len(none) + 1] = m
    BY <1>1, <1>2
<1>4. PICK home \in Periods : home = m.from
    BY DEF TransferRow
<1>5. EndedStays(none, home, total, p, d) = 0 /\ Arrived(none, total) = total
    BY <1>1, EndedNone
<1>6. /\ EndedStays(one, m.to, total, p, d)
            = EndedStays(none, home, total, p, d)
                + (IF home = p THEN Arrived(none, total)[d] - m.qty[d] ELSE 0)
      /\ Arrived(one, total) = m.qty
    <2>1. \A i \in 1..Len(none) : one[i] = none[i]
        BY <1>1
    <2>2. none # <<>> => none[Len(none)].to = home
        BY <1>1
    <2>3. none \in Seq(TransferRow)
        BY <1>1
    <2>4. m.from = home
        BY <1>4
    <2> QED
        BY <1>3, <2>1, <2>2, <2>3, <2>4, EndedMore
<1>7. total[d] \in Int /\ m.qty[d] \in Int
    BY DEF TransferRow, Quantity
<1> QED
    BY <1>2, <1>4, <1>5, <1>6, <1>7

\* One imported on its way: what was settled stays behind.
LEMMA OnItsWayIsCredited ==
    ASSUME NEW row \in FindingRow, row.status \notin BeforeBranch, AtMost(row.closed, row.total),
           NEW m \in TransferRow, m.to = row.period, m.qty = Minus(row.total, row.closed),
           NEW c \in ClosureRow, c.period = m.from, c.qty = row.closed,
           NEW cls, cls = IF row.closed = Zero THEN <<>> ELSE <<c>>
    PROVE  Credited(row, cls, <<m>>)
<1>1. SUFFICES ASSUME NEW p \in Periods, NEW d \in Dim PROVE CreditedIn(row, cls, <<m>>, p, d)
    BY DEF Credited
<1>2. PICK total \in Quantity : total = row.total
    BY DEF FindingRow
<1>3. PICK closed \in Quantity : closed = row.closed
    BY DEF FindingRow
<1>4. /\ EndedStays(<<m>>, m.to, total, p, d) = IF m.from = p THEN total[d] - m.qty[d] ELSE 0
      /\ Arrived(<<m>>, total) = m.qty
    BY EndedFirst
<1>5. total[d] \in Nat /\ closed[d] \in Nat /\ m.qty[d] = total[d] - closed[d]
    BY <1>2, <1>3 DEF Quantity, Minus
<1>6. ClosedIn(cls, p, d) = IF m.from = p THEN closed[d] ELSE 0
    <2>1. CASE row.closed = Zero
        BY <1>3, <1>5, <2>1, SumOfEmpty, QuantityZero DEF ClosedIn, SumOfRows
    <2>2. CASE row.closed # Zero
        BY <1>3, <2>2, RowsFew DEF ClosedIn
    <2> QED
        BY <2>1, <2>2
<1> QED
    BY <1>2, <1>3, <1>4, <1>5, <1>6 DEF CreditedIn

\* Nobody may reopen a finding.  A reopening empties the closures and keeps the
\* transfers, so what ended stays kept would no longer have been closed there.
NoReopening == \A u \in Users : "reopen" \notin Grants[u]

\* What of a finding the credit is computed from
LEMMA AmountsKnown ==
    ASSUME FInv, NEW f \in Findings, Exists(f)
    PROVE  \E total \in Quantity, closed \in Quantity, home \in Periods :
              /\ total = finding[f].total /\ closed = finding[f].closed /\ home = finding[f].period
              /\ AtMost(closed, total)
<1>1. finding[f].total \in Quantity /\ finding[f].closed \in Quantity
    BY Known
<1>2. finding[f].period \in Periods
    BY Known DEF FindingRow
<1>3. AtMost(finding[f].closed, finding[f].total)
    BY <1>1, Known DEF AtMost, Quantity
<1> QED
    BY <1>1, <1>2, <1>3

\* One transfer: the stay it ends keeps what was closed in it.
LEMMA CarriedIsCredited ==
    ASSUME FInv, PathsOK, AllCredited, NEW f \in Findings, Carried(f)
    PROVE  Credited(finding'[f], closures'[f], transfers'[f])
<1>1. PICK q \in Periods :
          finding'[f].period = q /\ transfers'[f] = Append(transfers[f], Move(f, q))
    BY DEF Carried
<1>2. /\ Exists(f) /\ finding'[f].status = "TRANSFERRED" /\ finding'[f].total = finding[f].total
      /\ finding'[f].closed = finding[f].closed /\ closures'[f] = closures[f]
    BY DEF Carried
<1>3. PICK m : m = Move(f, q)
    OBVIOUS
<1>4. PICK total \in Quantity, closed \in Quantity, home \in Periods :
          /\ total = finding[f].total /\ closed = finding[f].closed /\ home = finding[f].period
          /\ AtMost(closed, total)
    BY <1>2, AmountsKnown
<1>5. PICK moves \in Seq(TransferRow) : moves = transfers[f]
    BY Ledgers
<1>6. Minus(total, closed) \in Quantity /\ \A d \in Dim : Minus(total, closed)[d] = total[d] - closed[d]
    BY <1>4, QuantityMinus
<1>7. m \in TransferRow /\ m.from = home /\ m.to = q /\ m.qty = Minus(total, closed)
    BY <1>3, <1>4, <1>6 DEF Move, Unclosed, TransferRow
<1>8. moves # <<>> => moves[Len(moves)].to = home
    BY <1>2, <1>4, <1>5 DEF PathsOK, PathOK, Exists
<1>9. PICK more : more = Append(moves, m)
    OBVIOUS
<1>10. /\ more \in Seq(TransferRow) /\ Len(more) = Len(moves) + 1 /\ more[Len(moves) + 1] = m
       /\ \A i \in 1..Len(moves) : more[i] = moves[i]
    BY <1>7, <1>9
<1>11. ASSUME NEW p \in Periods, NEW d \in Dim
       PROVE  CreditedIn(finding'[f], closures[f], more, p, d)
    <2>1. /\ EndedStays(more, m.to, total, p, d)
                = EndedStays(moves, home, total, p, d)
                    + (IF home = p THEN Arrived(moves, total)[d] - m.qty[d] ELSE 0)
          /\ Arrived(more, total) = m.qty
        BY <1>7, <1>8, <1>10, EndedMore
    <2>2. /\ EndedStays(moves, home, total, p, d) \in Int
          /\ Arrived(moves, total) \in Quantity
        BY <1>8, EligibleSplit
    <2>3. CreditedIn(finding[f], closures[f], moves, p, d)
        BY <1>2, <1>5 DEF AllCredited, Credited, Exists
    <2>4. ClosedIn(closures[f], p, d)
            = EndedStays(moves, home, total, p, d)
                + (IF home = p THEN Arrived(moves, total)[d] - (total[d] - closed[d]) ELSE 0)
        BY <1>4, <2>3 DEF CreditedIn
    <2>5. total[d] \in Nat /\ closed[d] \in Nat /\ Arrived(moves, total)[d] \in Nat
          /\ m.qty[d] = total[d] - closed[d]
        BY <1>6, <1>7, <2>2 DEF Quantity
    <2>6. ClosedIn(closures[f], p, d)
            = EndedStays(more, q, total, p, d)
                + (IF q = p THEN Arrived(more, total)[d] - (total[d] - closed[d]) ELSE 0)
        BY <1>7, <2>1, <2>2, <2>4, <2>5
    <2> QED
        BY <1>1, <1>2, <1>4, <2>6 DEF CreditedIn
<1>12. transfers'[f] = more
    BY <1>1, <1>3, <1>5, <1>9
<1> QED
    BY <1>2, <1>11, <1>12 DEF Credited, BeforeBranch

\* One closure: it is credited to the stay the finding is in.
LEMMA ClosedIsCredited ==
    ASSUME FInv, PathsOK, AllCredited, NEW f \in Findings, ClosedMore(f)
    PROVE  Credited(finding'[f], closures'[f], transfers'[f])
<1>1. PICK n \in Quantity :
          /\ finding'[f].closed = Plus(finding[f].closed, n)
          /\ closures'[f] = Append(closures[f], ClosureOf(f, n))
    BY DEF ClosedMore
<1>2. /\ Exists(f) /\ finding'[f].total = finding[f].total /\ finding'[f].period = finding[f].period
      /\ finding'[f].status \notin BeforeBranch /\ transfers'[f] = transfers[f]
    BY DEF ClosedMore, Registered
<1>3. PICK total \in Quantity, closed \in Quantity, home \in Periods :
          total = finding[f].total /\ closed = finding[f].closed /\ home = finding[f].period
    BY <1>2, Known DEF FindingRow
<1>4. PICK c \in ClosureRow : c = ClosureOf(f, n)
    BY <1>3 DEF ClosureOf, ClosureRow
<1>5. c.period = home /\ c.qty = n
    BY <1>3, <1>4 DEF ClosureOf
<1>6. PICK moves \in Seq(TransferRow), cls \in Seq(ClosureRow) :
          moves = transfers[f] /\ cls = closures[f]
    BY Ledgers
<1>7. moves # <<>> => moves[Len(moves)].to = home
    BY <1>2, <1>3, <1>6 DEF PathsOK, PathOK, Exists
<1>8. ASSUME NEW p \in Periods, NEW d \in Dim
      PROVE  CreditedIn(finding'[f], Append(cls, c), moves, p, d)
    <2>1. CreditedIn(finding[f], cls, moves, p, d)
        BY <1>2, <1>6 DEF AllCredited, Credited, Exists
    <2>2. SumOfRows(cls, {p}, d)
            = EndedStays(moves, home, total, p, d)
                + (IF home = p THEN Arrived(moves, total)[d] - (total[d] - closed[d]) ELSE 0)
        BY <1>3, <2>1 DEF CreditedIn, ClosedIn
    <2>3. /\ EndedStays(moves, home, total, p, d) \in Int
          /\ Arrived(moves, total) \in Quantity
        BY <1>7, EligibleSplit
    <2>4. SumOfRows(Append(cls, c), {p}, d)
            = SumOfRows(cls, {p}, d) + (IF c.period \in {p} THEN c.qty[d] ELSE 0)
        BY RowsOneMore
    <2>5. PICK new : new = Plus(closed, n)
        OBVIOUS
    <2>6. /\ total[d] \in Nat /\ closed[d] \in Nat /\ Arrived(moves, total)[d] \in Nat /\ n[d] \in Nat
          /\ new[d] = closed[d] + n[d]
        BY <2>3, <2>5 DEF Quantity, Plus
    <2>7. SumOfRows(Append(cls, c), {p}, d)
            = EndedStays(moves, home, total, p, d)
                + (IF home = p THEN Arrived(moves, total)[d] - (total[d] - new[d]) ELSE 0)
        BY <1>5, <2>2, <2>3, <2>4, <2>6, SMTT(30)
    <2> QED
        BY <1>1, <1>2, <1>3, <2>5, <2>7 DEF CreditedIn, ClosedIn
<1>9. closures'[f] = Append(cls, c)
    BY <1>1, <1>4, <1>6
<1> QED
    BY <1>2, <1>6, <1>8, <1>9 DEF Credited

\* One import, in each of the places it may leave a finding
LEMMA ImportIsCredited ==
    ASSUME FInv, FInv', NEW f \in Findings, BroughtIn(f)
    PROVE  Credited(finding'[f], closures'[f], transfers'[f])
<1>1. PICK u \in Users, row \in ImportRows : CanImport(u, f, row) /\ DoImport(u, f, row)
    BY DEF BroughtIn
<1>2. PICK moved : moved = [from |-> row.period, to |-> row.to, qty |-> Minus(row.total, Declared(row))]
    OBVIOUS
<1>3. PICK c : c = [period |-> row.period, qty |-> Declared(row)]
    OBVIOUS
<1>4. PICK new : new = finding'[f]
    OBVIOUS
<1>5. /\ new.status = row.status /\ new.total = row.total /\ new.closed = Declared(row)
      /\ new.period = IF row.status = "TRANSFERRED" THEN row.to ELSE row.period
      /\ transfers'[f] = IF row.status = "TRANSFERRED" THEN <<moved>> ELSE <<>>
      /\ closures'[f] = IF Declared(row) = Zero THEN <<>> ELSE <<c>>
    BY <1>1, <1>2, <1>3, <1>4 DEF DoImport, FInv, FindingsOK, LedgersOK
<1>6. new # NoFinding /\ row.status \notin BeforeBranch
    <2>1. finding'[f] = [status |-> row.status,
              period |-> IF row.status = "TRANSFERRED" THEN row.to ELSE row.period,
              creator |-> u, total |-> row.total, rectified |-> Declared(row),
              verified |-> Declared(row), closed |-> Declared(row), items |-> <<>>, done |-> {}]
        BY <1>1 DEF DoImport, FInv, FindingsOK
    <2>2. row.status \in ImportStatuses
        BY DEF ImportRows
    <2> QED
        BY <1>4, <2>1, <2>2 DEF NoFinding, ImportStatuses, BeforeBranch
<1>7. new \in FindingRow /\ AtMost(new.closed, new.total)
    <2>1. new \in GoodRow
        BY <1>4, <1>6 DEF FInv, FindingsOK
    <2> QED
        BY <2>1, SMTT(30) DEF GoodRow, FindingRow, Quantity, AtMost
<1>8. row.period \in Periods /\ row.to \in Periods /\ row.status \in ImportStatuses
    BY DEF ImportRows
<1>9. new.total \in Quantity /\ new.closed \in Quantity
    BY <1>7 DEF FindingRow
<1>10. c \in ClosureRow /\ c.period = row.period /\ c.qty = new.closed
    BY <1>3, <1>5, <1>8, <1>9 DEF ClosureRow
<1>11. CASE row.status = "SENT_TO_BRANCH_MANAGER"
    <2>1. new.closed = Zero
        BY <1>5, <1>11 DEF Declared
    <2>2. closures'[f] = <<>> /\ transfers'[f] = <<>>
        BY <1>5, <1>11, <2>1
    <2> QED
        BY <1>4, <1>7, <2>1, <2>2, UntouchedIsCredited
<1>12. CASE row.status = "CLOSED"
    <2>1. new.closed = new.total
        BY <1>5, <1>12 DEF Declared
    <2>2. new.total # Zero
        BY <1>1, <1>5, QuantityZero DEF CanImport, Dim
    <2>3. closures'[f] = <<c>> /\ transfers'[f] = <<>> /\ new.period = row.period
        BY <1>5, <1>12, <2>1, <2>2
    <2> QED
        BY <1>4, <1>5, <1>6, <1>7, <1>10, <2>1, <2>3, ClosedAtOnceIsCredited
<1>13. CASE row.status = "TRANSFERRED"
    <2>1. moved \in TransferRow /\ moved.to = new.period /\ moved.qty = Minus(new.total, new.closed)
          /\ moved.from = row.period
        <3>1. Minus(new.total, new.closed) \in Quantity
            BY <1>7, <1>9, QuantityMinus
        <3> QED
            BY <1>2, <1>5, <1>8, <1>13, <3>1 DEF TransferRow
    <2>2. transfers'[f] = <<moved>> /\ closures'[f] = IF new.closed = Zero THEN <<>> ELSE <<c>>
        BY <1>5, <1>13
    <2> QED
        BY <1>4, <1>5, <1>6, <1>7, <1>10, <2>1, <2>2, OnItsWayIsCredited
<1> QED
    BY <1>8, <1>11, <1>12, <1>13 DEF ImportStatuses

\* A step credits a period with no more than it was handed.
LEMMA CreditStep ==
    ASSUME NoReopening, FInv, FInv', PathsOK, AllCredited, NEW f \in Findings, Shaped(f)
    PROVE  Credited(finding'[f], closures'[f], transfers'[f])
<1>1. SUFFICES ASSUME finding'[f] # NoFinding PROVE Credited(finding'[f], closures'[f], transfers'[f])
    BY DEF Credited
<1>2. Credited(finding[f], closures[f], transfers[f])
    BY DEF AllCredited
<1>3. finding'[f] \in FindingRow
    BY <1>1 DEF FInv, FindingsOK, GoodRow
<1>4. CASE RowKept(f)
    BY <1>2, <1>4 DEF RowKept
<1>5. CASE Entered(f)
    BY <1>3, <1>5, UntouchedIsCredited DEF Entered, LedgersEmpty
<1>6. CASE Amended(f)
    <2>1. /\ Exists(f) /\ finding[f].status \in BeforeBranch
          /\ finding'[f].closed = finding[f].closed
          /\ closures'[f] = closures[f] /\ transfers'[f] = transfers[f]
        BY <1>6 DEF Amended, LedgersKept, Editable, BeforeBranch
    <2>2. closures[f] = <<>> /\ transfers[f] = <<>>
        BY <1>2, <2>1 DEF Credited, PathsOK, PathOK, Exists
    <2>3. finding[f].closed = Zero
        <3>1. finding[f] \in GoodRow
            BY <2>1, Known
        <3>2. finding[f].rectified = Zero
            BY <2>1, <3>1 DEF GoodRow
        <3>3. finding[f].closed \in Quantity /\ AtMost(finding[f].closed, Zero)
            BY <2>1, <3>2, Known DEF AtMost, Quantity
        <3> QED
            BY <3>3, QuantityZero, QuantityNonZero DEF AtMost, Quantity
    <2> QED
        BY <1>3, <2>1, <2>2, <2>3, UntouchedIsCredited
<1>7. ~Dropped(f)
    BY <1>1 DEF Dropped
<1>8. CASE Restated(f) \/ RectifiedMore(f)
    <2>1. /\ Exists(f) /\ finding'[f].period = finding[f].period /\ finding'[f].total = finding[f].total
          /\ finding'[f].closed = finding[f].closed
          /\ closures'[f] = closures[f] /\ transfers'[f] = transfers[f]
          /\ finding'[f].status \in BeforeBranch => finding[f].status \in BeforeBranch
        BY <1>8 DEF Restated, RectifiedMore, LedgersKept, Registered
    <2> QED
        BY <1>2, <2>1 DEF Credited, CreditedIn, Exists
<1>9. ~StartedOver(f)
    BY DEF StartedOver, NoReopening
<1> QED
    BY <1>4, <1>5, <1>6, <1>7, <1>8, <1>9, CarriedIsCredited, ClosedIsCredited, ImportIsCredited
    DEF Shaped

\* So a period never closed more than its share.
LEMMA CreditGives == FInv /\ PathsOK /\ AllCredited => ClosedWithinEligible
<1> SUFFICES ASSUME FInv, PathsOK, AllCredited, NEW f \in Present, NEW p \in Periods, NEW d \in Dim
             PROVE  ClosedIn(closures[f], p, d) <= Eligible(f, p, d)
    BY DEF ClosedWithinEligible
<1>1. f \in Findings /\ Exists(f)
    BY DEF Present
<1>2. PICK total \in Quantity, closed \in Quantity, home \in Periods :
          /\ total = finding[f].total /\ closed = finding[f].closed /\ home = finding[f].period
          /\ AtMost(closed, total)
    BY <1>1, AmountsKnown
<1>3. PICK moves \in Seq(TransferRow) : moves = transfers[f]
    BY <1>1, Ledgers
<1>4. moves # <<>> => moves[Len(moves)].to = home
    BY <1>1, <1>2, <1>3 DEF PathsOK, PathOK, Exists
<1>5. /\ EndedStays(moves, home, total, p, d) \in Int
      /\ Arrived(moves, total) \in Quantity
      /\ EligibleIn(moves, home, total, p, d)
            = EndedStays(moves, home, total, p, d)
                + (IF home = p THEN Arrived(moves, total)[d] ELSE 0)
    BY <1>4, EligibleSplit
<1>6. CreditedIn(finding[f], closures[f], moves, p, d)
    BY <1>1, <1>3 DEF AllCredited, Credited, Exists
<1>7. ClosedIn(closures[f], p, d)
        = EndedStays(moves, home, total, p, d)
            + (IF home = p THEN Arrived(moves, total)[d] - (total[d] - closed[d]) ELSE 0)
    BY <1>2, <1>6 DEF CreditedIn
<1>8. total[d] \in Nat /\ closed[d] \in Nat /\ closed[d] <= total[d] /\ Arrived(moves, total)[d] \in Nat
    BY <1>2, <1>5 DEF Quantity, AtMost
<1>9. ClosedIn(closures[f], p, d) <= EligibleIn(moves, home, total, p, d)
    BY <1>5, <1>7, <1>8
<1> QED
    BY <1>2, <1>3, <1>9 DEF Eligible

\* Where nobody may reopen a finding, no period is credited with closing more
\* of it than its share, however often it is transferred on.
THEOREM ClosedStaysWithinEligible ==
    NoReopening => (ImportSpec => []ClosedWithinEligible)
<1> SUFFICES ASSUME NoReopening PROVE ImportSpec => []ClosedWithinEligible
    OBVIOUS
<1>1. Init => RInv /\ AllCredited
    <2>1. ASSUME Init PROVE AllCredited
        BY <2>1 DEF Init, TablesInit, AllCredited, Credited
    <2> QED
        BY <2>1, InitRInv
<1>2. (RInv /\ AllCredited) /\ [ImportNext]_tables => (RInv /\ AllCredited)'
    <2>1. SUFFICES ASSUME RInv, AllCredited, [ImportNext]_tables PROVE (RInv /\ AllCredited)'
        OBVIOUS
    <2>2. RInv'
        BY <2>1, StepRInv
    <2>3. AllCredited'
        <3>1. FInv /\ PathsOK /\ FInv'
            BY <2>1, <2>2 DEF RInv
        <3> QED
            BY <2>1, <3>1, StepsAreShaped, CreditStep DEF AllCredited
    <2> QED
        BY <2>2, <2>3
<1>3. RInv /\ AllCredited => ClosedWithinEligible
    BY CreditGives DEF RInv
<1> QED
    BY <1>1, <1>2, <1>3, TablesOfImports, PTL

-----------------------------------------------------------------------------
(* The path runs forward. *)

\* Periods keep their dates once they have one.
FixedDates == NewDates = {}

\* On the dates before the step, the moves after it run forward.
LEMMA ForwardMoves ==
    ASSUME FixedDates, FInv, NoDanglingPeriod, TransfersForward,
           NEW f \in Findings, Shaped(f), finding'[f] # NoFinding, NEW i \in DOMAIN transfers'[f]
    PROVE  period[transfers'[f][i].from].at < period[transfers'[f][i].to].at
<1>1. Exists(f) => f \in Present
    BY DEF Present
<1>2. CASE Entered(f)
    BY <1>2 DEF Entered, LedgersEmpty
<1>3. CASE BroughtIn(f)
    <2>1. PICK u \in Users, row \in ImportRows : CanImport(u, f, row) /\ DoImport(u, f, row)
        BY <1>3 DEF BroughtIn
    <2>2. PICK moved : moved = [from |-> row.period, to |-> row.to, qty |-> Minus(row.total, Declared(row))]
        OBVIOUS
    <2>3. transfers'[f] = IF row.status = "TRANSFERRED" THEN <<moved>> ELSE <<>>
        BY <2>1, <2>2 DEF DoImport, FInv, LedgersOK
    <2>4. row.status = "TRANSFERRED" /\ transfers'[f] = <<moved>>
        BY <2>3
    <2>5. transfers'[f][i] = moved
        BY <2>4
    <2>6. period[row.period].at < period[row.to].at
        <3>1. period[row.to].at > period[row.period].at
            BY <2>1, <2>4 DEF CanImport, ValidDestination
        <3>2. row.period \in Periods /\ row.to \in Periods
            BY DEF ImportRows
        <3> QED
            BY <3>1, <3>2
    <2> QED
        BY <2>2, <2>5, <2>6
<1>4. CASE RowKept(f) \/ Amended(f) \/ Restated(f) \/ RectifiedMore(f) \/ ClosedMore(f) \/ StartedOver(f)
    <2>1. Exists(f) /\ transfers'[f] = transfers[f]
        BY <1>4 DEF RowKept, Amended, Restated, RectifiedMore, ClosedMore, StartedOver, LedgersKept, Exists
    <2> QED
        BY <1>1, <2>1 DEF TransfersForward
<1>5. ~Dropped(f)
    BY DEF Dropped
<1>6. CASE Carried(f)
    <2>1. PICK q \in Periods :
              /\ InUse(finding[f].period) => period[finding[f].period].at < period[q].at
              /\ transfers'[f] = Append(transfers[f], Move(f, q))
        BY <1>6 DEF Carried, FixedDates
    <2>2. Exists(f) /\ InUse(finding[f].period)
        BY <1>1, <1>6 DEF Carried, NoDanglingPeriod
    <2>3. PICK m : m = Move(f, q)
        OBVIOUS
    <2>4. PICK moves \in Seq(TransferRow) : moves = transfers[f]
        BY Ledgers
    <2>5. m.from = finding[f].period /\ m.to = q
        BY <2>3 DEF Move
    <2>6. /\ DOMAIN Append(moves, m) = DOMAIN moves \cup {Len(moves) + 1}
          /\ Append(moves, m)[Len(moves) + 1] = m
          /\ \A j \in DOMAIN moves : Append(moves, m)[j] = moves[j]
        BY OneRowMore
    <2>7. transfers'[f] = Append(moves, m)
        BY <2>1, <2>3, <2>4
    <2>8. CASE i = Len(moves) + 1
        BY <2>1, <2>2, <2>5, <2>6, <2>7, <2>8
    <2>9. CASE i \in DOMAIN moves
        BY <1>1, <2>2, <2>4, <2>6, <2>7, <2>9 DEF TransfersForward
    <2> QED
        BY <2>6, <2>7, <2>8, <2>9
<1> QED
    BY <1>2, <1>3, <1>4, <1>5, <1>6 DEF Shaped

\* A period that a row names after the step has the date it had before.
LEMMA NamedKeepDates ==
    ASSUME FixedDates, FInv, NoDanglingPeriod, [ImportNext]_tables,
           NEW f \in Findings, finding'[f] # NoFinding, NEW p \in Periods, NamedNext(f, p)
    PROVE  period'[p].at = period[p].at
<1>1. Shaped(f)
    BY StepsAreShaped
<1>2. InUse(p)
    BY <1>1, NewNamesInUse
<1>3. CASE InPeriod(p) = {} /\ NamedBy(p) = {} /\ \A g \in Findings : RowKept(g)
    <2>1. RowKept(f)
        BY <1>3
    <2>2. Names(finding[f], rectifications[f], closures[f], transfers[f], p) /\ Exists(f)
        BY <2>1 DEF NamedNext, RowKept, Exists
    <2>3. f \in InPeriod(p) \cup NamedBy(p)
        BY <2>2 DEF Names, InPeriod, NamedBy, InWork, InTransfers
    <2> QED
        BY <1>3, <2>3
<1>4. InUse(p)' /\ (NewDates = {} => period'[p].at = period[p].at) => period'[p].at = period[p].at
    BY DEF FixedDates
<1> QED
    BY <1>2, <1>3, <1>4, PeriodsStay

\* A step makes no transfer that goes back in time.
LEMMA ForwardStep ==
    ASSUME FixedDates, FInv, FInv', NoDanglingPeriod, TransfersForward, [ImportNext]_tables
    PROVE  TransfersForward'
<1> SUFFICES ASSUME NEW f \in Findings, finding'[f] # NoFinding, NEW i \in DOMAIN transfers'[f]
             PROVE  period'[transfers'[f][i].from].at < period'[transfers'[f][i].to].at
    BY DEF TransfersForward, Present, Exists
<1>1. period[transfers'[f][i].from].at < period[transfers'[f][i].to].at
    BY StepsAreShaped, ForwardMoves
<1>2. transfers'[f] \in Seq(TransferRow)
    BY DEF FInv, LedgersOK
<1>3. transfers'[f][i].from \in Periods /\ transfers'[f][i].to \in Periods
    <2>1. PICK moves \in Seq(TransferRow) : moves = transfers'[f]
        BY <1>2
    <2>2. i \in DOMAIN moves
        BY <2>1
    <2>3. moves[i] \in TransferRow
        BY <2>2
    <2> QED
        BY <2>1, <2>3 DEF TransferRow
<1>4. NamedNext(f, transfers'[f][i].from) /\ NamedNext(f, transfers'[f][i].to)
    BY DEF NamedNext, Names
<1> QED
    BY <1>1, <1>3, <1>4, NamedKeepDates

\* Where periods keep their dates, a finding is only ever carried forward in
\* the calendar: no handler and no import opens an earlier period's figures
\* again.  Moving the dates of a period it has left can turn its path back.
THEOREM TransfersRunForward == FixedDates => (ImportSpec => []TransfersForward)
<1> SUFFICES ASSUME FixedDates PROVE ImportSpec => []TransfersForward
    OBVIOUS
<1>1. Init => RInv /\ TransfersForward
    <2>1. ASSUME Init PROVE TransfersForward
        BY <2>1 DEF Init, TablesInit, TransfersForward, Present, Exists
    <2> QED
        BY <2>1, InitRInv
<1>2. (RInv /\ TransfersForward) /\ [ImportNext]_tables => (RInv /\ TransfersForward)'
    <2>1. SUFFICES ASSUME RInv, TransfersForward, [ImportNext]_tables
                   PROVE  (RInv /\ TransfersForward)'
        OBVIOUS
    <2>2. RInv'
        BY <2>1, StepRInv
    <2>3. TransfersForward'
        BY <2>1, <2>2, ForwardStep DEF RInv
    <2> QED
        BY <2>2, <2>3
<1> QED
    BY <1>1, <1>2, TablesOfImports, PTL

-----------------------------------------------------------------------------
(* A locked period's rectification figures. *)

\* A row of another period does not show in a period's figures.
LEMMA FiguresKept ==
    ASSUME NEW rows \in Seq(RectificationRow), NEW row, NEW p, row.period # p
    PROVE  Figures(Append(rows, row), p) = Figures(rows, p)
<1>1. PICK more : more = Append(rows, row)
    OBVIOUS
<1>2. /\ DOMAIN more = DOMAIN rows \cup {Len(rows) + 1}
      /\ more[Len(rows) + 1] = row
      /\ \A i \in DOMAIN rows : more[i] = rows[i]
    BY <1>1, OneRowMore
<1>3. {j \in DOMAIN more : more[j].period = p} = {j \in DOMAIN rows : rows[j].period = p}
    BY <1>2
<1>4. [i \in {j \in DOMAIN more : more[j].period = p} |-> more[i]]
        = [i \in {j \in DOMAIN rows : rows[j].period = p} |-> rows[i]]
    BY <1>2, <1>3
<1> QED
    BY <1>1, <1>4 DEF Figures

\* Before the branch has a finding there is nothing to freeze.
LEMMA NothingRectified ==
    ASSUME FInv, NEW f \in Findings, Early(f)
    PROVE  rectifications[f] = <<>>
<1>1. CASE ~Exists(f)
    BY <1>1 DEF FInv, LedgersMatch, LedgersFit, Exists
<1>2. CASE Exists(f)
    <2>1. finding[f] \in GoodRow /\ LedgersFit(finding[f], rectifications[f], closures[f], transfers[f])
        BY <1>2, Known
    <2>2. finding[f].rectified = Zero
        BY <1>2, <2>1 DEF GoodRow, Early
    <2> QED
        BY <1>2, <2>1, <2>2 DEF LedgersFit, Exists
<1> QED
    BY <1>1, <1>2

\* A handler gives a locked period no rectification and takes none from it.
LEMMA FrozenStep ==
    ASSUME NoReopening, FInv, [Next]_tables, NEW f \in Findings, NEW p \in Periods,
           period[p].status = "LOCKED"
    PROVE  Figures(rectifications'[f], p) = Figures(rectifications[f], p)
<1>1. CASE RowKept(f) \/ Amended(f) \/ Restated(f) \/ ClosedMore(f) \/ Carried(f)
    BY <1>1 DEF RowKept, Amended, Restated, ClosedMore, Carried, LedgersKept
<1>2. CASE Entered(f) \/ Dropped(f)
    <2>1. rectifications'[f] = <<>>
        BY <1>2 DEF Entered, Dropped, LedgersEmpty
    <2>2. Dropped(f) => Early(f)
        BY StepFInv, BranchKeeps DEF Dropped, Early, Exists
    <2>3. Early(f)
        BY <1>2, <2>2 DEF Entered, Early
    <2> QED
        BY <2>1, <2>3, NothingRectified
<1>3. CASE RectifiedMore(f)
    <2>1. PICK n \in Quantity :
              rectifications'[f] = Append(rectifications[f], RectificationOf(f, n))
        BY <1>3 DEF RectifiedMore
    <2>2. finding[f].period # p
        BY <1>3 DEF RectifiedMore
    <2>3. RectificationOf(f, n).period # p
        BY <2>2 DEF RectificationOf
    <2> QED
        BY <2>1, <2>3, Ledgers, FiguresKept
<1>4. ~StartedOver(f)
    BY DEF StartedOver, NoReopening
<1> QED
    BY <1>1, <1>2, <1>3, <1>4, HandlersAreShaped DEF Handled

\* Where nobody may reopen a finding, the rectifications recorded in a period
\* that is locked stay as they are: an import brings rows of its own finding
\* alone, and its reversal takes away those of its own.
THEOREM LockedRectificationsStayFrozen ==
    NoReopening => (ImportSpec => LockedRectificationsFrozen)
<1> SUFFICES ASSUME NoReopening PROVE ImportSpec => LockedRectificationsFrozen
    OBVIOUS
<1>1. FInv /\ ImportedAreOwed /\ [ImportNext]_everything =>
          [\A f \in Findings, p \in Periods :
              period[p].status = "LOCKED" /\ (f \in imported <=> f \in imported') =>
                  Figures(rectifications'[f], p) = Figures(rectifications[f], p)]_everything
    <2>1. SUFFICES ASSUME FInv, ImportedAreOwed, [ImportNext]_everything,
                          NEW f \in Findings, NEW p \in Periods, period[p].status = "LOCKED",
                          f \in imported <=> f \in imported'
                   PROVE  Figures(rectifications'[f], p) = Figures(rectifications[f], p)
        OBVIOUS
    <2>2. CASE [Next]_tables
        BY <2>1, <2>2, FrozenStep
    <2>3. ASSUME NEW u \in Users, NEW g \in Findings, ImportRow(u, g)
          PROVE  rectifications'[f] = rectifications[f]
        <3>1. g \notin imported /\ g \in imported'
            BY <2>1, <2>3, ImportOwes DEF ImportedAreOwed
        <3>2. g # f
            BY <2>1, <3>1
        <3> QED
            BY <2>1, <2>3, <3>2, ImportAlone DEF RowKept
    <2>4. ASSUME NEW u \in Users, NEW S \in SUBSET Findings, ReverseImport(u, S)
          PROVE  rectifications'[f] = rectifications[f]
        <3>1. f \notin S
            BY <2>1, <2>4 DEF ReverseImport, CanReverse, DoReverse
        <3> QED
            BY <2>4, <3>1, ReversalIs
    <2> QED
        BY <2>1, <2>2, <2>3, <2>4 DEF ImportNext, everything
<1> QED
    BY <1>1, ImportedInductive, ImportedStayWithBranch, PTL DEF ImportSpec, LockedRectificationsFrozen

-----------------------------------------------------------------------------
(* A finding's page and the routes behind it. *)

\* A button that only asks for rights and a status, and one of a decision
LEMMA PlainButtons ==
    ASSUME FInv, NEW u \in Users, NEW f \in Findings, Exists(f), Unhindered(f),
           NEW b \in {"edit", "submit", "delete", "reopen", "verify", "close", "return", "resubmit"}
                        \cup Decisions,
           Shows(u, f, b)
    PROVE  Accepts(u, f, b)
<1>1. period[finding[f].period].status = "OPEN" /\ period[finding[f].period].window /\ HasRoom(f)
    BY DEF Unhindered
<1>2. \A editing : PeriodWritable(finding[f].period, editing)
    BY <1>1 DEF PeriodWritable
<1>3. CASE b = "edit"
    <2>1. CanEdit(u, f, finding[f].period, <<>>)
        <3>1. PICK none : none = <<>>
            OBVIOUS
        <3>2. "cases" \notin DOMAIN none /\ "amount" \notin DOMAIN none
            BY <3>1
        <3> QED
            BY <1>2, <1>3, <3>1, <3>2 DEF Shows, Authored, CanEdit, Movable
    <2> QED
        BY <1>3, <2>1 DEF Accepts, Decisions
<1>4. CASE b = "submit"
    BY <1>1, <1>2, <1>4 DEF Shows, Authored, Accepts, CanSubmit, OpenForSubmission, Decisions
<1>5. CASE b = "delete"
    BY <1>2, <1>5 DEF Shows, Accepts, CanDelete, Decisions
<1>6. CASE b = "reopen"
    BY <1>2, <1>6 DEF Shows, Accepts, CanReopen, Decisions
<1>7. CASE b \in Decisions
    <2>1. b \in {"APPROVE", "REJECT", "RETURN"}
        BY <1>7 DEF Decisions
    <2>2. PICK stage \in Stages : ShowsReview(u, f, stage)
        BY <2>1 DEF Shows
    <2>3. b = "RETURN" => finding[f].creator # u
        BY DEF Shows
    <2>4. CanReview(u, f, stage, b)
        BY <1>2, <2>2, <2>3 DEF ShowsReview, CanReview
    <2> QED
        BY <2>1, <2>4 DEF Accepts, Decisions
<1>8. CASE b = "verify"
    BY <1>8 DEF Shows, Accepts, CanVerify, Returnable, Decisions
<1>9. CASE b = "close"
    BY <1>1, <1>9 DEF Shows, Accepts, CanClose, Decisions
<1>10. CASE b = "return"
    BY <1>2, <1>10 DEF Shows, ShowsReturn, Accepts, CanReturn, MayReturn, Decisions
<1>11. CASE b = "resubmit"
    BY <1>2, <1>11 DEF Shows, Accepts, CanResubmit, Decisions
<1> QED
    BY <1>3, <1>4, <1>5, <1>6, <1>7, <1>8, <1>9, <1>10, <1>11

\* What is outstanding is a quantity.
LEMMA OutstandingKnown ==
    ASSUME FInv, NEW f \in Findings, Exists(f)
    PROVE  Outstanding(f) \in Quantity
    BY Known, QuantityMinus DEF Outstanding

\* The rectification form: an entry of everything outstanding settles it.
LEMMA RectifyButton ==
    ASSUME SettlingInv, NEW u \in Users, NEW f \in Findings, Exists(f), Unhindered(f),
           ShowsRectify(u, f)
    PROVE  Accepts(u, f, "rectify")
<1>1. MayRectify(u, f) /\ \E d \in Dim : Outstanding(f)[d] > 0
    BY DEF ShowsRectify, Unhindered, MayRectify, PeriodWritable
<1>2. Outstanding(f) \in Quantity
    BY OutstandingKnown DEF SettlingInv
<1>3. \/ \E n \in Entries : CanRectify(u, f, n)
      \/ \E S \in SUBSET DOMAIN finding[f].items : CanRectifyItems(u, f, Once(S))
    BY <1>1, <1>2, PlainSettles, ItemisedSettles DEF SettlingInv
<1> QED
    BY <1>3 DEF Accepts, Decisions

\* Every period on the transfer card is accepted.
LEMMA TransferButton ==
    ASSUME FInv, NEW u \in Users, NEW f \in Findings, Exists(f), Unhindered(f),
           Shows(u, f, "transfer"), NEW q \in OtherOpenPeriods(f)
    PROVE  CanTransfer(u, f, q)
    BY DEF Shows, OtherOpenPeriods, CanTransfer, Onward, Unhindered

\* A page shows no button whose request is refused.
LEMMA AllOffersAccepted == SettlingInv => OffersAccepted
<1> SUFFICES ASSUME SettlingInv, NEW u \in Users, NEW f \in Present, Unhindered(f)
             PROVE  /\ \A b \in Buttons \ {"transfer"} : Shows(u, f, b) => Accepts(u, f, b)
                    /\ Shows(u, f, "transfer") => \A q \in OtherOpenPeriods(f) : CanTransfer(u, f, q)
    BY DEF OffersAccepted
<1>1. f \in Findings /\ Exists(f) /\ FInv
    BY DEF Present, SettlingInv
<1>2. ASSUME NEW b \in Buttons \ {"transfer"}, Shows(u, f, b) PROVE Accepts(u, f, b)
    <2>1. CASE b = "rectify"
        <3>1. ShowsRectify(u, f)
            BY <1>2, <2>1 DEF Shows
        <3> QED
            BY <1>1, <2>1, <3>1, RectifyButton
    <2>2. CASE b # "rectify"
        <3>1. b \in {"edit", "submit", "delete", "reopen", "verify", "close", "return", "resubmit"}
                      \cup Decisions
            BY <1>2, <2>2 DEF Buttons
        <3> QED
            BY <1>1, <1>2, <3>1, PlainButtons
    <2> QED
        BY <2>1, <2>2
<1> QED
    BY <1>1, <1>2, TransferButton

\* What a route accepts, a button offers - rectification apart.
LEMMA PlainRoutes ==
    ASSUME FInv, NEW u \in Users, NEW f \in Findings, Exists(f),
           NEW b \in Buttons \ {"rectify"}, Accepts(u, f, b)
    PROVE  Shows(u, f, b)
<1>1. CASE b \in {"edit", "submit", "delete", "reopen"}
    BY <1>1 DEF Shows, Authored, Accepts, Decisions, CanEdit, CanSubmit, CanDelete, CanReopen
<1>2. CASE b \in Decisions
    <2>1. b \in {"APPROVE", "REJECT", "RETURN"}
        BY <1>2 DEF Decisions
    <2>2. PICK stage \in Stages : CanReview(u, f, stage, b)
        BY <2>1 DEF Accepts, Decisions
    <2>3. ShowsReview(u, f, stage) /\ (b = "RETURN" => finding[f].creator # u)
        BY <2>2 DEF CanReview, ShowsReview
    <2> QED
        BY <2>1, <2>3 DEF Shows
<1>3. CASE b = "verify"
    <2>1. CanVerify(u, f)
        BY <1>3 DEF Accepts, Decisions
    <2>2. /\ finding[f] \in GoodRow /\ finding[f] \in FindingRow
          /\ finding[f].rectified \in Quantity /\ finding[f].verified \in Quantity
        BY Known
    <2>3. PICK d \in Dim : Verifiable(f)[d] > 0
        BY <2>1 DEF CanVerify
    <2>4. finding[f].rectified # Zero
        BY <2>2, <2>3 DEF Verifiable, Minus, Quantity, Zero
    <2>5. finding[f].status \notin BeforeBranch \cup {"SENT_TO_BRANCH_MANAGER"}
        BY <2>2, <2>4 DEF GoodRow
    <2>6. finding[f].status \in Status /\ finding[f].status \notin {"RECTIFICATION_RETURNED", "CLOSED"}
        BY <2>1, <2>2 DEF CanVerify, FindingRow
    <2>7. finding[f].status \in Returnable
        BY <2>5, <2>6 DEF Status, BeforeBranch, Returnable
    <2> QED
        BY <1>3, <2>1, <2>7 DEF Shows, CanVerify
<1>4. CASE b = "close"
    BY <1>4 DEF Shows, Accepts, Decisions, CanClose
<1>5. CASE b = "return"
    BY <1>5 DEF Shows, ShowsReturn, Accepts, Decisions, CanReturn, MayReturn
<1>6. CASE b = "resubmit"
    BY <1>6 DEF Shows, Accepts, Decisions, CanResubmit
<1>7. CASE b = "transfer"
    BY <1>7 DEF Shows, Accepts, Decisions, CanTransfer
<1> QED
    BY <1>1, <1>2, <1>3, <1>4, <1>5, <1>6, <1>7 DEF Buttons

\* An entry that is taken leaves less outstanding: there was something.
LEMMA RectifyRoute ==
    ASSUME FInv, NEW u \in Users, NEW f \in Findings, Exists(f), Accepts(u, f, "rectify")
    PROVE  Shows(u, f, "rectify")
<1>1. \/ \E n \in Entries : CanRectify(u, f, n)
      \/ \E S \in SUBSET DOMAIN finding[f].items : CanRectifyItems(u, f, Once(S))
    BY DEF Accepts, Decisions
<1>2. Outstanding(f) \in Quantity /\ finding[f] \in FindingRow
    BY OutstandingKnown, Known
<1>3. ASSUME NEW n \in Quantity, n # Zero, AtMost(n, Outstanding(f)), MayRectify(u, f)
      PROVE  Shows(u, f, "rectify")
    <2>1. PICK d \in Dim : n[d] # 0
        BY <1>3 DEF Quantity, Zero
    <2>2. Outstanding(f)[d] > 0
        BY <1>2, <1>3, <2>1 DEF Quantity, AtMost
    <2>3. ShowsRectify(u, f)
        BY <1>3, <2>2 DEF ShowsRectify, MayRectify
    <2> QED
        BY <2>3 DEF Shows
<1>4. CASE \E n \in Entries : CanRectify(u, f, n)
    <2>1. PICK n \in Entries : CanRectify(u, f, n)
        BY <1>4
    <2>2. n \in Quantity
        BY InputsAssumption DEF Entries, Quantity
    <2>3. n # Zero /\ AtMost(n, Outstanding(f)) /\ MayRectify(u, f)
        BY <2>1 DEF CanRectify, Sensible
    <2> QED
        BY <1>3, <2>2, <2>3
<1>5. CASE \E S \in SUBSET DOMAIN finding[f].items : CanRectifyItems(u, f, Once(S))
    <2>1. PICK S \in SUBSET DOMAIN finding[f].items : CanRectifyItems(u, f, Once(S))
        BY <1>5
    <2>2. Once(S) \in [S -> 1..1] /\ DOMAIN Once(S) = S
        BY DEF Once
    <2>3. Picked(f, Once(S)) \in Quantity /\ (S # {} => Picked(f, Once(S)) # Zero)
        BY <1>2, <2>2, PickedQuantity
    <2>4. S # {} /\ AtMost(Picked(f, Once(S)), Outstanding(f)) /\ MayRectify(u, f)
        BY <2>1, <2>2 DEF CanRectifyItems
    <2> QED
        BY <1>3, <2>3, <2>4
<1> QED
    BY <1>1, <1>4, <1>5

\* A transfer's destinations are all on the card: the period it leaves is there.
LEMMA TransferRoute ==
    ASSUME NoDanglingPeriod, NEW u \in Users, NEW f \in Present, NEW q \in Periods, CanTransfer(u, f, q)
    PROVE  q \in OtherOpenPeriods(f)
    BY DEF CanTransfer, Onward, OtherOpenPeriods, NoDanglingPeriod

\* A page hides nothing that a route would accept.
LEMMA NothingIsHidden == RInv => NothingHidden
<1> SUFFICES ASSUME RInv, NEW u \in Users, NEW f \in Present
             PROVE  /\ \A b \in Buttons : Accepts(u, f, b) => Shows(u, f, b)
                    /\ \A q \in Periods : CanTransfer(u, f, q) => q \in OtherOpenPeriods(f)
    BY DEF NothingHidden
<1>1. f \in Findings /\ Exists(f) /\ FInv /\ NoDanglingPeriod
    BY DEF Present, RInv
<1>2. ASSUME NEW b \in Buttons, Accepts(u, f, b) PROVE Shows(u, f, b)
    <2>1. CASE b = "rectify"
        BY <1>1, <1>2, <2>1, RectifyRoute
    <2>2. CASE b # "rectify"
        BY <1>1, <1>2, <2>2, PlainRoutes
    <2> QED
        BY <2>1, <2>2
<1> QED
    BY <1>1, <1>2, TransferRoute

\* The form keeps back nothing the route would take, and what it fills in
\* itself - the one case left - the route takes.
LEMMA FormFits == FInv => FormMirrorsRoute
<1> SUFFICES ASSUME FInv, NEW u \in Users, NEW f \in Present
             PROVE  /\ \A n \in Entries : CanRectify(u, f, n) => n \in FormEntries(f)
                    /\ SingleCaseRemaining(f) /\ Unhindered(f) /\ ShowsRectify(u, f) =>
                          CanRectify(u, f, Outstanding(f))
    BY DEF FormMirrorsRoute
<1>1. f \in Findings /\ Exists(f)
    BY DEF Present
<1>2. Outstanding(f) \in Quantity
    BY <1>1, OutstandingKnown
<1>3. PICK left \in Quantity : left = Outstanding(f)
    BY <1>2
<1>4. "cases" \in Dim /\ "amount" \in Dim /\ \A d \in Dim : d \in {"cases", "amount"}
    BY DEF Dim
<1>5. ASSUME NEW n \in Entries, CanRectify(u, f, n) PROVE n \in FormEntries(f)
    <2>1. Sensible(n) /\ ExhaustsTogether(f, n) /\ AtMost(n, left)
        BY <1>3, <1>5 DEF CanRectify
    <2>2. n \in Quantity
        BY InputsAssumption DEF Entries, Quantity
    <2>3. CASE SingleCaseRemaining(f)
        <3>1. left["cases"] = 1
            BY <1>3, <2>3 DEF SingleCaseRemaining
        <3>2. n["cases"] # 0
            <4>1. SUFFICES ASSUME n["cases"] = 0 PROVE FALSE
                OBVIOUS
            <4>2. n["amount"] = 0
                BY <1>4, <2>1, <2>2, <4>1 DEF Sensible, Quantity
            <4>3. n = Zero
                BY <1>4, <2>2, <4>1, <4>2 DEF Quantity, Zero
            <4> QED
                BY <2>1, <4>3 DEF Sensible
        <3>3. n["cases"] = 1
            BY <1>4, <2>1, <2>2, <3>1, <3>2 DEF AtMost, Quantity
        <3>4. n["amount"] = left["amount"]
            BY <1>3, <2>1, <3>1, <3>3 DEF ExhaustsTogether
        <3>5. n = left
            BY <1>4, <2>2, <3>1, <3>3, <3>4 DEF Quantity
        <3> QED
            BY <1>3, <2>3, <3>5 DEF FormEntries
    <2>4. CASE ~SingleCaseRemaining(f)
        <3>1. FormLetsThrough(f, n)
            BY <2>1 DEF Sensible, ExhaustsTogether, FormLetsThrough
        <3> QED
            BY <2>4, <3>1 DEF FormEntries
    <2> QED
        BY <2>3, <2>4
<1>6. ASSUME SingleCaseRemaining(f), Unhindered(f), ShowsRectify(u, f)
      PROVE  CanRectify(u, f, Outstanding(f))
    <2>1. finding[f].items = <<>> /\ left["cases"] = 1
        BY <1>3, <1>6 DEF SingleCaseRemaining
    <2>2. MayRectify(u, f)
        BY <1>1, <1>6 DEF ShowsRectify, Unhindered, MayRectify, PeriodWritable
    <2>3. Sensible(left)
        BY <1>4, <2>1 DEF Sensible, Zero
    <2>4. AtMost(left, left)
        BY AtMostSelf
    <2>5. ExhaustsTogether(f, left)
        BY <1>3 DEF ExhaustsTogether
    <2> QED
        BY <1>3, <2>1, <2>2, <2>3, <2>4, <2>5 DEF CanRectify
<1> QED
    BY <1>5, <1>6

\* A finding's page offers what the routes accept, hides nothing they accept,
\* and its form holds back no entry they take - in every state the workflow
\* and the import can reach.
THEOREM PagesAlwaysMirrorRoutes == ExactItems /\ Workable => (ImportSpec => []PagesMirrorRoutes)
<1> SUFFICES ASSUME ExactItems, Workable PROVE ImportSpec => []PagesMirrorRoutes
    OBVIOUS
<1>1. Init => SettlingInv /\ RInv
    BY InitSettlingInv, InitRInv
<1>2. SettlingInv /\ RInv /\ [ImportNext]_tables => SettlingInv' /\ RInv'
    BY StepSettlingInv, StepRInv
<1>3. SettlingInv /\ RInv => PagesMirrorRoutes
    BY AllOffersAccepted, NothingIsHidden, FormFits DEF PagesMirrorRoutes, RInv
<1> QED
    BY <1>1, <1>2, <1>3, TablesOfImports, PTL

-----------------------------------------------------------------------------
(* The queues. *)

\* Duties that are handed out: every finding has somebody for each stage, who
\* registers may also edit and submit, a reviewer of head office holds both of its
\* review permissions, and head office leaves the branch's and the district's
\* duties alone.
Staffed ==
    /\ \A f \in Findings :
          /\ \A duty \in {"DISTRICT_REVIEW", "HO_REVIEW", "verify-rectification", "close"} :
                \E u \in Users : May(u, duty, f)
          /\ \E u \in Approvers : May(u, "PENDING_BANK_APPROVAL", f)
    /\ \A u \in Users :
          /\ "create" \in Grants[u] => {"edit", "submit"} \subseteq Grants[u]
          /\ "HO_REVIEW" \in Grants[u] <=> "PENDING_BANK_APPROVAL" \in Grants[u]
    /\ \A u \in BankUsers :
          /\ {"edit", "HO_REVIEW", "close"} \subseteq Grants[u]
          /\ Grants[u] \cap {"DISTRICT_REVIEW", "rectify", "verify-rectification",
                             "return-rectification"} = {}

\* Until the branch has a finding, its creator is somebody who may create it.
Authorised(row, f) == row # NoFinding /\ row.status \in BeforeBranch => May(row.creator, "create", f)

AllAuthorised == \A f \in Findings : Authorised(finding[f], f)

\* A step leaves a finding before the branch with a creator who may create.
LEMMA AuthorisedStep ==
    ASSUME FInv, AllAuthorised, NEW f \in Findings, Shaped(f)
    PROVE  Authorised(finding'[f], f)
<1>1. SUFFICES ASSUME finding'[f] # NoFinding, finding'[f].status \in BeforeBranch
               PROVE  May(finding'[f].creator, "create", f)
    BY DEF Authorised
<1>2. CASE RowKept(f)
    BY <1>1, <1>2 DEF RowKept, AllAuthorised, Authorised
<1>3. CASE Entered(f)
    BY <1>3 DEF Entered
<1>4. ~BroughtIn(f)
    <2>1. SUFFICES ASSUME NEW u \in Users, NEW row \in ImportRows, DoImport(u, f, row) PROVE FALSE
        BY DEF BroughtIn
    <2>2. finding'[f].status \in ImportStatuses
        BY <2>1 DEF DoImport, FInv, FindingsOK, ImportRows
    <2> QED
        BY <1>1, <2>2 DEF ImportStatuses, BeforeBranch
<1>5. CASE Amended(f) \/ Restated(f)
    <2>1. Exists(f) /\ finding[f].status \in BeforeBranch /\ finding'[f].creator = finding[f].creator
        BY <1>1, <1>5 DEF Amended, Restated
    <2> QED
        BY <2>1 DEF AllAuthorised, Authorised, Exists
<1>6. ~Dropped(f) /\ ~RectifiedMore(f) /\ ~ClosedMore(f)
    BY <1>1 DEF Dropped, RectifiedMore, ClosedMore
<1>7. ~StartedOver(f) /\ ~Carried(f)
    BY <1>1 DEF StartedOver, Carried, BeforeBranch
<1> QED
    BY <1>2, <1>3, <1>4, <1>5, <1>6, <1>7 DEF Shaped

\* What a page shows and an invariant state keeps, its routes accept.
LEMMA ShownIsAccepted ==
    ASSUME SettlingInv, NEW u \in Users, NEW f \in Present, Unhindered(f),
           NEW b \in Buttons \ {"transfer"}, Shows(u, f, b)
    PROVE  Accepts(u, f, b)
    BY AllOffersAccepted DEF OffersAccepted

\* A review that waits is in the queue of whoever may decide on it, and is theirs
\* to decide.
LEMMA ReviewsAreQueued ==
    ASSUME SettlingInv, NEW u \in Users, NEW f \in Present, Unhindered(f), NEW stage \in Stages,
           finding[f].status = stage, May(u, stage, f), stage = "PENDING_BANK_APPROVAL" => u \in Approvers
    PROVE  Queued(u, f) /\ Accepts(u, f, "APPROVE") /\ "APPROVE" \in Decisions \cap Buttons
<1>1. Queued(u, f)
    BY DEF Queued
<1>2. "APPROVE" \in Decisions /\ "APPROVE" \in Buttons \ {"transfer"}
    BY DEF Buttons, Decisions
<1>3. Shows(u, f, "APPROVE")
    BY DEF Shows, ShowsReview
<1> QED
    BY <1>1, <1>2, <1>3, ShownIsAccepted

\* A finding that is still being written is its creator's to edit and submit.
LEMMA DraftsAreQueued ==
    ASSUME Staffed, SettlingInv, AllAuthorised, NEW f \in Present, Unhindered(f),
           finding[f].status \in Editable
    PROVE  /\ finding[f].creator \in Users /\ Queued(finding[f].creator, f)
           /\ Accepts(finding[f].creator, f, "edit") /\ Accepts(finding[f].creator, f, "submit")
<1>1. PICK u : u = finding[f].creator
    OBVIOUS
<1>2. f \in Findings /\ Exists(f) /\ FInv
    BY DEF Present, SettlingInv
<1>3. u \in Users
    BY <1>1, <1>2, Known DEF FindingRow
<1>4. May(u, "create", f)
    BY <1>1, <1>2 DEF AllAuthorised, Authorised, Exists, Editable, BeforeBranch
<1>5. May(u, "edit", f) /\ May(u, "submit", f)
    BY <1>3, <1>4 DEF Staffed, May
<1>6. Shows(u, f, "edit") /\ Shows(u, f, "submit")
    BY <1>1, <1>5 DEF Shows, Authored
<1>7. Accepts(u, f, "edit") /\ Accepts(u, f, "submit")
    BY <1>3, <1>6, ShownIsAccepted DEF Buttons
<1> QED
    BY <1>1, <1>3, <1>5, <1>7 DEF Queued

\* A finding the branch works on is its to rectify or to resubmit, unless
\* nothing is outstanding.
LEMMA BranchWorkIsDoable ==
    ASSUME SettlingInv, NEW u \in Users, NEW f \in Present, Unhindered(f), May(u, "rectify", f),
           finding[f].status \in BranchWork
    PROVE  Accepts(u, f, "rectify") \/ Accepts(u, f, "resubmit") \/ Outstanding(f) = Zero
<1>1. f \in Findings /\ Exists(f) /\ FInv
    BY DEF Present, SettlingInv
<1>2. CASE finding[f].status = "RECTIFICATION_RETURNED"
    <2>1. Shows(u, f, "resubmit") /\ "resubmit" \in Buttons \ {"transfer"}
        BY <1>2 DEF Shows, Buttons
    <2> QED
        BY <2>1, ShownIsAccepted
<1>3. CASE \E d \in Dim : Outstanding(f)[d] > 0
    <2>1. Shows(u, f, "rectify") /\ "rectify" \in Buttons \ {"transfer"}
        BY <1>3 DEF Shows, ShowsRectify, Buttons, BranchWork, Rectifiable
    <2> QED
        BY <2>1, ShownIsAccepted
<1>4. CASE ~\E d \in Dim : Outstanding(f)[d] > 0
    <2>1. Outstanding(f) \in Quantity
        BY <1>1, OutstandingKnown
    <2> QED
        BY <1>4, <2>1 DEF Quantity, Zero
<1> QED
    BY <1>2, <1>3, <1>4

\* Quantities of a finding are numbers, so are the differences its queues look at.
LEMMA WaitingMeans ==
    ASSUME FInv, NEW f \in Findings, Exists(f)
    PROVE  /\ finding[f] \in GoodRow /\ finding[f] \in FindingRow
           /\ finding[f].total \in Quantity /\ finding[f].rectified \in Quantity
           /\ finding[f].verified \in Quantity /\ finding[f].closed \in Quantity
           /\ \A d \in Dim :
                 /\ Verifiable(f)[d] = finding[f].rectified[d] - finding[f].verified[d]
                 /\ Closable(f)[d] = finding[f].verified[d] - finding[f].closed[d]
                 /\ Outstanding(f)[d] = finding[f].total[d] - finding[f].rectified[d]
<1>1. /\ finding[f] \in GoodRow /\ finding[f] \in FindingRow
      /\ finding[f].total \in Quantity /\ finding[f].rectified \in Quantity
      /\ finding[f].verified \in Quantity /\ finding[f].closed \in Quantity
    BY Known
<1>2. ASSUME NEW d \in Dim PROVE Least(finding[f].rectified, finding[f].verified)[d] = finding[f].verified[d]
    BY <1>1 DEF GoodRow, AtMost, Least, Quantity
<1> QED
    BY <1>1, <1>2 DEF Verifiable, Closable, Outstanding, Minus

\* What waits for verification is in a status in which it can be sent back.
LEMMA VerifiableIsReturnable ==
    ASSUME FInv, NEW f \in Findings, Exists(f), NEW d \in Dim, Verifiable(f)[d] > 0,
           finding[f].status \notin {"RECTIFICATION_RETURNED", "CLOSED"}
    PROVE  finding[f].status \in Returnable
<1>1. /\ finding[f] \in GoodRow /\ finding[f] \in FindingRow
      /\ finding[f].rectified \in Quantity /\ finding[f].verified \in Quantity
      /\ Verifiable(f)[d] = finding[f].rectified[d] - finding[f].verified[d]
    BY WaitingMeans
<1>2. finding[f].rectified # Zero
    BY <1>1 DEF Quantity, Zero
<1>3. finding[f].status \notin BeforeBranch \cup {"SENT_TO_BRANCH_MANAGER"}
    BY <1>1, <1>2 DEF GoodRow
<1> QED
    BY <1>1, <1>3 DEF FindingRow, Status, BeforeBranch, Returnable

\* ... so it can be verified by whoever has that duty, ...
LEMMA VerificationIsDoable ==
    ASSUME SettlingInv, NEW u \in Users, NEW f \in Present, Unhindered(f), NEW d \in Dim,
           Verifiable(f)[d] > 0, finding[f].status \notin {"RECTIFICATION_RETURNED", "CLOSED"},
           May(u, "verify-rectification", f)
    PROVE  Accepts(u, f, "verify") /\ Queued(u, f)
<1>1. f \in Findings /\ Exists(f) /\ FInv
    BY DEF Present, SettlingInv
<1>2. finding[f].status \in Returnable
    BY <1>1, VerifiableIsReturnable
<1>3. Shows(u, f, "verify") /\ "verify" \in Buttons \ {"transfer"}
    BY <1>2 DEF Shows, Decisions, Buttons
<1> QED
    BY <1>3, ShownIsAccepted DEF Queued

\* ... as what waits for closing can be closed.
LEMMA ClosingIsDoable ==
    ASSUME SettlingInv, NEW u \in Users, NEW f \in Present, Unhindered(f), NEW d \in Dim,
           Closable(f)[d] > 0, finding[f].status \notin {"RECTIFICATION_RETURNED", "CLOSED"},
           May(u, "close", f)
    PROVE  Accepts(u, f, "close") /\ Queued(u, f)
<1>1. Shows(u, f, "close") /\ "close" \in Buttons \ {"transfer"}
    BY DEF Shows, Decisions, Buttons
<1> QED
    BY <1>1, ShownIsAccepted DEF Queued

\* What the branch has been sent and not yet rectified is outstanding.
LEMMA BranchOwes ==
    ASSUME FInv, NEW f \in Findings, Exists(f),
           finding[f].status \in {"SENT_TO_BRANCH_MANAGER", "PARTIALLY_RECTIFIED"}
    PROVE  Outstanding(f) # Zero
<1>1. /\ finding[f] \in GoodRow
      /\ finding[f].total \in Quantity /\ finding[f].rectified \in Quantity
      /\ \A d \in Dim : Outstanding(f)[d] = finding[f].total[d] - finding[f].rectified[d]
    BY WaitingMeans
<1>2. \E d \in Dim : finding[f].total[d] > finding[f].rectified[d]
    <2>1. CASE finding[f].status = "SENT_TO_BRANCH_MANAGER"
        <3>1. finding[f].total["cases"] >= 1 /\ finding[f].rectified = Zero
            BY <1>1, <2>1 DEF GoodRow
        <3> QED
            BY <1>1, <3>1, QuantityZero DEF Dim, Quantity
    <2>2. CASE finding[f].status = "PARTIALLY_RECTIFIED"
        BY <1>1, <2>2 DEF GoodRow, AtMost, Quantity
    <2> QED
        BY <2>1, <2>2
<1> QED
    BY <1>1, <1>2 DEF Quantity, Zero

\* A finding rectified as a whole and not yet closed has something to verify or
\* to close.
LEMMA RectifiedWaits ==
    ASSUME FInv, NEW f \in Findings, Exists(f), finding[f].status = "RECTIFIED"
    PROVE  \E d \in Dim : Verifiable(f)[d] > 0 \/ Closable(f)[d] > 0
<1>1. /\ finding[f] \in GoodRow
      /\ finding[f].total \in Quantity /\ finding[f].rectified \in Quantity
      /\ finding[f].verified \in Quantity /\ finding[f].closed \in Quantity
      /\ \A d \in Dim :
            /\ Verifiable(f)[d] = finding[f].rectified[d] - finding[f].verified[d]
            /\ Closable(f)[d] = finding[f].verified[d] - finding[f].closed[d]
    BY WaitingMeans
<1>2. AtMost(finding[f].total, finding[f].rectified) /\ ~AtMost(finding[f].total, finding[f].closed)
    BY <1>1 DEF GoodRow
<1>3. PICK d \in Dim : finding[f].closed[d] < finding[f].rectified[d]
    BY <1>1, <1>2 DEF AtMost, Quantity
<1> QED
    BY <1>1, <1>3 DEF Quantity

\* Nobody's finding: each status has somebody whose queue holds the finding and
\* who can do something about it.
LEMMA SomebodysFinding ==
    ASSUME Workable, Staffed, SettlingInv, AllAuthorised
    PROVE  NobodysFinding
<1> SUFFICES ASSUME NEW f \in Present, Unhindered(f),
                    finding[f].status \notin {"REJECTED", "CLOSED", "TRANSFERRED"}
             PROVE  \E u \in Users : Queued(u, f) /\ \E b \in Buttons : Accepts(u, f, b)
    BY DEF NobodysFinding
<1>1. f \in Findings /\ Exists(f) /\ FInv
    BY DEF Present, SettlingInv
<1>2. finding[f].status \in Status
    BY <1>1, Known DEF FindingRow
<1>3. CASE finding[f].status \in Editable
    BY <1>3, DraftsAreQueued DEF Buttons
<1>4. CASE finding[f].status \in Stages
    <2>1. PICK stage \in Stages : finding[f].status = stage
        BY <1>4
    <2>2. PICK u \in Users : May(u, stage, f) /\ (stage = "PENDING_BANK_APPROVAL" => u \in Approvers)
        BY <1>1, <2>1, ConstantsAssumption DEF Staffed, Stages, ConstantsAssumption
    <2> QED
        BY <2>1, <2>2, ReviewsAreQueued
<1>5. CASE finding[f].status \in BranchWork
    <2>1. PICK u \in Users : May(u, "rectify", f)
        BY <1>1 DEF Workable
    <2>2. Queued(u, f)
        BY <1>5, <2>1 DEF Queued
    <2>3. Accepts(u, f, "rectify") \/ Accepts(u, f, "resubmit")
        <3>1. CASE finding[f].status = "RECTIFICATION_RETURNED"
            <4>1. Shows(u, f, "resubmit") /\ "resubmit" \in Buttons \ {"transfer"}
                BY <2>1, <3>1 DEF Shows, Decisions, Buttons
            <4> QED
                BY <4>1, ShownIsAccepted
        <3>2. CASE finding[f].status # "RECTIFICATION_RETURNED"
            BY <1>1, <1>5, <2>1, <3>2, BranchWorkIsDoable, BranchOwes DEF BranchWork
        <3> QED
            BY <3>1, <3>2
    <2> QED
        BY <2>2, <2>3 DEF Buttons
<1>6. CASE finding[f].status = "RECTIFIED"
    <2>1. PICK d \in Dim : Verifiable(f)[d] > 0 \/ Closable(f)[d] > 0
        BY <1>1, <1>6, RectifiedWaits
    <2>2. CASE Verifiable(f)[d] > 0
        <3>1. PICK u \in Users : May(u, "verify-rectification", f)
            BY <1>1 DEF Staffed
        <3> QED
            BY <1>6, <2>2, <3>1, VerificationIsDoable DEF Buttons
    <2>3. CASE Closable(f)[d] > 0
        <3>1. PICK u \in Users : May(u, "close", f)
            BY <1>1 DEF Staffed
        <3> QED
            BY <1>6, <2>3, <3>1, ClosingIsDoable DEF Buttons
    <2> QED
        BY <2>1, <2>2, <2>3
<1> QED
    BY <1>2, <1>3, <1>4, <1>5, <1>6 DEF Status, Editable, Stages, BranchWork

\* What a card counts is its viewer's to do.
LEMMA CardsAreWork ==
    ASSUME Staffed, SettlingInv, AllAuthorised
    PROVE  CardsCanBeWorked
<1> SUFFICES ASSUME NEW u \in Users, NEW f \in Present \cap Scope[u], Unhindered(f)
             PROVE  /\ /\ f \in PendingApproval(u)
                       /\ Grants[u] \cap {"HO_REVIEW", "PENDING_BANK_APPROVAL"} # {}
                       => \E b \in Decisions : Accepts(u, f, b)
                    /\ f \in RequiringReview(Present, AllPeriods) /\ "DISTRICT_REVIEW" \in Grants[u]
                       => \E b \in Decisions : Accepts(u, f, b)
                    /\ f \in PendingVerify(Present) /\ "verify-rectification" \in Grants[u]
                       => Accepts(u, f, "verify")
                    /\ f \in PendingClose /\ "close" \in Grants[u]
                       => finding[f].status = "RECTIFICATION_RETURNED" \/ Accepts(u, f, "close")
                    /\ f \in PendingRectification(Present) /\ "rectify" \in Grants[u]
                       => Accepts(u, f, "rectify") \/ Accepts(u, f, "resubmit") \/ Outstanding(f) = Zero
                    /\ f \in OwnDrafts(u) => Accepts(u, f, "edit") /\ Accepts(u, f, "submit")
    BY DEF CardsCanBeWorked
<1>1. f \in Present /\ \A permission \in Grants[u] : May(u, permission, f)
    BY DEF May
<1>2. ASSUME NEW stage \in Stages, finding[f].status = stage, stage \in Grants[u],
             stage = "PENDING_BANK_APPROVAL" => u \in Approvers
      PROVE  \E b \in Decisions : Accepts(u, f, b)
    BY <1>1, <1>2, ReviewsAreQueued
<1>3. ASSUME f \in PendingApproval(u), Grants[u] \cap {"HO_REVIEW", "PENDING_BANK_APPROVAL"} # {}
      PROVE  \E b \in Decisions : Accepts(u, f, b)
    <2>1. "HO_REVIEW" \in Grants[u] /\ "PENDING_BANK_APPROVAL" \in Grants[u]
        BY <1>3 DEF Staffed
    <2> QED
        BY <1>2, <1>3, <2>1 DEF PendingApproval, Stages
<1>4. ASSUME f \in RequiringReview(Present, AllPeriods), "DISTRICT_REVIEW" \in Grants[u]
      PROVE  \E b \in Decisions : Accepts(u, f, b)
    BY <1>2, <1>4 DEF RequiringReview, FiledIn, Stages
<1>5. ASSUME f \in PendingVerify(Present), "verify-rectification" \in Grants[u]
      PROVE  Accepts(u, f, "verify")
    BY <1>1, <1>5, VerificationIsDoable DEF PendingVerify
<1>6. ASSUME f \in PendingClose, "close" \in Grants[u]
      PROVE  finding[f].status = "RECTIFICATION_RETURNED" \/ Accepts(u, f, "close")
    BY <1>1, <1>6, ClosingIsDoable DEF PendingClose
<1>7. ASSUME f \in PendingRectification(Present), "rectify" \in Grants[u]
      PROVE  Accepts(u, f, "rectify") \/ Accepts(u, f, "resubmit") \/ Outstanding(f) = Zero
    BY <1>1, <1>7, BranchWorkIsDoable DEF PendingRectification
<1>8. ASSUME f \in OwnDrafts(u) PROVE Accepts(u, f, "edit") /\ Accepts(u, f, "submit")
    BY <1>1, <1>8, DraftsAreQueued DEF OwnDrafts, Own, Editable
<1> QED
    BY <1>3, <1>4, <1>5, <1>6, <1>7, <1>8

\* What a card counts is in the queue beside it.
LEMMA CardsAreQueued ==
    ASSUME Staffed
    PROVE  CardsMirrorQueue
<1> SUFFICES ASSUME NEW u \in Users, NEW f \in Present \cap Scope[u]
             PROVE  /\ u \in BankUsers =>
                          (Queued(u, f) <=> \/ f \in PendingApproval(u) \cup PendingClose
                                            \/ finding[f].status \in Editable)
                    /\ "verify-rectification" \in Grants[u] /\ f \in PendingVerify(Present) => Queued(u, f)
                    /\ "rectify" \in Grants[u] /\ f \in PendingRectification(Present) => Queued(u, f)
                    /\ "edit" \in Grants[u] /\ f \in OwnDrafts(u) => Queued(u, f)
                    /\ f \in OwnPending(u) => \E v \in Users : Queued(v, f)
    BY DEF CardsMirrorQueue
<1>1. f \in Findings /\ \A permission : May(u, permission, f) <=> permission \in Grants[u]
    BY DEF May, Present
<1>2. ASSUME u \in BankUsers
      PROVE  Queued(u, f) <=> \/ f \in PendingApproval(u) \cup PendingClose
                              \/ finding[f].status \in Editable
    <2>1. /\ "edit" \in Grants[u] /\ "HO_REVIEW" \in Grants[u] /\ "close" \in Grants[u]
          /\ "DISTRICT_REVIEW" \notin Grants[u] /\ "rectify" \notin Grants[u]
          /\ "verify-rectification" \notin Grants[u] /\ "return-rectification" \notin Grants[u]
        BY <1>2 DEF Staffed
    <2>2. Queued(u, f) <=> \/ finding[f].status \in Editable
                           \/ finding[f].status = "HO_REVIEW"
                           \/ finding[f].status = "PENDING_BANK_APPROVAL" /\ u \in Approvers
                           \/ finding[f].status # "CLOSED" /\ \E d \in Dim : Closable(f)[d] > 0
        BY <1>1, <2>1 DEF Queued, Stages
    <2> QED
        BY <2>2 DEF PendingApproval, PendingClose
<1>3. ASSUME "verify-rectification" \in Grants[u], f \in PendingVerify(Present) PROVE Queued(u, f)
    BY <1>1, <1>3 DEF PendingVerify, Queued
<1>4. ASSUME "rectify" \in Grants[u], f \in PendingRectification(Present) PROVE Queued(u, f)
    BY <1>1, <1>4 DEF PendingRectification, Queued
<1>5. ASSUME "edit" \in Grants[u], f \in OwnDrafts(u) PROVE Queued(u, f)
    BY <1>1, <1>5 DEF OwnDrafts, Own, Queued, Editable
<1>6. ASSUME f \in OwnPending(u) PROVE \E v \in Users : Queued(v, f)
    <2>1. finding[f].status \in Stages
        BY <1>6 DEF OwnPending
    <2>2. CASE finding[f].status = "PENDING_BANK_APPROVAL"
        BY <1>1, <2>2, ConstantsAssumption DEF Staffed, Queued, ConstantsAssumption
    <2>3. CASE finding[f].status # "PENDING_BANK_APPROVAL"
        <3>1. PICK v \in Users : May(v, finding[f].status, f)
            BY <1>1, <2>1, <2>3 DEF Staffed, Stages
        <3> QED
            BY <2>1, <2>3, <3>1 DEF Queued
    <2> QED
        BY <2>2, <2>3
<1> QED
    BY <1>2, <1>3, <1>4, <1>5, <1>6

\* Work always finds the person it waits for: no finding is nobody's, what a
\* card counts can be done by its viewer, and the cards count what is queued.
THEOREM QueuesAlwaysLeadOn == ExactItems /\ Workable /\ Staffed => (ImportSpec => []QueueLeadsOn)
<1> SUFFICES ASSUME ExactItems, Workable, Staffed PROVE ImportSpec => []QueueLeadsOn
    OBVIOUS
<1>1. Init => SettlingInv /\ AllAuthorised
    BY InitSettlingInv DEF Init, TablesInit, AllAuthorised, Authorised
<1>2. SettlingInv /\ AllAuthorised /\ [ImportNext]_tables => SettlingInv' /\ AllAuthorised'
    <2>1. SUFFICES ASSUME SettlingInv, AllAuthorised, [ImportNext]_tables
                   PROVE  SettlingInv' /\ AllAuthorised'
        OBVIOUS
    <2>2. SettlingInv' /\ FInv
        BY <2>1, StepSettlingInv DEF SettlingInv
    <2>3. AllAuthorised'
        BY <2>1, <2>2, StepsAreShaped, AuthorisedStep DEF AllAuthorised
    <2> QED
        BY <2>2, <2>3
<1>3. SettlingInv /\ AllAuthorised => QueueLeadsOn
    BY SomebodysFinding, CardsAreWork, CardsAreQueued DEF QueueLeadsOn
<1> QED
    BY <1>1, <1>2, <1>3, TablesOfImports, PTL

-----------------------------------------------------------------------------
(* The periods of a dashboard add up. *)

\* A closure was made where the finding was: its period is one of the stays.
ClosedOnStay(row, cls, moves) ==
    row # NoFinding =>
        /\ \A i \in DOMAIN cls : StaysIn(moves, row.period, row.total, cls[i].period) # {}
        /\ row.status \in BeforeBranch => cls = <<>>

AllClosedOnStay == \A f \in Findings : ClosedOnStay(finding[f], closures[f], transfers[f])

\* A finding is where its last stay is.
LEMMA HomeIsStay ==
    ASSUME NEW moves \in Seq(TransferRow), NEW home \in Periods, NEW total \in Quantity,
           moves # <<>> => moves[Len(moves)].to = home
    PROVE  StaysIn(moves, home, total, home) # {}
<1>1. StillIn(moves, home, total, home)
    BY LastStayIsHome
<1> QED
    BY <1>1 DEF StillIn

\* One closure more is a closure of the stay the finding is in.
LEMMA ClosedMoreOnStay ==
    ASSUME FInv, PathsOK, AllClosedOnStay, NEW f \in Findings, ClosedMore(f)
    PROVE  ClosedOnStay(finding'[f], closures'[f], transfers'[f])
<1>1. PICK n \in Quantity : closures'[f] = Append(closures[f], ClosureOf(f, n))
    BY DEF ClosedMore
<1>2. /\ Exists(f) /\ finding'[f].total = finding[f].total /\ finding'[f].period = finding[f].period
      /\ finding'[f].status \notin BeforeBranch /\ transfers'[f] = transfers[f]
    BY DEF ClosedMore, Registered
<1>3. PICK total \in Quantity, home \in Periods : total = finding[f].total /\ home = finding[f].period
    BY <1>2, Known DEF FindingRow
<1>4. PICK c : c = ClosureOf(f, n)
    OBVIOUS
<1>5. PICK moves \in Seq(TransferRow), cls \in Seq(ClosureRow) : moves = transfers[f] /\ cls = closures[f]
    BY Ledgers
<1>6. moves # <<>> => moves[Len(moves)].to = home
    BY <1>2, <1>3, <1>5 DEF PathsOK, PathOK, Exists
<1>7. StaysIn(moves, home, total, home) # {}
    BY <1>6, HomeIsStay
<1>8. \A i \in DOMAIN cls : StaysIn(moves, home, total, cls[i].period) # {}
    BY <1>2, <1>3, <1>5 DEF AllClosedOnStay, ClosedOnStay, Exists
<1>9. PICK more : more = Append(cls, c)
    OBVIOUS
<1>10. /\ DOMAIN more = DOMAIN cls \cup {Len(cls) + 1} /\ more[Len(cls) + 1] = c
       /\ \A i \in DOMAIN cls : more[i] = cls[i]
    BY <1>9, OneRowMore
<1>11. c.period = home
    BY <1>3, <1>4 DEF ClosureOf
<1>12. \A i \in DOMAIN more : StaysIn(moves, home, total, more[i].period) # {}
    BY <1>7, <1>8, <1>10, <1>11
<1>13. closures'[f] = more
    BY <1>1, <1>4, <1>5, <1>9
<1> QED
    BY <1>2, <1>3, <1>5, <1>12, <1>13 DEF ClosedOnStay

\* A transfer ends no stay that was there.
LEMMA CarriedOnStay ==
    ASSUME FInv, PathsOK, AllClosedOnStay, NEW f \in Findings, Carried(f)
    PROVE  ClosedOnStay(finding'[f], closures'[f], transfers'[f])
<1>1. PICK q \in Periods : finding'[f].period = q /\ transfers'[f] = Append(transfers[f], Move(f, q))
    BY DEF Carried
<1>2. /\ Exists(f) /\ finding'[f].status = "TRANSFERRED" /\ finding'[f].total = finding[f].total
      /\ closures'[f] = closures[f]
    BY DEF Carried
<1>3. PICK m : m = Move(f, q)
    OBVIOUS
<1>4. PICK total \in Quantity, closed \in Quantity, home \in Periods :
          /\ total = finding[f].total /\ closed = finding[f].closed /\ home = finding[f].period
          /\ AtMost(closed, total)
    BY <1>2, AmountsKnown
<1>5. PICK moves \in Seq(TransferRow) : moves = transfers[f]
    BY Ledgers
<1>6. Minus(total, closed) \in Quantity
    BY <1>4, QuantityMinus
<1>7. m \in TransferRow /\ m.from = home /\ m.to = q
    BY <1>3, <1>4, <1>6 DEF Move, Unclosed, TransferRow
<1>8. PICK more : more = Append(moves, m)
    OBVIOUS
<1>9. /\ more \in Seq(TransferRow) /\ Len(more) = Len(moves) + 1 /\ more[Len(moves) + 1] = m
      /\ \A i \in 1..Len(moves) : more[i] = moves[i]
    BY <1>7, <1>8
<1>10. /\ moves \in Seq(Moving(Periods, Dim)) /\ total \in Amounts(Dim)
       /\ m \in Moving(Periods, Dim) /\ more \in Seq(Moving(Periods, Dim))
    BY <1>7, <1>9, TransfersMove
<1>11. ASSUME NEW p, StaysIn(moves, home, total, p) # {} PROVE StaysIn(more, m.to, total, p) # {}
    BY <1>7, <1>9, <1>10, <1>11, StaysRemain
<1>12. \A i \in DOMAIN closures[f] : StaysIn(moves, home, total, closures[f][i].period) # {}
    BY <1>2, <1>4, <1>5 DEF AllClosedOnStay, ClosedOnStay, Exists
<1>13. \A i \in DOMAIN closures[f] : StaysIn(more, q, total, closures[f][i].period) # {}
    BY <1>7, <1>11, <1>12
<1>14. transfers'[f] = more
    BY <1>1, <1>3, <1>5, <1>8
<1> QED
    BY <1>1, <1>2, <1>4, <1>13, <1>14 DEF ClosedOnStay, BeforeBranch

\* What is imported with a closure was closed in the first period it names.
LEMMA ImportedOnStay ==
    ASSUME FInv, FInv', NEW f \in Findings, BroughtIn(f)
    PROVE  ClosedOnStay(finding'[f], closures'[f], transfers'[f])
<1>1. PICK u \in Users, row \in ImportRows : CanImport(u, f, row) /\ DoImport(u, f, row)
    BY DEF BroughtIn
<1>2. PICK moved : moved = [from |-> row.period, to |-> row.to, qty |-> Minus(row.total, Declared(row))]
    OBVIOUS
<1>3. PICK c : c = [period |-> row.period, qty |-> Declared(row)]
    OBVIOUS
<1>4. /\ finding'[f].status = row.status
      /\ finding'[f].period = IF row.status = "TRANSFERRED" THEN row.to ELSE row.period
      /\ transfers'[f] = IF row.status = "TRANSFERRED" THEN <<moved>> ELSE <<>>
      /\ closures'[f] = IF Declared(row) = Zero THEN <<>> ELSE <<c>>
    BY <1>1, <1>2, <1>3 DEF DoImport, FInv, FindingsOK, LedgersOK
<1>5. row.status \notin BeforeBranch
    BY DEF ImportRows, ImportStatuses, BeforeBranch
<1>6. SUFFICES ASSUME NEW i \in DOMAIN closures'[f], finding'[f] # NoFinding
               PROVE  StaysIn(transfers'[f], finding'[f].period, finding'[f].total, row.period) # {}
    <2>1. \A i \in DOMAIN closures'[f] : closures'[f][i].period = row.period
        BY <1>3, <1>4
    <2> QED
        BY <1>4, <1>5, <1>6, <2>1 DEF ClosedOnStay
<1>7. PICK stays : stays = Stays(transfers'[f], finding'[f].period, finding'[f].total)
    OBVIOUS
<1>8. 1 \in DOMAIN stays /\ stays[1].period = row.period
    <2>1. CASE row.status = "TRANSFERRED"
        <3>1. PICK moves \in Seq(Moving(Periods, Dim)) : moves = transfers'[f]
            BY TransfersMove DEF FInv, LedgersOK
        <3>2. PICK home \in Periods, total \in Amounts(Dim) : home = finding'[f].period /\ total = finding'[f].total
            BY <1>6, TransfersMove DEF FInv, FindingsOK, GoodRow, FindingRow
        <3>3. moves # <<>> /\ moves[1].from = row.period
            BY <1>2, <1>4, <2>1, <3>1
        <3>4. stays = Stays(moves, home, total)
            BY <1>7, <3>1, <3>2
        <3>5. stays[1].period = moves[1].from
            BY <3>3, <3>4, FirstStay
        <3>6. DOMAIN stays = 1..(Len(moves) + 1) /\ Len(moves) \in Nat
            BY <3>4, StaysFollow
        <3> QED
            BY <3>3, <3>5, <3>6
    <2>2. CASE row.status # "TRANSFERRED"
        BY <1>4, <1>7, <2>2 DEF Stays
    <2> QED
        BY <2>1, <2>2
<1> QED
    BY <1>7, <1>8 DEF StaysIn

\* Each shape of a step keeps the closures of its finding on stays.
LEMMA ClosedOnStayStep ==
    ASSUME FInv, FInv', PathsOK, AllClosedOnStay, NEW f \in Findings, Shaped(f)
    PROVE  ClosedOnStay(finding'[f], closures'[f], transfers'[f])
<1>1. SUFFICES ASSUME finding'[f] # NoFinding PROVE ClosedOnStay(finding'[f], closures'[f], transfers'[f])
    BY DEF ClosedOnStay
<1>2. ClosedOnStay(finding[f], closures[f], transfers[f])
    BY DEF AllClosedOnStay
<1>3. CASE RowKept(f)
    BY <1>2, <1>3 DEF RowKept
<1>4. CASE Entered(f) \/ StartedOver(f)
    <2>1. closures'[f] = <<>>
        BY <1>4 DEF Entered, StartedOver, LedgersEmpty
    <2> QED
        BY <2>1 DEF ClosedOnStay
<1>5. CASE Amended(f)
    <2>1. closures'[f] = closures[f] /\ Exists(f) /\ finding[f].status \in BeforeBranch
        BY <1>5 DEF Amended, LedgersKept, Editable, BeforeBranch
    <2>2. closures'[f] = <<>>
        BY <1>2, <2>1 DEF ClosedOnStay, Exists
    <2> QED
        BY <2>2 DEF ClosedOnStay
<1>6. ~Dropped(f)
    BY <1>1 DEF Dropped
<1>7. CASE Restated(f) \/ RectifiedMore(f)
    <2>1. /\ Exists(f) /\ finding'[f].period = finding[f].period /\ finding'[f].total = finding[f].total
          /\ closures'[f] = closures[f] /\ transfers'[f] = transfers[f]
          /\ finding'[f].status \in BeforeBranch => finding[f].status \in BeforeBranch
        BY <1>7 DEF Restated, RectifiedMore, LedgersKept, Registered
    <2> QED
        BY <1>2, <2>1 DEF ClosedOnStay, Exists
<1> QED
    BY <1>3, <1>4, <1>5, <1>6, <1>7, ClosedMoreOnStay, CarriedOnStay, ImportedOnStay DEF Shaped

\* A period a finding was never in has no part of it, nothing closed of it, and
\* is not where it is.
LEMMA NeverStayedIn ==
    ASSUME FInv, PathsOK, AllClosedOnStay, NEW f \in Findings, Exists(f), NEW p \in Periods,
           StaysIn(transfers[f], finding[f].period, finding[f].total, p) = {}, NEW d \in Dim
    PROVE  Eligible(f, p, d) = 0 /\ ClosedIn(closures[f], p, d) = 0
<1>1. PICK total \in Quantity, home \in Periods : total = finding[f].total /\ home = finding[f].period
    BY Known DEF FindingRow
<1>2. PICK moves \in Seq(TransferRow), cls \in Seq(ClosureRow) : moves = transfers[f] /\ cls = closures[f]
    BY Ledgers
<1>3. StaysIn(moves, home, total, p) = {}
    BY <1>1, <1>2
<1>4. EligibleIn(moves, home, total, p, d) = 0
    <2>1. PICK stays : stays = Stays(moves, home, total)
        OBVIOUS
    <2>2. PICK n \in Nat : n = Len(moves) /\ DOMAIN stays = 1..(n + 1)
        <3>1. moves \in Seq(Moving(Periods, Dim)) /\ total \in Amounts(Dim)
            BY TransfersMove
        <3> QED
            BY <2>1, <3>1, StaysFollow
    <2>3. \A i \in DOMAIN stays : stays[i].period # p
        BY <1>3, <2>1 DEF StaysIn
    <2>4. PICK w : w = [i \in DOMAIN stays |-> IF stays[i].period = p THEN Kept(moves, home, total, i, d) ELSE 0]
        OBVIOUS
    <2>5. PICK m \in Nat : m = n + 1
        BY <2>2
    <2>6. w \in [1..m -> Int] /\ \A i \in 1..m : w[i] = 0
        BY <2>2, <2>3, <2>4, <2>5
    <2>7. SumOf(w) = 0
        BY <2>6, SumOfZeros
    <2> QED
        BY <2>1, <2>4, <2>7 DEF EligibleIn
<1>5. ClosedIn(cls, p, d) = 0
    <2>1. \A i \in DOMAIN cls : cls[i].period # p
        BY <1>1, <1>2, <1>3 DEF AllClosedOnStay, ClosedOnStay, Exists
    <2>2. PICK m \in Nat : m = Len(cls) /\ DOMAIN cls = 1..m
        OBVIOUS
    <2>3. PICK w : w = [i \in DOMAIN cls |-> IF cls[i].period \in {p} THEN cls[i].qty[d] ELSE 0]
        OBVIOUS
    <2>4. w \in [1..m -> Int] /\ \A i \in 1..m : w[i] = 0
        BY <2>1, <2>2, <2>3
    <2>5. SumOf(w) = 0
        BY <2>4, SumOfZeros
    <2> QED
        BY <2>3, <2>5 DEF ClosedIn, SumOfRows
<1> QED
    BY <1>1, <1>2, <1>4, <1>5 DEF Eligible

\* What a period has of a finding, and what it closed of it, are numbers, and
\* over the periods they are the finding's.
LEMMA PartsOfOne ==
    ASSUME FInv, PathsOK, NEW f \in Findings, Exists(f), NEW d \in Dim
    PROVE  /\ \A p \in Periods : Eligible(f, p, d) \in Int /\ ClosedIn(closures[f], p, d) \in Int
           /\ \A share : (\A p \in Periods : share[p] = Eligible(f, p, d)) =>
                 SumFunctionOnSet(share, Periods) = finding[f].total[d]
           /\ \A share : (\A p \in Periods : share[p] = ClosedIn(closures[f], p, d)) =>
                 SumFunctionOnSet(share, Periods) = finding[f].closed[d]
<1>1. PICK total \in Quantity, closed \in Quantity, home \in Periods :
          total = finding[f].total /\ closed = finding[f].closed /\ home = finding[f].period
    BY Known DEF FindingRow
<1>2. PICK moves \in Seq(TransferRow), cls \in Seq(ClosureRow) : moves = transfers[f] /\ cls = closures[f]
    BY Ledgers
<1>3. moves # <<>> => moves[Len(moves)].to = home
    BY <1>1, <1>2 DEF PathsOK, PathOK, Exists
<1>4. moves \in Seq(Moving(Periods, Dim)) /\ total \in Amounts(Dim) /\ IsFiniteSet(Periods)
    BY TransfersMove, ConstantsAssumption
<1>5. \A p \in Periods : Eligible(f, p, d) = EligibleIn(moves, home, total, p, d)
    BY <1>1, <1>2 DEF Eligible
<1>6. ASSUME NEW p \in Periods PROVE Eligible(f, p, d) \in Int
    <2>1. /\ EndedStays(moves, home, total, p, d) \in Int /\ Arrived(moves, total) \in Quantity
          /\ EligibleIn(moves, home, total, p, d)
                = EndedStays(moves, home, total, p, d)
                    + (IF home = p THEN Arrived(moves, total)[d] ELSE 0)
        BY <1>3, EligibleSplit
    <2>2. Arrived(moves, total)[d] \in Nat
        BY <2>1 DEF Quantity
    <2> QED
        BY <1>5, <2>1, <2>2
<1>7. \A y \in ClosureRow : y.qty[d] \in Nat
    BY DEF ClosureRow, Quantity
<1>8. ASSUME NEW p \in Periods PROVE ClosedIn(closures[f], p, d) \in Int
    <2>1. PICK m \in Nat : m = Len(cls) /\ DOMAIN cls = 1..m /\ \A i \in 1..m : cls[i] \in ClosureRow
        OBVIOUS
    <2>2. PICK w : w = [i \in DOMAIN cls |-> IF cls[i].period \in {p} THEN cls[i].qty[d] ELSE 0]
        OBVIOUS
    <2>3. w \in Seq(Nat)
        <3>1. \A i \in 1..m : w[i] \in Nat
            BY <1>7, <2>1, <2>2
        <3>2. DOMAIN w = 1..m /\ w = [i \in 1..m |-> w[i]]
            BY <2>1, <2>2
        <3> QED
            BY <3>1, <3>2
    <2>4. SumOf(w) \in Nat
        BY <2>3, SumOfNats
    <2> QED
        BY <1>2, <2>2, <2>4 DEF ClosedIn, SumOfRows
<1>9. ASSUME NEW share, \A p \in Periods : share[p] = Eligible(f, p, d)
      PROVE  SumFunctionOnSet(share, Periods) = finding[f].total[d]
    <2>1. \A p \in Periods : share[p] = EligibleIn(moves, home, total, p, d)
        BY <1>5, <1>9
    <2> QED
        BY <1>1, <1>4, <2>1, SharesOfStays
<1>10. ASSUME NEW share, \A p \in Periods : share[p] = ClosedIn(closures[f], p, d)
       PROVE  SumFunctionOnSet(share, Periods) = finding[f].closed[d]
    <2>1. \A p \in Periods : share[p] = ClosedIn(cls, p, d)
        BY <1>2, <1>10
    <2>2. \A y \in ClosureRow : y.qty[d] \in Int
        BY <1>7
    <2>3. SumFunctionOnSet(share, Periods) = SumOfRows(cls, Periods, d)
        BY <1>4, <2>1, <2>2, SharesOfLedger
    <2>4. SumOfRows(cls, Periods, d) = closed[d]
        BY <1>1, <1>2, Known DEF LedgersFit, Exists
    <2> QED
        BY <1>1, <2>3, <2>4
<1> QED
    BY <1>6, <1>8, <1>9, <1>10

\* The findings a dashboard counts
LEMMA CountedAre ==
    ASSUME FInv, NEW S \in SUBSET Present
    PROVE  /\ IsFiniteSet(S) /\ IsFiniteSet(Approved(S)) /\ Approved(S) \in SUBSET Present
           /\ Present \in SUBSET Findings /\ \A f \in Present : Exists(f)
           /\ \A p \in Periods : /\ Resident(S, p) \in SUBSET Approved(S)
                                 /\ \A f \in Approved(S) : f \in Resident(S, p) <=>
                                       StaysIn(transfers[f], finding[f].period, finding[f].total, p) # {}
<1>1. Present \in SUBSET Findings /\ \A f \in Present : Exists(f)
    BY DEF Present
<1>2. Approved(S) \in SUBSET S
    BY DEF Approved
<1>3. IsFiniteSet(S) /\ IsFiniteSet(Approved(S))
    <2>1. IsFiniteSet(Findings)
        BY ConstantsAssumption
    <2>2. IsFiniteSet(S)
        BY <1>1, <2>1, FS_Subset
    <2> QED
        BY <1>2, <2>2, FS_Subset
<1>4. \A p \in Periods : Resident(S, p) \in SUBSET Approved(S)
    BY DEF Resident
<1>5. \A p \in Periods, f \in Approved(S) : f \in Resident(S, p) <=>
         StaysIn(transfers[f], finding[f].period, finding[f].total, p) # {}
    BY DEF Resident
<1> QED
    BY <1>1, <1>2, <1>3, <1>4, <1>5

\* Cases and money: the periods' shares of the findings are the findings.
LEMMA EligibleSpreads ==
    ASSUME FInv, PathsOK, AllClosedOnStay, NEW S \in SUBSET Present, NEW d \in Dim,
           NEW shown, \A p \in Periods :
               shown[p] = SumFunction([f \in Resident(S, p) |-> Eligible(f, p, d)])
    PROVE  SumFunctionOnSet(shown, Periods) = SumFunction([f \in Approved(S) |-> finding[f].total[d]])
<1>1. PICK F : F = Approved(S)
    OBVIOUS
<1>2. IsFiniteSet(F) /\ IsFiniteSet(Periods) /\ \A f \in F : f \in Findings /\ Exists(f)
    BY <1>1, CountedAre, ConstantsAssumption
<1>3. PICK m : m = [f \in F |-> [p \in Periods |-> Eligible(f, p, d)]]
    OBVIOUS
<1>4. \A f \in F, p \in Periods : m[f][p] = Eligible(f, p, d)
    BY <1>3
<1>5. \A f \in F, p \in Periods : m[f][p] \in Int
    BY <1>2, <1>4, PartsOfOne
<1>6. PICK whole : whole = [f \in F |-> finding[f].total[d]]
    OBVIOUS
<1>7. \A f \in F : whole[f] = SumFunctionOnSet(m[f], Periods)
    <2>1. SUFFICES ASSUME NEW f \in F PROVE finding[f].total[d] = SumFunctionOnSet(m[f], Periods)
        BY <1>6
    <2>2. PICK share : share = m[f]
        OBVIOUS
    <2>3. \A p \in Periods : share[p] = Eligible(f, p, d)
        BY <1>4, <2>2
    <2> QED
        BY <1>2, <2>2, <2>3, PartsOfOne
<1>8. PICK there : there = [p \in Periods |-> Resident(S, p)]
    OBVIOUS
<1>9. \A p \in Periods : there[p] \in SUBSET F
    BY <1>1, <1>8, CountedAre
<1>10. \A f \in F, p \in Periods : f \notin there[p] => m[f][p] = 0
    <2>1. SUFFICES ASSUME NEW f \in F, NEW p \in Periods, f \notin Resident(S, p) PROVE Eligible(f, p, d) = 0
        BY <1>4, <1>8
    <2>2. StaysIn(transfers[f], finding[f].period, finding[f].total, p) = {}
        BY <1>1, <2>1, CountedAre
    <2> QED
        BY <1>2, <2>2, NeverStayedIn
<1>11. PICK figure : figure = [p \in Periods |-> [f \in Resident(S, p) |-> Eligible(f, p, d)]]
    OBVIOUS
<1>12. \A p \in Periods : figure[p] = [f \in Resident(S, p) |-> Eligible(f, p, d)]
    BY <1>11
<1>13. ASSUME NEW p \in Periods
       PROVE  DOMAIN figure[p] = there[p] /\ \A f \in there[p] : figure[p][f] = m[f][p]
    <2>1. PICK R \in SUBSET F : R = Resident(S, p)
        BY <1>8, <1>9
    <2>2. figure[p] = [f \in R |-> Eligible(f, p, d)] /\ there[p] = R
        BY <1>8, <1>12, <2>1
    <2> QED
        BY <1>4, <2>1, <2>2
<1>14. \A p \in Periods : shown[p] = SumFunction(figure[p])
    BY <1>12
<1>15. SumFunctionOnSet(shown, Periods) = SumFunctionOnSet(whole, F)
    <2>1. \A p \in Periods : DOMAIN figure[p] = there[p]
        BY <1>13
    <2>2. \A p \in Periods : \A f \in there[p] : figure[p][f] = m[f][p]
        BY <1>13
    <2>3. DealtOut(m, whole, F, Periods)
        BY <1>5, <1>7 DEF DealtOut
    <2>4. ShowsThere(shown, figure, there, m, F, Periods)
        BY <1>9, <1>10, <1>14, <2>1, <2>2 DEF ShowsThere
    <2> QED
        BY <1>2, <2>3, <2>4, SumsSpread
<1> QED
    BY <1>1, <1>6, <1>15 DEF SumFunction

\* What the periods closed is what was closed.
LEMMA ClosedSpreads ==
    ASSUME FInv, PathsOK, AllClosedOnStay, NEW S \in SUBSET Present, NEW d \in Dim,
           NEW shown, \A p \in Periods :
               shown[p] = SumFunction([f \in Resident(S, p) |-> ClosedIn(closures[f], p, d)])
    PROVE  SumFunctionOnSet(shown, Periods) = SumFunction([f \in Approved(S) |-> finding[f].closed[d]])
<1>1. PICK F : F = Approved(S)
    OBVIOUS
<1>2. IsFiniteSet(F) /\ IsFiniteSet(Periods) /\ \A f \in F : f \in Findings /\ Exists(f)
    BY <1>1, CountedAre, ConstantsAssumption
<1>3. PICK m : m = [f \in F |-> [p \in Periods |-> ClosedIn(closures[f], p, d)]]
    OBVIOUS
<1>4. \A f \in F, p \in Periods : m[f][p] = ClosedIn(closures[f], p, d)
    BY <1>3
<1>5. \A f \in F, p \in Periods : m[f][p] \in Int
    BY <1>2, <1>4, PartsOfOne
<1>6. PICK whole : whole = [f \in F |-> finding[f].closed[d]]
    OBVIOUS
<1>7. \A f \in F : whole[f] = SumFunctionOnSet(m[f], Periods)
    <2>1. SUFFICES ASSUME NEW f \in F PROVE finding[f].closed[d] = SumFunctionOnSet(m[f], Periods)
        BY <1>6
    <2>2. PICK share : share = m[f]
        OBVIOUS
    <2>3. \A p \in Periods : share[p] = ClosedIn(closures[f], p, d)
        BY <1>4, <2>2
    <2> QED
        BY <1>2, <2>2, <2>3, PartsOfOne
<1>8. PICK there : there = [p \in Periods |-> Resident(S, p)]
    OBVIOUS
<1>9. \A p \in Periods : there[p] \in SUBSET F
    BY <1>1, <1>8, CountedAre
<1>10. \A f \in F, p \in Periods : f \notin there[p] => m[f][p] = 0
    <2>1. SUFFICES ASSUME NEW f \in F, NEW p \in Periods, f \notin Resident(S, p) PROVE ClosedIn(closures[f], p, d) = 0
        BY <1>4, <1>8
    <2>2. StaysIn(transfers[f], finding[f].period, finding[f].total, p) = {}
        BY <1>1, <2>1, CountedAre
    <2> QED
        BY <1>2, <2>2, NeverStayedIn
<1>11. PICK figure : figure = [p \in Periods |-> [f \in Resident(S, p) |-> ClosedIn(closures[f], p, d)]]
    OBVIOUS
<1>12. \A p \in Periods : figure[p] = [f \in Resident(S, p) |-> ClosedIn(closures[f], p, d)]
    BY <1>11
<1>13. ASSUME NEW p \in Periods
       PROVE  DOMAIN figure[p] = there[p] /\ \A f \in there[p] : figure[p][f] = m[f][p]
    <2>1. PICK R \in SUBSET F : R = Resident(S, p)
        BY <1>8, <1>9
    <2>2. figure[p] = [f \in R |-> ClosedIn(closures[f], p, d)] /\ there[p] = R
        BY <1>8, <1>12, <2>1
    <2> QED
        BY <1>4, <2>1, <2>2
<1>14. \A p \in Periods : shown[p] = SumFunction(figure[p])
    BY <1>12
<1>15. SumFunctionOnSet(shown, Periods) = SumFunctionOnSet(whole, F)
    <2>1. \A p \in Periods : DOMAIN figure[p] = there[p]
        BY <1>13
    <2>2. \A p \in Periods : \A f \in there[p] : figure[p][f] = m[f][p]
        BY <1>13
    <2>3. DealtOut(m, whole, F, Periods)
        BY <1>5, <1>7 DEF DealtOut
    <2>4. ShowsThere(shown, figure, there, m, F, Periods)
        BY <1>9, <1>10, <1>14, <2>1, <2>2 DEF ShowsThere
    <2> QED
        BY <1>2, <2>3, <2>4, SumsSpread
<1> QED
    BY <1>1, <1>6, <1>15 DEF SumFunction

\* A closed finding counts in the one period it is still in.
LEMMA ClosedFindingsSpread ==
    ASSUME FInv, PathsOK, NEW S \in SUBSET Present,
           NEW shown, \A p \in Periods :
               shown[p] = Cardinality({f \in Resident(S, p) :
                             /\ StillIn(transfers[f], finding[f].period, finding[f].total, p)
                             /\ finding[f].status = "CLOSED"})
    PROVE  SumFunctionOnSet(shown, Periods) = Cardinality({f \in Approved(S) : finding[f].status = "CLOSED"})
<1>1. PICK C : C = {f \in Approved(S) : finding[f].status = "CLOSED"}
    OBVIOUS
<1>2. C \in SUBSET Approved(S) /\ IsFiniteSet(C) /\ IsFiniteSet(Periods)
    BY <1>1, CountedAre, ConstantsAssumption, FS_Subset
<1>3. \A f \in C : f \in Findings /\ Exists(f)
    BY <1>2, CountedAre
<1>4. PICK key : key = [f \in C |-> finding[f].period]
    OBVIOUS
<1>5. \A f \in C : key[f] \in Periods
    BY <1>3, <1>4, Known DEF FindingRow
<1>6. ASSUME NEW p \in Periods, NEW f \in C
      PROVE  /\ StillIn(transfers[f], finding[f].period, finding[f].total, p) <=> key[f] = p
             /\ key[f] = p => f \in Resident(S, p)
    <2>1. /\ finding[f].period \in Periods /\ finding[f].total \in Quantity
          /\ transfers[f] \in Seq(TransferRow)
        BY <1>3, <1>6, Known, Ledgers DEF FindingRow
    <2>2. transfers[f] # <<>> => transfers[f][Len(transfers[f])].to = finding[f].period
        BY <1>3, <1>6 DEF PathsOK, PathOK, Exists
    <2>3. StillIn(transfers[f], finding[f].period, finding[f].total, p) <=> p = finding[f].period
        BY <2>1, <2>2, LastStayIsHome
    <2>4. key[f] = p => StaysIn(transfers[f], finding[f].period, finding[f].total, p) # {}
        BY <1>4, <2>3 DEF StillIn
    <2>5. key[f] = p => f \in Resident(S, p)
        BY <1>2, <2>4, CountedAre
    <2> QED
        BY <1>4, <2>3, <2>5
<1>7. ASSUME NEW p \in Periods PROVE shown[p] = Cardinality(Keyed(C, key, p))
    <2>1. PICK R \in SUBSET Approved(S) : R = Resident(S, p)
        BY CountedAre
    <2>2. \A f \in R : finding[f].status = "CLOSED" <=> f \in C
        BY <1>1, <2>1
    <2>3. PICK X : X = {f \in R : /\ StillIn(transfers[f], finding[f].period, finding[f].total, p)
                                  /\ finding[f].status = "CLOSED"}
        OBVIOUS
    <2>4. \A f \in C : f \in X <=> key[f] = p
        BY <1>6, <2>1, <2>2, <2>3
    <2>5. X \in SUBSET C
        BY <2>2, <2>3
    <2>6. X = Keyed(C, key, p)
        BY <2>4, <2>5 DEF Keyed
    <2> QED
        BY <2>1, <2>3, <2>6
<1>8. \A p \in Periods : shown[p] = Cardinality(Keyed(C, key, p))
    BY <1>7
<1>9. Cardinality(C) = SumFunctionOnSet(shown, Periods)
    BY <1>2, <1>5, <1>8, CountByKey
<1> QED
    BY <1>1, <1>9

\* The transfers of a set of findings, each with its finding
HopsOf(f) == {[finding |-> f, row |-> i] : i \in DOMAIN transfers[f]}

Hops(S) == UNION {HopsOf(f) : f \in S}

\* There are finitely many, each from one of the periods.
LEMMA HopsAre ==
    ASSUME FInv, NEW S \in SUBSET Present
    PROVE  /\ IsFiniteSet(Hops(S))
           /\ \A h \in Hops(S) : /\ transfers[h.finding][h.row].from \in Periods
                                 /\ transfers[h.finding][h.row].qty["cases"] \in Int
<1>1. IsFiniteSet(S) /\ S \in SUBSET Findings
    BY CountedAre
<1>2. ASSUME NEW f \in S PROVE IsFiniteSet(HopsOf(f))
    <2>1. PICK n \in Nat : n = Len(transfers[f]) /\ DOMAIN transfers[f] = 1..n
        BY <1>1, <1>2, Ledgers
    <2>2. PICK T : T = HopsOf(f)
        OBVIOUS
    <2>3. PICK number : number = [i \in 1..n |-> [finding |-> f, row |-> i]]
        OBVIOUS
    <2>4. number \in Surjection(1..n, T)
        <3>1. number \in [1..n -> T]
            BY <2>1, <2>2, <2>3 DEF HopsOf
        <3>2. \A t \in T : \E i \in 1..n : number[i] = t
            BY <2>1, <2>2, <2>3 DEF HopsOf
        <3> QED
            BY <3>1, <3>2 DEF Surjection
    <2>5. IsFiniteSet(1..n)
        BY FS_Interval
    <2> QED
        BY <2>2, <2>4, <2>5, FS_Surjection
<1>3. IsFiniteSet(Hops(S))
    <2>1. PICK T : T = {HopsOf(f) : f \in S}
        OBVIOUS
    <2>2. PICK each : each = [f \in S |-> HopsOf(f)]
        OBVIOUS
    <2>3. each \in Surjection(S, T)
        <3>1. each \in [S -> T]
            BY <2>1, <2>2
        <3>2. \A t \in T : \E f \in S : each[f] = t
            BY <2>1, <2>2
        <3> QED
            BY <3>1, <3>2 DEF Surjection
    <2>4. IsFiniteSet(T)
        BY <1>1, <2>3, FS_Surjection
    <2>5. \A X \in T : IsFiniteSet(X)
        BY <1>2, <2>1
    <2>6. IsFiniteSet(UNION T)
        BY <2>4, <2>5, FS_UNION
    <2> QED
        BY <2>1, <2>6 DEF Hops
<1>4. ASSUME NEW h \in Hops(S)
      PROVE  transfers[h.finding][h.row].from \in Periods /\ transfers[h.finding][h.row].qty["cases"] \in Int
    <2>1. PICK f \in S : h \in HopsOf(f)
        BY <1>4 DEF Hops
    <2>2. PICK i \in DOMAIN transfers[f] : h.finding = f /\ h.row = i
        BY <2>1 DEF HopsOf
    <2>3. PICK moves \in Seq(TransferRow) : moves = transfers[f]
        BY <1>1, Ledgers
    <2>4. PICK move \in TransferRow : move = moves[i]
        BY <2>2, <2>3
    <2>5. move.from \in Periods /\ move.qty["cases"] \in Int
        BY DEF TransferRow, Quantity, Dim
    <2> QED
        BY <2>2, <2>3, <2>4, <2>5
<1> QED
    BY <1>3, <1>4

\* What the periods handed on is what was handed on at all.
LEMMA TransfersSpread ==
    ASSUME FInv, NEW S \in SUBSET Present,
           NEW shown, \A p \in Periods : shown[p] = TransferTotals(S, p).transferredCases
    PROVE  SumFunctionOnSet(shown, Periods) = TransferTotals(S, AllPeriods).transferredCases
<1>1. PICK hops : hops = Hops(S)
    OBVIOUS
<1>2. IsFiniteSet(hops) /\ IsFiniteSet(Periods)
    BY <1>1, HopsAre, ConstantsAssumption
<1>3. PICK key : key = [h \in hops |-> transfers[h.finding][h.row].from]
    OBVIOUS
<1>4. PICK g : g = [h \in hops |-> transfers[h.finding][h.row].qty["cases"]]
    OBVIOUS
<1>5. /\ \A h \in hops : key[h] = transfers[h.finding][h.row].from /\ key[h] \in Periods
      /\ \A h \in hops : g[h] = transfers[h.finding][h.row].qty["cases"] /\ g[h] \in Int
    BY <1>1, <1>3, <1>4, HopsAre
<1>6. hops = UNION {{[finding |-> f, row |-> i] : i \in DOMAIN transfers[f]} : f \in S}
    BY <1>1 DEF Hops, HopsOf
<1>7. ASSUME NEW p
      PROVE  TransferTotals(S, p).transferredCases
                = SumFunction([h \in {x \in hops : p \in {AllPeriods, transfers[x.finding][x.row].from}}
                                 |-> transfers[h.finding][h.row].qty["cases"]])
    BY <1>6 DEF TransferTotals
<1>8. TransferTotals(S, AllPeriods).transferredCases = SumFunctionOnSet(g, hops)
    <2>1. {x \in hops : AllPeriods \in {AllPeriods, transfers[x.finding][x.row].from}} = hops
        OBVIOUS
    <2>2. TransferTotals(S, AllPeriods).transferredCases = SumFunction(g)
        BY <1>4, <1>7, <2>1
    <2>3. DOMAIN g = hops
        BY <1>4
    <2> QED
        BY <2>2, <2>3 DEF SumFunction
<1>9. ASSUME NEW p \in Periods PROVE shown[p] = SumFunctionOnSet(g, Keyed(hops, key, p))
    <2>1. PICK out : out = Keyed(hops, key, p)
        OBVIOUS
    <2>2. {x \in hops : p \in {AllPeriods, transfers[x.finding][x.row].from}} = out
        BY <1>5, <2>1, PeriodNames DEF Keyed
    <2>3. PICK h : h = [x \in out |-> transfers[x.finding][x.row].qty["cases"]]
        OBVIOUS
    <2>4. TransferTotals(S, p).transferredCases = SumFunction(h)
        BY <1>7, <2>2, <2>3
    <2>5. DOMAIN h = out
        BY <2>3
    <2>6. out \in SUBSET hops
        BY <2>1 DEF Keyed
    <2>7. IsFiniteSet(out) /\ \A x \in out : g[x] \in Int
        BY <1>2, <1>5, <2>6, FS_Subset
    <2>8. \A x \in out : h[x] = g[x]
        BY <1>5, <2>3, <2>6
    <2>9. SumFunctionOnSet(h, out) = SumFunctionOnSet(g, out)
        BY <2>7, <2>8, SumOnSame
    <2> QED
        BY <2>1, <2>4, <2>5, <2>9 DEF SumFunction
<1>10. \A p \in Periods : shown[p] = SumFunctionOnSet(g, Keyed(hops, key, p))
    BY <1>9
<1>11. (\A h \in hops : key[h] \in Periods) /\ (\A h \in hops : g[h] \in Int)
    BY <1>5
<1>12. SumFunctionOnSet(g, hops) = SumFunctionOnSet(shown, Periods)
    BY <1>2, <1>10, <1>11, SumOnByKey
<1> QED
    BY <1>8, <1>12

\* Figure by figure, the headlines of the periods add up to the lifetime's.
LEMMA HeadlinesSpread ==
    ASSUME FInv, PathsOK, AllClosedOnStay, NEW S \in SUBSET Present,
           NEW k \in {"cases", "closedFindings", "closedCases", "total", "resolved", "transferredCases"},
           NEW shown, \A p \in Periods : shown[p] = Headline(S, p)[k]
    PROVE  SumFunctionOnSet(shown, Periods) = Headline(S, AllPeriods)[k]
<1>1. ASSUME NEW p \in Periods PROVE p # AllPeriods
    BY PeriodNames
<1>2. "cases" \in Dim /\ "amount" \in Dim
    BY DEF Dim
<1>3. CASE k = "cases"
    <2>1. \A p \in Periods :
             shown[p] = SumFunction([f \in Resident(S, p) |-> Eligible(f, p, "cases")])
        BY <1>1, <1>3 DEF Headline, TotalledIn
    <2>2. Headline(S, AllPeriods)[k] = SumFunction([f \in Approved(S) |-> finding[f].total["cases"]])
        BY <1>3 DEF Headline, Totalled
    <2> QED
        BY <1>2, <2>1, <2>2, EligibleSpreads
<1>4. CASE k = "closedCases"
    <2>1. \A p \in Periods :
             shown[p] = SumFunction([f \in Resident(S, p) |-> ClosedIn(closures[f], p, "cases")])
        BY <1>1, <1>4 DEF Headline, TotalledIn
    <2>2. Headline(S, AllPeriods)[k] = SumFunction([f \in Approved(S) |-> finding[f].closed["cases"]])
        BY <1>4 DEF Headline, Totalled
    <2> QED
        BY <1>2, <2>1, <2>2, ClosedSpreads
<1>5. CASE k = "total"
    <2>1. \A p \in Periods :
             shown[p] = SumFunction([f \in Resident(S, p) |-> Eligible(f, p, "amount")])
        BY <1>1, <1>5 DEF Headline, MoneyIn
    <2>2. Headline(S, AllPeriods)[k] = SumFunction([f \in Approved(S) |-> finding[f].total["amount"]])
        BY <1>5 DEF Headline, Money
    <2> QED
        BY <1>2, <2>1, <2>2, EligibleSpreads
<1>6. CASE k = "resolved"
    <2>1. \A p \in Periods :
             shown[p] = SumFunction([f \in Resident(S, p) |-> ClosedIn(closures[f], p, "amount")])
        BY <1>1, <1>6 DEF Headline, MoneyIn
    <2>2. Headline(S, AllPeriods)[k] = SumFunction([f \in Approved(S) |-> finding[f].closed["amount"]])
        BY <1>6 DEF Headline, Money
    <2> QED
        BY <1>2, <2>1, <2>2, ClosedSpreads
<1>7. CASE k = "closedFindings"
    <2>1. \A p \in Periods :
             shown[p] = Cardinality({f \in Resident(S, p) :
                           /\ StillIn(transfers[f], finding[f].period, finding[f].total, p)
                           /\ finding[f].status = "CLOSED"})
        BY <1>1, <1>7 DEF Headline, TotalledIn
    <2>2. Headline(S, AllPeriods)[k] = Cardinality({f \in Approved(S) : finding[f].status = "CLOSED"})
        BY <1>7 DEF Headline, Totalled
    <2> QED
        BY <2>1, <2>2, ClosedFindingsSpread
<1>8. CASE k = "transferredCases"
    <2>1. \A p \in Periods : shown[p] = TransferTotals(S, p).transferredCases
        BY <1>8 DEF Headline
    <2>2. Headline(S, AllPeriods)[k] = TransferTotals(S, AllPeriods).transferredCases
        BY <1>8 DEF Headline
    <2> QED
        BY <2>1, <2>2, TransfersSpread
<1> QED
    BY <1>3, <1>4, <1>5, <1>6, <1>7, <1>8

\* A dashboard whose cards begin with that headline adds up over the periods.
LEMMA CardsAddUp ==
    ASSUME FInv, PathsOK, AllClosedOnStay, NEW S \in SUBSET Present,
           NEW shown, DOMAIN shown = Periods, \A p \in Periods : shown[p].headline = Headline(S, p),
           NEW lifetime, lifetime.headline = Headline(S, AllPeriods)
    PROVE  PeriodsAddUp(shown, lifetime)
<1>1. SUFFICES ASSUME NEW k \in {"cases", "closedFindings", "closedCases", "total", "resolved",
                                 "transferredCases"}
               PROVE  SumFunction([p \in Periods |-> shown[p].headline[k]]) = lifetime.headline[k]
    BY DEF PeriodsAddUp
<1>2. PICK figure : figure = [p \in Periods |-> shown[p].headline[k]]
    OBVIOUS
<1>3. DOMAIN figure = Periods /\ \A p \in Periods : figure[p] = Headline(S, p)[k]
    BY <1>2
<1>4. SumFunctionOnSet(figure, Periods) = Headline(S, AllPeriods)[k]
    BY <1>3, HeadlinesSpread
<1> QED
    BY <1>2, <1>3, <1>4 DEF SumFunction

\* What is below the headline shows the same totals; and an approved finding is
\* outstanding, or was rectified completely.
LEMMA CardsMatch ==
    ASSUME FInv, NEW S \in SUBSET Present,
           NEW lifetime, lifetime.headline = Headline(S, AllPeriods),
           lifetime.outstandingFindings = OutstandingFindings(S, AllPeriods),
           lifetime.breakdown = BreakdownRow(S, AllPeriods)
    PROVE  BreakdownsMatch(S, lifetime)
<1>1. FiledIn(S, AllPeriods) = S
    BY DEF FiledIn
<1>2. BreakdownRow(S, AllPeriods)
        = [total |-> Totalled(S).cases, rectified |-> Totalled(S).closedCases,
           amount |-> Money(S).total, rectifiedAmount |-> Money(S).resolved]
    BY <1>1 DEF BreakdownRow, Totalled, Money
<1>3. PICK headline : headline = Headline(S, AllPeriods)
    OBVIOUS
<1>4. /\ headline.cases = Totalled(S).cases /\ headline.closedCases = Totalled(S).closedCases
      /\ headline.total = Money(S).total /\ headline.resolved = Money(S).resolved
    BY <1>3 DEF Headline
<1>5. lifetime.breakdown
        = [total |-> lifetime.headline.cases, rectified |-> lifetime.headline.closedCases,
           amount |-> lifetime.headline.total, rectifiedAmount |-> lifetime.headline.resolved]
    BY <1>2, <1>3, <1>4
<1>6. ASSUME NEW f \in Approved(S)
      PROVE  IF f \in lifetime.outstandingFindings THEN ~Covers(finding[f].closed, f)
             ELSE Covers(finding[f].rectified, f)
    <2>1. f \in Findings /\ Exists(f) /\ finding[f].status \in ApprovedOrLater
        BY <1>6, CountedAre DEF Approved
    <2>2. f \in lifetime.outstandingFindings <=> finding[f].status \notin {"RECTIFIED", "CLOSED", "REJECTED"}
        BY <1>1, <1>6 DEF OutstandingFindings
    <2>3. PICK row \in GoodRow : row = finding[f]
        BY <2>1, Known
    <2>4. /\ row.status = "RECTIFIED" => AtMost(row.total, row.rectified)
          /\ row.status = "CLOSED" <=> AtMost(row.total, row.closed)
          /\ row.status \in Status
          /\ row.total \in Quantity /\ row.closed \in Quantity /\ row.rectified \in Quantity
          /\ AtMost(row.closed, row.verified) /\ AtMost(row.verified, row.rectified)
          /\ row.verified \in Quantity
        BY <2>1, <2>3, Known DEF GoodRow, FindingRow
    <2>5. AtMost(row.total, row.closed) => AtMost(row.total, row.rectified)
        BY <2>4 DEF AtMost, Quantity
    <2> QED
        BY <2>1, <2>2, <2>3, <2>4, <2>5 DEF Covers, ApprovedOrLater
<1> QED
    BY <1>5, <1>6 DEF BreakdownsMatch

\* Together, for a dashboard of any kind
LEMMA DashboardConsistent ==
    ASSUME FInv, PathsOK, AllClosedOnStay, NEW S \in SUBSET Present,
           NEW shown, DOMAIN shown = Periods, \A p \in Periods : shown[p].headline = Headline(S, p),
           NEW lifetime, lifetime.headline = Headline(S, AllPeriods),
           lifetime.outstandingFindings = OutstandingFindings(S, AllPeriods),
           lifetime.breakdown = BreakdownRow(S, AllPeriods)
    PROVE  Consistent(S, shown, lifetime)
<1>1. PeriodsAddUp(shown, lifetime)
    BY CardsAddUp
<1>2. BreakdownsMatch(S, lifetime)
    BY CardsMatch
<1> QED
    BY <1>1, <1>2 DEF Consistent

\* The invariant gives the property on each of the four dashboards.
LEMMA TotalsGive == FInv /\ PathsOK /\ AllClosedOnStay => TotalsAddUp
<1> SUFFICES ASSUME FInv, PathsOK, AllClosedOnStay, NEW u \in Users
             PROVE  LET S == Scope[u] \cap Present
                    IN  /\ Consistent(S, [p \in Periods |-> HODashboard(u, S, p)], HODashboard(u, S, AllPeriods))
                        /\ Consistent(S, [p \in Periods |-> ExecutiveDashboard(u, S, p)],
                                      ExecutiveDashboard(u, S, AllPeriods))
                        /\ Consistent(S, [p \in Periods |-> DistrictDashboard(u, S, p)],
                                      DistrictDashboard(u, S, AllPeriods))
                        /\ Consistent(S, [p \in Periods |-> BranchDashboard(u, S, p)],
                                      BranchDashboard(u, S, AllPeriods))
    BY DEF TotalsAddUp
<1>1. PICK S \in SUBSET Present : S = Scope[u] \cap Present
    OBVIOUS
<1>2. Consistent(S, [p \in Periods |-> HODashboard(u, S, p)], HODashboard(u, S, AllPeriods))
    <2>1. PICK shown : shown = [p \in Periods |-> HODashboard(u, S, p)]
        OBVIOUS
    <2>2. PICK lifetime : lifetime = HODashboard(u, S, AllPeriods)
        OBVIOUS
    <2>3. DOMAIN shown = Periods /\ \A p \in Periods : shown[p].headline = Headline(S, p)
        BY <2>1 DEF HODashboard
    <2>4. /\ lifetime.headline = Headline(S, AllPeriods)
          /\ lifetime.outstandingFindings = OutstandingFindings(S, AllPeriods)
          /\ lifetime.breakdown = BreakdownRow(S, AllPeriods)
        BY <2>2 DEF HODashboard
    <2>5. Consistent(S, shown, lifetime)
        BY <2>3, <2>4, DashboardConsistent
    <2> QED
        BY <2>1, <2>2, <2>5
<1>3. Consistent(S, [p \in Periods |-> ExecutiveDashboard(u, S, p)], ExecutiveDashboard(u, S, AllPeriods))
    <2>1. PICK shown : shown = [p \in Periods |-> ExecutiveDashboard(u, S, p)]
        OBVIOUS
    <2>2. PICK lifetime : lifetime = ExecutiveDashboard(u, S, AllPeriods)
        OBVIOUS
    <2>3. DOMAIN shown = Periods /\ \A p \in Periods : shown[p].headline = Headline(S, p)
        BY <2>1 DEF ExecutiveDashboard
    <2>4. /\ lifetime.headline = Headline(S, AllPeriods)
          /\ lifetime.outstandingFindings = OutstandingFindings(S, AllPeriods)
          /\ lifetime.breakdown = BreakdownRow(S, AllPeriods)
        BY <2>2 DEF ExecutiveDashboard
    <2>5. Consistent(S, shown, lifetime)
        BY <2>3, <2>4, DashboardConsistent
    <2> QED
        BY <2>1, <2>2, <2>5
<1>4. Consistent(S, [p \in Periods |-> DistrictDashboard(u, S, p)], DistrictDashboard(u, S, AllPeriods))
    <2>1. PICK shown : shown = [p \in Periods |-> DistrictDashboard(u, S, p)]
        OBVIOUS
    <2>2. PICK lifetime : lifetime = DistrictDashboard(u, S, AllPeriods)
        OBVIOUS
    <2>3. DOMAIN shown = Periods /\ \A p \in Periods : shown[p].headline = Headline(S, p)
        BY <2>1 DEF DistrictDashboard
    <2>4. /\ lifetime.headline = Headline(S, AllPeriods)
          /\ lifetime.outstandingFindings = OutstandingFindings(S, AllPeriods)
          /\ lifetime.breakdown = BreakdownRow(S, AllPeriods)
        BY <2>2 DEF DistrictDashboard
    <2>5. Consistent(S, shown, lifetime)
        BY <2>3, <2>4, DashboardConsistent
    <2> QED
        BY <2>1, <2>2, <2>5
<1>5. Consistent(S, [p \in Periods |-> BranchDashboard(u, S, p)], BranchDashboard(u, S, AllPeriods))
    <2>1. PICK shown : shown = [p \in Periods |-> BranchDashboard(u, S, p)]
        OBVIOUS
    <2>2. PICK lifetime : lifetime = BranchDashboard(u, S, AllPeriods)
        OBVIOUS
    <2>3. DOMAIN shown = Periods /\ \A p \in Periods : shown[p].headline = Headline(S, p)
        BY <2>1 DEF BranchDashboard
    <2>4. /\ lifetime.headline = Headline(S, AllPeriods)
          /\ lifetime.outstandingFindings = OutstandingFindings(S, AllPeriods)
          /\ lifetime.breakdown = BreakdownRow(S, AllPeriods)
        BY <2>2 DEF BranchDashboard
    <2>5. Consistent(S, shown, lifetime)
        BY <2>3, <2>4, DashboardConsistent
    <2> QED
        BY <2>1, <2>2, <2>5
<1> QED
    BY <1>1, <1>2, <1>3, <1>4, <1>5

\* On every dashboard the periods add up to the lifetime figures, and the
\* breakdowns to the headline, however the findings were moved about.
THEOREM TotalsAlwaysAddUp == ImportSpec => []TotalsAddUp
<1>1. Init => RInv /\ AllClosedOnStay
    <2>1. ASSUME Init PROVE AllClosedOnStay
        BY <2>1 DEF Init, TablesInit, AllClosedOnStay, ClosedOnStay
    <2> QED
        BY <2>1, InitRInv
<1>2. (RInv /\ AllClosedOnStay) /\ [ImportNext]_tables => (RInv /\ AllClosedOnStay)'
    <2>1. SUFFICES ASSUME RInv, AllClosedOnStay, [ImportNext]_tables PROVE (RInv /\ AllClosedOnStay)'
        OBVIOUS
    <2>2. RInv'
        BY <2>1, StepRInv
    <2>3. AllClosedOnStay'
        <3>1. FInv /\ PathsOK /\ FInv'
            BY <2>1, <2>2 DEF RInv
        <3> QED
            BY <2>1, <3>1, StepsAreShaped, ClosedOnStayStep DEF AllClosedOnStay
    <2> QED
        BY <2>2, <2>3
<1>3. RInv /\ AllClosedOnStay => TotalsAddUp
    BY TotalsGive DEF RInv
<1> QED
    BY <1>1, <1>2, <1>3, TablesOfImports, PTL
=============================================================================
