---------------------------- MODULE FindingImport ----------------------------
(***************************************************************************)
(* Historical findings: the rows of an import file, each carried straight  *)
(* to the place its record had reached elsewhere (validateImportRow and    *)
(* fastForwardHistoricalImport of src/lib/import.ts).  A row skips review, *)
(* takes any period, locked or not, and what it declares rectified counts  *)
(* as verified and closed at once.  Reversing an import takes its findings *)
(* away again, whatever has become of them (reverseImportBatch of          *)
(* src/lib/importReverse.ts).  Batches, references and files are in        *)
(* ImportHistory.                                                          *)
(***************************************************************************)
EXTENDS FindingDashboards

VARIABLE imported   \* the findings with an importBatchId

everything == <<tables, imported>>

ImportStatuses == {"SENT_TO_BRANCH_MANAGER", "TRANSFERRED", "CLOSED"}

\* A row's columns; "to" and "rectified" are read for TRANSFERRED only.
ImportRows ==
    [status : ImportStatuses, period : Periods, to : Periods, total : Totals, rectified : Entries]

\* Transferred To Period: another one, open and later
ValidDestination(row) ==
    /\ period[row.to].status = "OPEN"
    /\ period[row.to].at > period[row.period].at

\* Rectified Cases and Amount: less than everything, and neither of them all of
\* its kind, not even all of an amount of zero
ValidProgress(row) ==
    /\ AtMost(row.rectified, row.total)
    /\ \A d \in Dim : row.rectified[d] # row.total[d]

CanImport(u, f, row) ==
    /\ finding[f] = NoFinding
    /\ May(u, "import", f)
    /\ InUse(row.period)
    /\ row.total["cases"] >= 1
    /\ row.status = "TRANSFERRED" => ValidDestination(row) /\ ValidProgress(row)

\* What the row attests to have been rectified, verified and closed
Declared(row) ==
    CASE row.status = "CLOSED" -> row.total
      [] row.status = "TRANSFERRED" -> row.rectified
      [] OTHER -> Zero

DoImport(u, f, row) ==
    LET done == Declared(row)
        left == Minus(row.total, done)
        moves == row.status = "TRANSFERRED"
    IN  /\ finding' = [finding EXCEPT ![f] =
              [status |-> row.status, period |-> IF moves THEN row.to ELSE row.period,
               creator |-> u, total |-> row.total, rectified |-> done, verified |-> done,
               closed |-> done, items |-> <<>>, done |-> {}]]
        /\ rectifications' = [rectifications EXCEPT ![f] =
              IF done = Zero THEN <<>> ELSE <<[period |-> row.period, qty |-> done, after |-> 0]>>]
        /\ closures' = [closures EXCEPT ![f] =
              IF done = Zero THEN <<>> ELSE <<[period |-> row.period, qty |-> done]>>]
        /\ transfers' = [transfers EXCEPT ![f] =
              IF moves THEN <<[from |-> row.period, to |-> row.to, qty |-> left]>> ELSE <<>>]
        /\ imported' = imported \cup {f}
        /\ UNCHANGED <<period, signed>>

ImportRow(u, f) == \E row \in ImportRows : CanImport(u, f, row) /\ DoImport(u, f, row)

\* Which findings came in one file is ImportHistory's: S is any of them, all in
\* the user's scope, in whatever status and period they are by now.
CanReverse(u, S) == S # {} /\ S \subseteq imported /\ \A f \in S : May(u, "reverse-import", f)

\* The findings go with everything recorded against them; no period is asked.
DoReverse(S) ==
    /\ finding' = [f \in Findings |-> IF f \in S THEN NoFinding ELSE finding[f]]
    /\ rectifications' = [f \in Findings |-> IF f \in S THEN <<>> ELSE rectifications[f]]
    /\ closures' = [f \in Findings |-> IF f \in S THEN <<>> ELSE closures[f]]
    /\ transfers' = [f \in Findings |-> IF f \in S THEN <<>> ELSE transfers[f]]
    /\ signed' = [f \in Findings |-> IF f \in S THEN [v \in Users |-> "never"] ELSE signed[f]]
    /\ imported' = imported \ S
    /\ UNCHANGED period

ReverseImport(u, S) == CanReverse(u, S) /\ DoReverse(S)

ImportNext ==
    \/ Next /\ UNCHANGED imported
    \/ \E u \in Users, f \in Findings : ImportRow(u, f)
    \/ \E u \in Users, S \in SUBSET Findings : ReverseImport(u, S)

ImportSpec == Init /\ imported = {} /\ [][ImportNext]_everything

-----------------------------------------------------------------------------
(* What the workflow promises of a finding, whatever it goes through: the    *)
(* FindingLifecycle, with a finding's phase read off its status.             *)

PhaseOf(status) ==
    CASE status \in Editable -> "registering"
      [] status \in Stages -> "reviewing"
      [] status = "REJECTED" -> "rejected"
      [] status = "CLOSED" -> "settled"
      [] OTHER -> "owing"

record ==
    [f \in Findings |->
        IF Exists(f) THEN [phase |-> PhaseOf(finding[f].status), owed |-> finding[f].total,
                           paid |-> finding[f].closed]
                     ELSE [phase |-> "unknown"]]

Lifecycle ==
    INSTANCE FindingLifecycle WITH record <- record, backfilled <- imported, Findings <- Findings

\* Every step of the workflow, imports and their reversals included, is a step
\* of the lifecycle or invisible to it.
ImplementsLifecycle == Lifecycle!Spec

-----------------------------------------------------------------------------
(* Action properties. *)

\* f goes with the import that brought it.
Withdrawn(f) == f \in imported \ imported' /\ ~Exists(f)'

\* Once the branch has a finding it never goes back to registration or review,
\* what was registered is settled, and no route deletes it: one that was
\* registered here stays for good, and an imported one leaves only by the
\* reversal of its import.
BranchSideIsFinal ==
    [][\A f \in Findings :
          Exists(f) /\ finding[f].status \notin BeforeBranch =>
              \/ /\ Exists(f)'
                 /\ finding'[f].status \notin BeforeBranch
                 /\ finding'[f].total = finding[f].total
              \/ Withdrawn(f)]_everything

NothingLeft(f) ==
    rectifications'[f] = <<>> /\ closures'[f] = <<>> /\ transfers'[f] = <<>>

\* Progress is only ever undone as a whole: the counters and ledgers of a
\* finding grow, or a reopening wipes them all and keeps the transfers, or the
\* reversal of its import takes the finding with all its rows.
OnlyReopenUndoes ==
    [][\A f \in Findings : Exists(f) /\ finding[f].status \notin BeforeBranch =>
          \/ /\ Exists(f)'
             /\ AtMost(finding[f].rectified, finding'[f].rectified)
             /\ AtMost(finding[f].verified, finding'[f].verified)
             /\ AtMost(finding[f].closed, finding'[f].closed)
             /\ finding[f].status = "CLOSED" => finding'[f].status = "CLOSED"
             /\ IsPrefix(rectifications[f], rectifications'[f])
             /\ IsPrefix(closures[f], closures'[f])
             /\ IsPrefix(transfers[f], transfers'[f])
          \/ /\ Exists(f)'
             /\ finding'[f].status = "SENT_TO_BRANCH_MANAGER"
             /\ finding'[f].rectified = Zero /\ finding'[f].verified = Zero
             /\ finding'[f].closed = Zero /\ finding'[f].done = {}
             /\ rectifications'[f] = <<>> /\ closures'[f] = <<>>
             /\ transfers'[f] = transfers[f]
          \/ Withdrawn(f) /\ NothingLeft(f)]_everything

\* A locked period's rectification figures are frozen, for every finding that
\* is neither being imported (a row may bring what was rectified in a period
\* locked since) nor withdrawn with its import.
LockedRectificationsFrozen ==
    [][\A f \in Findings, p \in Periods :
          period[p].status = "LOCKED" /\ (f \in imported <=> f \in imported') =>
              Figures(rectifications'[f], p) = Figures(rectifications[f], p)]_everything
=============================================================================
