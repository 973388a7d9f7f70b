------------------------------ MODULE CsvImport ------------------------------
(***************************************************************************)
(* "Import CSV" on an administrator's list: the rows of a file go to the   *)
(* create route one by one, each waiting for the answer to the one before, *)
(* and the dialog shows what became of each.  A row may be refused, by the *)
(* dialog or by the route; an answer may be lost after the row was created.*)
(***************************************************************************)
EXTENDS Naturals, Sequences

CONSTANT MaxRows        \* the longest file

VARIABLES
    open,       \* the dialog is on the screen
    rows,       \* how many rows of a parsed file it holds, 0 without one
    cancelled,  \* cancelRef
    run,        \* the import under way: the rows it read and their outcomes
    results,    \* the outcomes shown
    created     \* the rows the create route has taken from that import

csvVars == <<open, rows, cancelled, run, results, created>>

Idle == [of |-> 0, out |-> <<>>]
Running == run # Idle

CsvInit ==
    /\ open = FALSE /\ rows = 0 /\ cancelled = FALSE
    /\ run = Idle /\ results = <<>> /\ created = <<>>

OpenDialog ==
    /\ ~open /\ open' = TRUE
    /\ UNCHANGED <<rows, cancelled, run, results, created>>

\* reset(), after anything the caller wrote to cancelRef
Reset == rows' = 0 /\ results' = <<>> /\ cancelled' = FALSE

\* Cancel, the backdrop and Escape; an import under way is not told: reset()
\* takes the cancellation back at once.
CloseDialog ==
    /\ open /\ open' = FALSE
    /\ Reset
    /\ UNCHANGED <<run, created>>

\* A file that cannot be read, or has too many rows, leaves none
ChooseFile(n) ==
    /\ open /\ ~Running
    /\ rows' = n /\ results' = <<>> /\ cancelled' = FALSE
    /\ UNCHANGED <<open, run, created>>

\* The Import button is gone once there are results
StartRun ==
    /\ open /\ rows > 0 /\ results = <<>> /\ ~Running
    /\ run' = [of |-> rows, out |-> <<>>]
    /\ cancelled' = FALSE /\ created' = <<>>
    /\ UNCHANGED <<open, rows, results>>

Answered(ok) ==
    /\ run' = [run EXCEPT !.out = Append(@, ok)]
    /\ results' = run'.out

NextRow == Len(run.out) + 1
MoreToDo == NextRow <= run.of /\ ~cancelled

\* One row: created and said so, refused, or created and the answer lost
ImportRow ==
    /\ Running /\ MoreToDo
    /\ \/ Answered(TRUE) /\ created' = Append(created, NextRow)
       \/ Answered(FALSE) /\ UNCHANGED created
       \/ Answered(FALSE) /\ created' = Append(created, NextRow)
    /\ UNCHANGED <<open, rows, cancelled>>

EndRun ==
    /\ Running /\ ~MoreToDo
    /\ run' = Idle
    /\ UNCHANGED <<open, rows, cancelled, results, created>>

CsvNext ==
    \/ OpenDialog \/ CloseDialog \/ StartRun \/ ImportRow \/ EndRun
    \/ \E n \in 0..MaxRows : ChooseFile(n)

-----------------------------------------------------------------------------
\* Whatever was closed and opened again meanwhile: a row shown as added was
\* created, and no row of a file was sent to be created twice.
ResultsTrue ==
    /\ \A i \in DOMAIN results : results[i] => \E j \in DOMAIN created : created[j] = i
    /\ \A i, j \in DOMAIN created : i < j => created[i] < created[j]

\* Closing the dialog stops the import: it does not hold.
CancelStops == [][Len(created') > Len(created) => open]_csvVars
=============================================================================
