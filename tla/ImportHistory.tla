---------------------------- MODULE ImportHistory ----------------------------
(***************************************************************************)
(* The batches of imported findings, their original files and the numbers  *)
(* they use up (importRun.ts, importReverse.ts, the routes under           *)
(* api/findings/import, nextFindingReference of findings.ts), of one branch *)
(* in one period.  references.reference is unique, so a number is held by  *)
(* at most one finding; holder says by which.                              *)
(*                                                                         *)
(* Which rows a file has and what is wrong with them is left out: a run    *)
(* imports any number of its rows, duplicates having been confirmed.       *)
(***************************************************************************)
EXTENDS Naturals, FiniteSets, FiniteSetsExt

CONSTANTS
    Batches,        \* ids of import_batches; a batch's stored file has its name
    MaxNumber,      \* bound: numbers a run of the model may reach
    MaxRows,        \* bound: rows of one file
    Requests

VARIABLES
    calm,       \* no registration is caught between its read and its commit, and
                \* storage:cleanup --delete is run only while no import is under way
    holder,     \* holder[n]: nobody, a registered draft, or a batch's finding
    batch,      \* batch[b]: the row of import_batches, or Absent
    listed,     \* numbers the audit entries of deleted batches list
    disk,       \* the files in <STORAGE_DIR>/imports
    request,
    withdrawn   \* history: numbers of findings that a reversal removed

historyVars == <<calm, holder, batch, listed, disk, request, withdrawn>>

Numbers == 1..MaxNumber
Free == "free"
Draft == "draft"
Absent == [is |-> "absent"]
Idle == [is |-> "idle"]

Has(b) == batch[b] # Absent
Reversed(b) == Has(b) /\ batch[b].reversed
Live == {n \in Numbers : holder[n] # Free}
FindingsOf(b) == {n \in Numbers : holder[n] = b}

HistoryInit ==
    /\ calm \in BOOLEAN
    /\ holder = [n \in Numbers |-> Free]
    /\ batch = [b \in Batches |-> Absent]
    /\ listed = {} /\ disk = {} /\ withdrawn = {}
    /\ request = [r \in Requests |-> Idle]

Becomes(r, what) == request' = [request EXCEPT ![r] = what]
Underway(what) == \E r \in Requests : request[r].is = what

-----------------------------------------------------------------------------
(* findings.ts *)

\* The fault: the audit entries are not read
ReservedByBatches == UNION {batch[b].numbers : b \in {x \in Batches : Reversed(x)}}

\* Numbers no finding has any more and none may have again
Reserved == listed \cup UNION {batch[b].numbers : b \in {x \in Batches : Reversed(x)}}

NextReference == Max({0} \cup Live \cup Reserved) + 1

-----------------------------------------------------------------------------
(* POST and DELETE of findings: a draft takes the next number, and may go *)

Register(r) ==
    /\ request[r] = Idle /\ NextReference \in Numbers
    /\ IF calm
       THEN holder' = [holder EXCEPT ![NextReference] = Draft] /\ UNCHANGED request
       ELSE Becomes(r, [is |-> "registering", number |-> NextReference]) /\ UNCHANGED holder
    /\ UNCHANGED <<calm, batch, listed, disk, withdrawn>>

\* The unique index refuses a number that is held by now
SaveDraft(r) ==
    /\ request[r].is = "registering"
    /\ holder' = [holder EXCEPT ![request[r].number] = IF @ = Free THEN Draft ELSE @]
    /\ Becomes(r, Idle)
    /\ UNCHANGED <<calm, batch, listed, disk, withdrawn>>

DeleteDraft(n) ==
    /\ holder[n] = Draft
    /\ holder' = [holder EXCEPT ![n] = Free]
    /\ UNCHANGED <<calm, batch, listed, disk, request, withdrawn>>

-----------------------------------------------------------------------------
(* importRun.ts *)

Unused(b) ==
    /\ ~Has(b) /\ b \notin disk
    /\ \A r \in Requests : request[r].is \in {"importing", "forgetting", "unlinking"} => request[r].batch # b

\* After a dry run that found nothing wrong: the file is stored
RunImport(r, b) ==
    /\ request[r] = Idle /\ Unused(b)
    /\ calm => ~Underway("cleaning")
    /\ disk' = disk \cup {b}
    /\ Becomes(r, [is |-> "importing", batch |-> b])
    /\ UNCHANGED <<calm, holder, batch, listed, withdrawn>>

\* Rows that have become wrong since the dry run are counted and passed over,
\* so the batch is recorded even when none of them is imported.
SaveImport(r, count) ==
    LET numbers == NextReference..(NextReference + count - 1)
    IN  /\ request[r].is = "importing" /\ numbers \subseteq Numbers
        /\ holder' = [n \in Numbers |-> IF n \in numbers THEN request[r].batch ELSE holder[n]]
        /\ batch' = [batch EXCEPT ![request[r].batch] =
              [is |-> "batch", numbers |-> numbers, reversed |-> FALSE]]
        /\ Becomes(r, Idle)
        /\ UNCHANGED <<calm, listed, disk, withdrawn>>

DropImport(r) ==
    /\ request[r].is = "importing"
    /\ disk' = disk \ {request[r].batch}
    /\ Becomes(r, Idle)
    /\ UNCHANGED <<calm, holder, batch, listed, withdrawn>>

\* From the stored file of a reversed batch, which stays as it is
CanReimport(old) == Reversed(old) /\ old \in disk

Reimport(r, old, b) == CanReimport(old) /\ RunImport(r, b)

-----------------------------------------------------------------------------
(* importReverse.ts and [batchId]/route.ts *)

\* loadBatch, on the first read and again inside the update
CanReverse(b) == Has(b) /\ ~batch[b].reversed

ReverseBatch(r, b, deleteRecord) ==
    /\ request[r] = Idle /\ CanReverse(b)
    /\ holder' = [n \in Numbers |-> IF holder[n] = b THEN Free ELSE holder[n]]
    /\ withdrawn' = withdrawn \cup FindingsOf(b)
    /\ IF deleteRecord
       THEN /\ batch' = [batch EXCEPT ![b] = Absent]
            /\ listed' = listed \cup FindingsOf(b)
            /\ Becomes(r, [is |-> "unlinking", batch |-> b])
       ELSE /\ batch' = [batch EXCEPT ![b].reversed = TRUE]
            /\ UNCHANGED <<calm, listed, request>>
    /\ UNCHANGED <<calm, disk>>

\* "Only once its findings are gone": checked on the first read
CanForget(b) == Has(b) /\ (batch[b].reversed \/ FindingsOf(b) = {})

AskForget(r, b) ==
    /\ request[r] = Idle /\ CanForget(b)
    /\ Becomes(r, [is |-> "forgetting", batch |-> b, numbers |-> batch[b].numbers])
    /\ UNCHANGED <<calm, holder, batch, listed, disk, withdrawn>>

Forget(r) ==
    /\ request[r].is = "forgetting"
    /\ batch' = [batch EXCEPT ![request[r].batch] = Absent]
    /\ listed' = listed \cup request[r].numbers
    /\ Becomes(r, [is |-> "unlinking", batch |-> request[r].batch])
    /\ UNCHANGED <<calm, holder, disk, withdrawn>>

UnlinkOriginal(r) ==
    /\ request[r].is = "unlinking"
    /\ disk' = disk \ {request[r].batch}
    /\ Becomes(r, Idle)
    /\ UNCHANGED <<calm, holder, batch, listed, withdrawn>>

-----------------------------------------------------------------------------
(* scripts/storage-cleanup.ts --delete: the batches are read first, the folder is listed after *)

ReadBatches(r) ==
    /\ request[r] = Idle
    /\ calm => ~Underway("importing")
    /\ Becomes(r, [is |-> "cleaning", referenced |-> {b \in Batches : Has(b)}])
    /\ UNCHANGED <<calm, holder, batch, listed, disk, withdrawn>>

RemoveOrphans(r) ==
    /\ request[r].is = "cleaning"
    /\ disk' = disk \cap request[r].referenced
    /\ Becomes(r, Idle)
    /\ UNCHANGED <<calm, holder, batch, listed, withdrawn>>

-----------------------------------------------------------------------------
CrashOfServer ==
    /\ \E r \in Requests : request[r] # Idle
    /\ request' = [r \in Requests |-> Idle]
    /\ UNCHANGED <<calm, holder, batch, listed, disk, withdrawn>>

HistoryNext ==
    \/ \E r \in Requests :
        \/ Register(r) \/ SaveDraft(r)
        \/ \E b \in Batches :
            \/ RunImport(r, b) \/ AskForget(r, b)
            \/ \E old \in Batches : Reimport(r, old, b)
            \/ \E deleteRecord \in BOOLEAN : ReverseBatch(r, b, deleteRecord)
        \/ \E count \in 0..MaxRows : SaveImport(r, count)
        \/ DropImport(r) \/ Forget(r) \/ UnlinkOriginal(r)
        \/ ReadBatches(r) \/ RemoveOrphans(r)
    \/ \E n \in Numbers : DeleteDraft(n)
    \/ CrashOfServer

-----------------------------------------------------------------------------
(* findings/import/page.tsx: the buttons beside a batch *)

ShowsReverse(b) == Has(b) /\ ~batch[b].reversed /\ batch[b].numbers # {}
ShowsReimport(b) == Has(b) /\ batch[b].reversed
ShowsDeleteRecord(b) == Has(b) /\ (batch[b].reversed \/ batch[b].numbers = {})

-----------------------------------------------------------------------------
TypeOK ==
    /\ holder \in [Numbers -> {Free, Draft} \cup Batches]
    /\ listed \cup withdrawn \subseteq Numbers
    /\ disk \subseteq Batches

\* The original behind every batch in the history can be downloaded, unless a
\* cleanup met its import between the file and the row, and every finding of
\* an import still has its batch.
BatchesHaveFiles ==
    \A b \in Batches : (calm /\ Has(b) => b \in disk) /\ (FindingsOf(b) # {} => Has(b))

\* What the history offers for a batch, its routes accept - a re-import, as
\* long as no cleanup took the original away.
HistoryOffersWork ==
    \A b \in Batches :
        /\ ShowsReverse(b) => CanReverse(b)
        /\ calm /\ ShowsReimport(b) => CanReimport(b)
        /\ ShowsDeleteRecord(b) => CanForget(b)

\* "Removed reference numbers are never reissued" (importReverse.ts), through
\* reversal, re-import, and deletion of the record.  A registration that read
\* before an import and its reversal, and commits after, does reissue one.
NumbersStayRetired == \A n \in withdrawn : holder[n] = Free
=============================================================================
