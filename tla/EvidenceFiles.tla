---------------------------- MODULE EvidenceFiles ----------------------------
(***************************************************************************)
(* Evidence is a row in the database and an encrypted file in the storage  *)
(* folder, written and removed in separate steps with other requests, or a *)
(* crash of the server, in between (evidence/route.ts,                     *)
(* evidence/[evidenceId]/route.ts, DELETE of a finding, the reversal of an *)
(* import, fileStorage.ts, scripts/storage-cleanup.ts).                    *)
(*                                                                         *)
(* A request is its first read, its commit (an updateDb call, which may be *)
(* refused) and what it does to the folder after.  Type, size and content  *)
(* checks, the upload limit and organisational scope refuse some uploads   *)
(* earlier and are left out.                                               *)
(***************************************************************************)
EXTENDS FiniteSets

CONSTANTS
    Findings,
    Imported,         \* those an import created
    Files,            \* the names newStoredName draws from
    Users,
    Keepers,          \* users who may remove anyone's evidence
    Requests

VARIABLES
    calm,      \* storage:cleanup --delete is run only while nobody uploads
    stage,     \* stage[f]: how far a finding is, as far as its files care
    evidence,  \* the rows: [file, finding, by]
    disk,      \* the files in <STORAGE_DIR>/evidence
    request    \* request[r]: what request r has read and has still to do

fileVars == <<calm, stage, evidence, disk, request>>

Idle == [is |-> "idle"]
Stages == {"draft", "sent", "closed", "gone"}
Rows == [file : Files, finding : Findings, by : Users]

Named == {row.file : row \in evidence}
RowsOf(f) == {row \in evidence : row.finding = f}
FilesOf(rows) == {row.file : row \in rows}

\* The names request r still has
HeldBy(r) ==
    CASE request[r].is = "uploading" -> {request[r].file}
      [] request[r].is = "removing" -> {request[r].row.file}
      [] request[r].is \in {"deleting", "unlinking"} -> request[r].files
      [] OTHER -> {}

Cleaning == \E r \in Requests : request[r].is = "cleaning"

\* A name no row, file or request has (a UUID)
Fresh(n) == n \notin Named \cup disk \cup UNION {HeldBy(r) : r \in Requests}

FilesInit ==
    /\ calm \in BOOLEAN
    /\ stage = [f \in Findings |-> IF f \in Imported THEN "sent" ELSE "draft"]
    /\ evidence = {} /\ disk = {}
    /\ request = [r \in Requests |-> Idle]

May(r) == request[r] = Idle /\ (calm => ~Cleaning)
Becomes(r, what) == request' = [request EXCEPT ![r] = what]

-----------------------------------------------------------------------------
(* evidence/route.ts *)

\* The file is written before the row
StoreFile(r, u, f, n) ==
    /\ May(r) /\ stage[f] # "gone" /\ Fresh(n)
    /\ disk' = disk \cup {n}
    /\ Becomes(r, [is |-> "uploading", file |-> n, finding |-> f, by |-> u])
    /\ UNCHANGED <<calm, stage, evidence>>

\* The finding is looked up again; one that has gone makes the update throw
SaveEvidence(r) ==
    /\ request[r].is = "uploading" /\ stage[request[r].finding] # "gone"
    /\ evidence' = evidence \cup
         {[file |-> request[r].file, finding |-> request[r].finding, by |-> request[r].by]}
    /\ Becomes(r, Idle)
    /\ UNCHANGED <<calm, stage, disk>>

\* The update is refused or throws; the catch removes the file
DropUpload(r) ==
    /\ request[r].is = "uploading"
    /\ disk' = disk \ {request[r].file}
    /\ Becomes(r, Idle)
    /\ UNCHANGED <<calm, stage, evidence>>

-----------------------------------------------------------------------------
(* evidence/[evidenceId]/route.ts *)

\* What a download of a row's file finds
Served(row) == row.file \in disk

CanRemove(u, row) ==
    \/ u \in Keepers
    \/ row.by = u /\ stage[row.finding] # "closed"

\* The fault: the file goes first, the row if the update succeeds
AskRemovalOfFile(r, u, row) ==
    /\ May(r) /\ row \in evidence /\ CanRemove(u, row)
    /\ disk' = disk \ {row.file}
    /\ Becomes(r, [is |-> "removing", row |-> row])
    /\ UNCHANGED <<calm, stage, evidence>>

AskRemoval(r, u, row) ==
    /\ May(r) /\ row \in evidence /\ CanRemove(u, row)
    /\ Becomes(r, [is |-> "removing", row |-> row])
    /\ UNCHANGED <<calm, stage, evidence, disk>>

Remove(r) ==
    /\ request[r].is = "removing"
    /\ evidence' = evidence \ {request[r].row}
    /\ Becomes(r, [is |-> "unlinking", files |-> {request[r].row.file}])
    /\ UNCHANGED <<calm, stage, disk>>

-----------------------------------------------------------------------------
(* DELETE of a finding, and of all an import created *)

AskDeletion(r, f) ==
    /\ May(r) /\ stage[f] = "draft"
    /\ Becomes(r, [is |-> "deleting", finding |-> f, files |-> FilesOf(RowsOf(f))])
    /\ UNCHANGED <<calm, stage, evidence, disk>>

\* The rows go with the finding by the database's cascade, those uploaded
\* since the first read too; the files that go are the ones read then.
Delete(r) ==
    /\ request[r].is = "deleting"
    /\ stage' = [stage EXCEPT ![request[r].finding] = "gone"]
    /\ evidence' = evidence \ RowsOf(request[r].finding)
    /\ Becomes(r, [is |-> "unlinking", files |-> request[r].files])
    /\ UNCHANGED <<calm, disk>>

\* reverseImportBatch lists the files inside the update
Reverse(r) ==
    LET rows == UNION {RowsOf(f) : f \in Imported}
    IN  /\ May(r) /\ \E f \in Imported : stage[f] # "gone"
        /\ stage' = [f \in Findings |-> IF f \in Imported THEN "gone" ELSE stage[f]]
        /\ evidence' = evidence \ rows
        /\ Becomes(r, [is |-> "unlinking", files |-> FilesOf(rows)])
        /\ UNCHANGED <<calm, disk>>

\* deleteStoredFile: a missing file is not an error
Unlink(r) ==
    /\ request[r].is = "unlinking"
    /\ disk' = disk \ request[r].files
    /\ Becomes(r, Idle)
    /\ UNCHANGED <<calm, stage, evidence>>

-----------------------------------------------------------------------------
(* scripts/storage-cleanup.ts --delete: the rows are read first, the folder is listed after *)

ReadRows(r) ==
    /\ request[r] = Idle
    /\ calm => \A q \in Requests : request[q] = Idle
    /\ Becomes(r, [is |-> "cleaning", referenced |-> Named])
    /\ UNCHANGED <<calm, stage, evidence, disk>>

RemoveOrphans(r) ==
    /\ request[r].is = "cleaning"
    /\ disk' = disk \cap request[r].referenced
    /\ Becomes(r, Idle)
    /\ UNCHANGED <<calm, stage, evidence>>

-----------------------------------------------------------------------------
(* What happens around *)

\* The workflow carries a finding on (FindingWorkflow)
Advance(f) ==
    /\ stage[f] \in {"draft", "sent"}
    /\ stage' = [stage EXCEPT ![f] = IF @ = "draft" THEN "sent" ELSE "closed"]
    /\ UNCHANGED <<calm, evidence, disk, request>>

\* A commit that is refused; nothing else has happened yet
Refuse(r) ==
    /\ request[r].is \in {"removing", "deleting"}
    /\ Becomes(r, Idle)
    /\ UNCHANGED <<calm, stage, evidence, disk>>

\* The server stops; the tables and the folder stay as they are
Crash ==
    /\ \E r \in Requests : request[r] # Idle
    /\ request' = [r \in Requests |-> Idle]
    /\ UNCHANGED <<calm, stage, evidence, disk>>

FilesNext ==
    \/ \E r \in Requests :
        \/ \E u \in Users :
            \/ \E f \in Findings, n \in Files : StoreFile(r, u, f, n)
            \/ \E row \in evidence : AskRemoval(r, u, row)
        \/ SaveEvidence(r) \/ DropUpload(r) \/ Remove(r) \/ Delete(r) \/ Unlink(r)
        \/ \E f \in Findings : AskDeletion(r, f)
        \/ Reverse(r) \/ ReadRows(r) \/ RemoveOrphans(r) \/ Refuse(r)
    \/ \E f \in Findings : Advance(f)
    \/ Crash

-----------------------------------------------------------------------------
TypeOK ==
    /\ stage \in [Findings -> Stages]
    /\ evidence \subseteq Rows
    /\ disk \subseteq Files
    /\ DOMAIN request = Requests

\* Every row's file can be downloaded, whatever was refused or crashed in
\* between: a file is written before its row and removed after it.  A cleanup
\* that meets an upload under way takes the file away from it.
RowsHaveFiles == calm => \A row \in evidence : Served(row)

\* "A successful one never leaves them behind as orphans" ([id]/route.ts):
\* with nothing under way every file is named by a row.  It is not so after a
\* crash, nor for an upload saved while its finding's deletion is under way.
NoOrphans == (\A r \in Requests : request[r] = Idle) => disk \subseteq Named
=============================================================================
