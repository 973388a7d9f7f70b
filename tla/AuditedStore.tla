---------------------------- MODULE AuditedStore ----------------------------
(***************************************************************************)
(* The data layer under every handler: readDb, updateDb and persistChanges *)
(* of src/lib/db.ts with appendAuditLog of src/lib/audit.ts.               *)
(*                                                                         *)
(* updateDb reads all tables with one query each, in no particular order   *)
(* and outside any transaction, lets the mutator change the copy, and then *)
(* writes the rows that differ in one transaction.  Nothing compares a row *)
(* with what was read - except that an audit entry takes the next sequence *)
(* number after the ones read, and sequence numbers are UNIQUE.            *)
(*                                                                         *)
(* A data row is the set of the requests whose effect it carries, so that  *)
(* a lost update shows.  The hash of an entry is its identity.             *)
(***************************************************************************)
EXTENDS Integers, FiniteSets

CONSTANTS
    Requests,   \* calls of updateDb, each made once
    Rows,       \* rows of the tables other than audit_logs
    Touches,    \* Touches[r]: the row r's mutator changes
    Entries     \* Entries[r]: how many audit entries it appends

ASSUME RequestsAssumption ==
    /\ Touches \in [Requests -> Rows]
    /\ Entries \in [Requests -> Nat]

VARIABLES
    log,       \* audit_logs: a set of entries
    row,       \* row[x]: the requests whose effect row x carries
    phase,     \* phase[r]: how far r has got
    first,     \* first[r]: the table r read first
    seenLog,   \* the copies readDb made for r
    seenRow

vars == <<log, row, phase, first, seenLog, seenRow>>

Phase == {"start", "reading", "ready", "committed", "rejected", "crashed"}
Ended == {"committed", "rejected", "crashed"}

Hash == [by : Requests, nth : Nat \ {0}]
Genesis == [by |-> "genesis"]
Entry == [sequence : Nat \ {0}, previousHash : Hash \cup {Genesis}, hash : Hash]

-----------------------------------------------------------------------------
(* appendAuditLog, called Entries[r] times on the copy r read. *)

IsNewest(e, entries) == \A d \in entries : d.sequence <= e.sequence

MaxFromBelow(entries) ==
    IF entries = {} THEN -1 ELSE (CHOOSE e \in entries : IsNewest(e, entries)).sequence

MaxSequence(entries) ==
    IF entries = {} THEN 0 ELSE (CHOOSE e \in entries : IsNewest(e, entries)).sequence

NewestHash(entries) ==
    IF entries = {} THEN Genesis ELSE (CHOOSE e \in entries : IsNewest(e, entries)).hash

Appended(r, entries) ==
    {[sequence     |-> MaxSequence(entries) + n,
      previousHash |-> IF n = 1 THEN NewestHash(entries) ELSE [by |-> r, nth |-> n - 1],
      hash         |-> [by |-> r, nth |-> n]] : n \in 1..Entries[r]}

SameHash(entries, new) == \E d \in entries, e \in new : d.hash = e.hash

NeverClash(entries, new) == FALSE

\* The insert of some entry fails on the UNIQUE index of audit_logs.sequence.
Clashes(entries, new) == \E d \in entries, e \in new : d.sequence = e.sequence

-----------------------------------------------------------------------------
Init ==
    /\ log = {}
    /\ row = [x \in Rows |-> {}]
    /\ phase = [r \in Requests |-> "start"]
    /\ first = [r \in Requests |-> "none"]
    /\ seenLog = [r \in Requests |-> {}]
    /\ seenRow = [r \in Requests |-> {}]

\* After its first table a request is reading, after the second it is ready.
ReadTable(r, table) ==
    /\ \/ phase[r] = "start" /\ phase' = [phase EXCEPT ![r] = "reading"]
                             /\ first' = [first EXCEPT ![r] = table]
       \/ phase[r] = "reading" /\ first[r] # table
                             /\ phase' = [phase EXCEPT ![r] = "ready"]
                             /\ UNCHANGED first
    /\ UNCHANGED <<log, row>>

ReadLog(r) ==
    /\ ReadTable(r, "log")
    /\ seenLog' = [seenLog EXCEPT ![r] = log]
    /\ UNCHANGED seenRow

ReadRow(r) ==
    /\ ReadTable(r, "row")
    /\ seenRow' = [seenRow EXCEPT ![r] = row[Touches[r]]]
    /\ UNCHANGED seenLog

\* persistChanges: the whole row and the new entries, or nothing
Commit(r) ==
    LET new == Appended(r, seenLog[r])
    IN  /\ phase[r] = "ready"
        /\ ~Clashes(log, new)
        /\ log' = log \cup new
        /\ row' = [row EXCEPT ![Touches[r]] = seenRow[r] \cup {r}]
        /\ phase' = [phase EXCEPT ![r] = "committed"]
        /\ UNCHANGED <<first, seenLog, seenRow>>

\* Faults: no transaction around the writes; a failed write that is swallowed.
RejectInPart(r) ==
    LET new == Appended(r, seenLog[r])
    IN  /\ phase[r] = "ready" /\ Clashes(log, new)
        /\ log' = log \cup {e \in new : ~Clashes(log, {e})}
        /\ phase' = [phase EXCEPT ![r] = "rejected"]
        /\ UNCHANGED <<row, first, seenLog, seenRow>>

Swallow(r) == phase[r] = "ready" /\ Clashes(log, Appended(r, seenLog[r])) /\ UNCHANGED vars

\* P2002 rolls the transaction back and nobody tries again.
Reject(r) ==
    /\ phase[r] = "ready"
    /\ Clashes(log, Appended(r, seenLog[r]))
    /\ phase' = [phase EXCEPT ![r] = "rejected"]
    /\ UNCHANGED <<log, row, first, seenLog, seenRow>>

\* The process dies, or the transaction runs into its timeout.
Crash(r) ==
    /\ phase[r] \notin Ended
    /\ phase' = [phase EXCEPT ![r] = "crashed"]
    /\ UNCHANGED <<log, row, first, seenLog, seenRow>>

Work(r) == ReadLog(r) \/ ReadRow(r) \/ Commit(r) \/ Reject(r)

Done == (\A r \in Requests : phase[r] \in Ended) /\ UNCHANGED vars

Next == (\E r \in Requests : Work(r) \/ Crash(r)) \/ Done

Spec == Init /\ [][Next]_vars

\* The event loop runs a handler to its end and the database answers.
FairSpec == Spec /\ \A r \in Requests : WF_vars(Work(r))

-----------------------------------------------------------------------------
(* Properties. *)

TypeOK ==
    /\ log \subseteq Entry
    /\ row \in [Rows -> SUBSET Requests]
    /\ phase \in [Requests -> Phase]
    /\ first \in [Requests -> {"none", "log", "row"}]
    /\ seenLog \in [Requests -> SUBSET Entry]
    /\ seenRow \in [Requests -> SUBSET Requests]

\* No two entries share a number, ...
Unforked == \A d, e \in log : d.sequence = e.sequence => d = e

\* ... and each one carries the hash of the entry numbered just before it:
\* the chain has no gap and no break, whatever interleaving wrote it.  This is
\* what verifyAuditLogChain recomputes.
Chained ==
    \A e \in log :
        IF e.sequence = 1 THEN e.previousHash = Genesis
        ELSE \E d \in log : d.sequence = e.sequence - 1 /\ d.hash = e.previousHash

ChainValid == Unforked /\ Chained

\* A request's entries are in the log, all of them, exactly when it committed.
AllOrNothing ==
    \A r \in Requests :
        {e.hash : e \in {d \in log : d.hash.by = r}}
            = IF phase[r] = "committed" THEN {[by |-> r, nth |-> n] : n \in 1..Entries[r]} ELSE {}

AllAudited == \A r \in Requests : Entries[r] > 0

\* The sequence number is an optimistic lock: as long as every writer appends
\* an entry, one that read the log before its row overwrites nothing.
LogFirstIsSafe ==
    [][AllAudited => \A r \in Requests :
          phase[r] # "committed" /\ phase'[r] = "committed" /\ first[r] = "log"
          => row[Touches[r]] \subseteq row'[Touches[r]]]_vars

\* Every request is answered: contention rejects, it never blocks.
EveryRequestEnds == \A r \in Requests : <>(phase[r] \in Ended)
=============================================================================
