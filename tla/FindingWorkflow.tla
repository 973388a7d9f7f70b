--------------------------- MODULE FindingWorkflow ---------------------------
(***************************************************************************)
(* Findings and reporting periods when requests are handled one at a time: *)
(* the handler's checks and its updateDb see the same database.            *)
(***************************************************************************)
EXTENDS FindingHandlers, PeriodResidency, FiniteSetsExt, SequencesExt

CONSTANTS
    Totals,       \* case counts and amounts a registration form may carry
    Breakdowns,   \* case breakdowns it may carry
    EntryBound,   \* bound: the largest number typed in a rectification
    Repeats,      \* bound: how often caseIds may list one case
    Dates,        \* places in the calendar a period may be created at
    NewDates,     \* places a PATCH may move it to
    DraftFlags,   \* values sent for draftsAllowedWhileLocked
    MovingWindows \* bound: the periods whose submission window opens and closes

ASSUME InputsAssumption ==
    /\ Totals \subseteq Quantity
    /\ Breakdowns \subseteq Seq(Nat)
    /\ EntryBound \in Nat /\ Repeats \in Nat
    /\ Dates \subseteq Nat /\ NewDates \subseteq Nat
    /\ DraftFlags \subseteq BOOLEAN
    /\ MovingWindows \subseteq Periods

Entries == [Dim -> 0..EntryBound]
Changes == UNION {{[d \in D |-> t[d]] : t \in Totals} : D \in SUBSET Dim}

-----------------------------------------------------------------------------
(* One action per handler. *)

Create(u, f) ==
    \E p \in Periods, total \in Totals, items \in Breakdowns \cup {<<>>}, submit \in BOOLEAN :
        CanCreate(u, f, p, total, items, submit) /\ DoCreate(u, f, p, total, items, submit)

Edit(u, f) ==
    \E q \in Periods, changes \in Changes : CanEdit(u, f, q, changes) /\ DoEdit(f, q, changes)

Delete(u, f) == CanDelete(u, f) /\ DoDelete(f)

Submit(u, f) == CanSubmit(u, f) /\ DoSubmit(u, f)

Review(u, f) ==
    \E stage \in Stages, decision \in Decisions :
        CanReview(u, f, stage, decision) /\ DoReview(f, stage, decision)

Rectify(u, f) == \E n \in Entries : CanRectify(u, f, n) /\ DoRectify(f, n, {})

RectifyItems(u, f) ==
    /\ Exists(f)
    /\ \E S \in SUBSET DOMAIN finding[f].items : \E picks \in [S -> 1..Repeats] :
          CanRectifyItems(u, f, picks) /\ DoRectify(f, Picked(f, picks), S)

VerifyRectification(u, f) == CanVerify(u, f) /\ DoVerify(u, f, Verifiable(f))

Close(u, f) == CanClose(u, f) /\ DoClose(u, f, Closable(f))

ReturnRectification(u, f) == CanReturn(u, f) /\ DoReturn(f)

ResubmitRectification(u, f) == CanResubmit(u, f) /\ DoResubmit(f)

Reopen(u, f) == CanReopen(u, f) /\ DoReopen(f)

Transfer(u, f) == \E q \in Periods : CanTransfer(u, f, q) /\ DoTransfer(f, q)

CreatePeriod(u, p) == \E at \in Dates : CanCreatePeriod(u, p, at) /\ DoCreatePeriod(p, at)

\* A field of a PATCH: sent with one of the values, or left out
Optional(values) == {{}} \cup {{v} : v \in values}

PatchRequests ==
    [status : {"OPEN", "LOCKED", "KEEP"}, drafts : Optional(DraftFlags), at : Optional(NewDates)]

PatchPeriod(u, p) ==
    \E req \in PatchRequests, sweep \in BOOLEAN :
        /\ CanPatchPeriod(u, p, req)
        /\ RoomToSweep(p)
        /\ DoPatchPeriod(p, req, ChangesStatus(p, req), sweep)

DeletePeriod(u, p) == CanDeletePeriod(u, p) /\ DoDeletePeriod(p)

Init == TablesInit

FindingStep(u, f) ==
    \/ Create(u, f) \/ Edit(u, f) \/ Delete(u, f) \/ Submit(u, f) \/ Review(u, f)
    \/ Rectify(u, f) \/ RectifyItems(u, f) \/ VerifyRectification(u, f) \/ Close(u, f)
    \/ ReturnRectification(u, f) \/ ResubmitRectification(u, f)
    \/ Reopen(u, f) \/ Transfer(u, f)

PeriodStep(u, p) == CreatePeriod(u, p) \/ PatchPeriod(u, p) \/ DeletePeriod(u, p)

Next ==
    \/ \E u \in Users, f \in Findings : FindingStep(u, f)
    \/ \E u \in Users, p \in Periods : PeriodStep(u, p)
    \/ \E p \in MovingWindows : MoveWindow(p)

Spec == Init /\ [][Next]_tables

-----------------------------------------------------------------------------
(* Invariants. *)

\* Every row of every table has the shape the schema gives it.
TypeOK ==
    /\ finding \in [Findings -> FindingRow \cup {NoFinding}]
    /\ period \in [Periods -> PeriodRow \cup {NoPeriod}]
    /\ rectifications \in [Findings -> Seq(RectificationRow)]
    /\ closures \in [Findings -> Seq(ClosureRow)]
    /\ transfers \in [Findings -> Seq(TransferRow)]
    /\ signed \in [Findings -> [Users -> {"never", "earlier", "current"}]]

Present == {f \in Findings : Exists(f)}

\* A selection that lists each of its cases once
Once(S) == [i \in S |-> 1]

\* The bound stated above the close route: closed figures never get ahead of
\* the district's verification, which never gets ahead of the branch's
\* rectification, which never exceeds what was registered - in cases and in
\* money alike.
CountersOrdered ==
    \A f \in Present :
        /\ AtMost(finding[f].closed, finding[f].verified)
        /\ AtMost(finding[f].verified, finding[f].rectified)
        /\ AtMost(finding[f].rectified, finding[f].total)

\* What the exhaustion rules of the rectify route are for: on a plain finding
\* money is never left without a case to attach it to, nor a case left over
\* once all the money is accounted for.
NoOrphanBalance ==
    \A f \in Present : finding[f].items = <<>> =>
        LET left == Outstanding(f)
        IN  /\ left["cases"] = 0 => left["amount"] = 0
            /\ left["amount"] = 0 /\ finding[f].total["amount"] > 0 => left["cases"] = 0

BeforeBranch == {"DRAFT", "DISTRICT_REVIEW", "HO_REVIEW", "PENDING_BANK_APPROVAL",
                 "RETURNED", "REJECTED"}

\* A status and the counters beside it tell the same story, whichever way the
\* finding got there.  In particular a finding sent back for correction always
\* has something rectified on record, so resubmit-rectification's
\* SENT_TO_BRANCH_MANAGER branch is dead code, as its comment says.
StatusMatchesCounters ==
    \A f \in Present :
        LET r == finding[f]
        IN  /\ r.status \in BeforeBranch \cup {"SENT_TO_BRANCH_MANAGER"} => r.rectified = Zero
            /\ r.status = "RECTIFIED" => Covers(r.rectified, f)
            /\ r.status = "PARTIALLY_RECTIFIED" => r.rectified # Zero /\ ~Covers(r.rectified, f)
            /\ r.status = "RECTIFICATION_RETURNED" => r.rectified # Zero
            /\ r.status = "CLOSED" <=> Covers(r.closed, f)

\* A finding the branch still owes something on can always be worked on while
\* its period is open: some rectification entry is accepted, or the figures
\* can be verified or closed, or the returned entry resubmitted.  No balance
\* is stranded by the combination of rules.
NeverStuck ==
    \A f \in Present :
        LET r == finding[f]
        IN  r.status \notin BeforeBranch \cup {"CLOSED"} /\ period[r.period].status = "OPEN" =>
            \/ \E d \in Dim : Verifiable(f)[d] > 0 \/ Closable(f)[d] > 0
            \/ r.status = "RECTIFICATION_RETURNED"
            \/ ~HasRoom(f)
            \/ \E u \in Users :
                  \/ \E n \in Entries : CanRectify(u, f, n)
                  \/ \E S \in SUBSET DOMAIN r.items : CanRectifyItems(u, f, Once(S))

\* The ledgers are the counters' history: closure rows add up to the closed
\* figures and rectification rows to the rectified ones, across transfers and
\* reopenings.
LedgerMatchesCounters ==
    \A f \in Present, d \in Dim :
        /\ SumOfRows(rectifications[f], Periods, d) = finding[f].rectified[d]
        /\ SumOfRows(closures[f], Periods, d) = finding[f].closed[d]

\* Transfer rows form one path that ends in the finding's period.
TransfersFormPath ==
    \A f \in Present :
        LET moves == transfers[f]
        IN  /\ \A i \in 1..(Len(moves) - 1) : moves[i].to = moves[i + 1].from
            /\ moves # <<>> => moves[Len(moves)].to = finding[f].period

\* The path runs forward in the calendar: no earlier period's figures are
\* ever opened again, so each period is stayed in once.
TransfersForward ==
    \A f \in Present :
        \A i \in DOMAIN transfers[f] :
            period[transfers[f][i].from].at < period[transfers[f][i].to].at

\* No row names a period that is gone: neither a finding's current period nor
\* the unconstrained period columns of the ledgers.
NoDanglingPeriod ==
    \A f \in Present :
        /\ InUse(finding[f].period)
        /\ \A p \in Periods : InWork(f, p) \/ InTransfers(f, p) => InUse(p)

Eligible(f, p, d) == EligibleIn(transfers[f], finding[f].period, finding[f].total, p, d)

\* Every case belongs to exactly one period: the shares the periods are given
\* of a finding add up to the finding, return trips and reopenings included.
SharesAddUp ==
    \A f \in Present, d \in Dim :
        SumFunction([p \in Periods |-> Eligible(f, p, d)]) = finding[f].total[d]

\* The period whose last stay has not ended is the finding's own: elsewhere
\* the finding is history, and shown read-only.
CurrentStayIsHome ==
    \A f \in Present :
        {p \in Periods : StillIn(transfers[f], finding[f].period, finding[f].total, p)}
            = {finding[f].period}

\* What a period is credited with closing was its own to close: its share is
\* not negative and its performance figure never passes 100 %.
ClosedWithinEligible ==
    \A f \in Present, p \in Periods, d \in Dim :
        ClosedIn(closures[f], p, d) <= Eligible(f, p, d)

\* The cases ticked off on an itemised finding are the cases and the money its
\* counters say are rectified.
ItemsMatchCounters ==
    \A f \in Present : finding[f].items # <<>> =>
        Picked(f, Once(finding[f].done)) = finding[f].rectified

\* A selection of outstanding cases never exceeds what is outstanding.
SelectionWithinOutstanding ==
    \A f \in Present :
        \A S \in SUBSET (DOMAIN finding[f].items \ finding[f].done) :
            AtMost(Picked(f, Once(S)), Outstanding(f))

\* Whatever is still owed can be settled: no balance is left without a case
\* to carry it, and some entry of the form is always accepted.
BalanceReachable == NoOrphanBalance /\ NeverStuck

\* Every case has exactly one period to answer for it: the path of transfers
\* is unbroken, names periods that exist, ends where the finding is, and the
\* shares along it add up to the whole.
ResidencyAddsUp == TransfersFormPath /\ NoDanglingPeriod /\ CurrentStayIsHome /\ SharesAddUp

\* The three books kept of a finding - its counters, the ledger rows and the
\* ticked cases - say the same.
BooksAgree == LedgerMatchesCounters /\ ItemsMatchCounters /\ SelectionWithinOutstanding

-----------------------------------------------------------------------------
(* Action properties. *)

\* The rows of a ledger stamped with a period, each at its place
Figures(rows, p) == [i \in {j \in DOMAIN rows : rows[j].period = p} |-> rows[i]]

\* A locked period is a hard stop with one exception: the drafts of a period
\* that allows them.  Nothing else in registration or review moves there.
LockedHoldsRegistrations ==
    [][\A f \in Findings :
          /\ Exists(f) /\ finding[f].status \in BeforeBranch
          /\ period[finding[f].period].status = "LOCKED"
          /\ finding[f].status = "DRAFT" => ~period[finding[f].period].drafts
          => finding'[f] = finding[f]]_tables

\* The other direction: whatever arrives in a locked period - registered
\* there, moved there by an edit, transferred there - is a draft it allows.
LockedGainsOnlyDrafts ==
    [][\A f \in Findings :
          LET p == finding'[f].period
          IN  /\ finding'[f] # NoFinding
              /\ Exists(f) => finding[f].period # p
              /\ period[p].status = "LOCKED"
              => finding'[f].status = "DRAFT" /\ period[p].drafts]_tables

\* A finding enters review, or goes straight to the branch, only while its
\* period is open and inside its submission window - on the create-and-submit
\* path too.
SubmittedInWindow ==
    [][\A f \in Findings :
          /\ ~Exists(f) \/ finding[f].status \in Editable
          /\ finding'[f] # NoFinding /\ finding'[f].status \notin Editable
          => LET p == period[finding'[f].period] IN p.status = "OPEN" /\ p.window]_tables

\* What a period's lock and submission window mean for registration and
\* review, from either side and on every path in.
PeriodsGuardRegistration ==
    LockedHoldsRegistrations /\ LockedGainsOnlyDrafts /\ SubmittedInWindow

\* docs/workflow.md: once the period is LOCKED no mutating action works,
\* rectify, verify and close included; so its closures are frozen too.
LockedClosuresFrozen ==
    [][\A f \in Findings, p \in Periods : period[p].status = "LOCKED" =>
          Figures(closures'[f], p) = Figures(closures[f], p)]_tables

\* docs/workflow.md: RECTIFICATION_RETURNED blocks close and transfer until
\* the branch resubmits or records more rectification.
ReturnedAwaitsBranch ==
    [][\A f \in Findings : Exists(f) /\ finding[f].status = "RECTIFICATION_RETURNED" =>
          finding'[f].status \in {"RECTIFICATION_RETURNED", "RECTIFIED",
                                  "PARTIALLY_RECTIFIED", "SENT_TO_BRANCH_MANAGER"}]_tables
=============================================================================
