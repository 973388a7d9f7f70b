--------------------------- MODULE FindingHandlers ---------------------------
(***************************************************************************)
(* The handlers of a finding's life, from registration to closure, and     *)
(* those of the reporting periods it moves through.  Every route of        *)
(* src/app/api/findings/[id] has the same two halves:                      *)
(*                                                                         *)
(*   - readDb(), then early returns on what was read: here CanX, a state   *)
(*     predicate;                                                          *)
(*   - updateDb(mutator), which reads the tables again and writes without  *)
(*     repeating the checks: here DoX, an action.                          *)
(*                                                                         *)
(* A value the mutator takes from the first read is a parameter of DoX.    *)
(* FindingWorkflow runs the two halves in one step; ConcurrentRequests     *)
(* lets other requests commit between them.                                *)
(*                                                                         *)
(* Amounts are naturals in a unit below the 0.01 birr the code tolerates;  *)
(* the case count and the amount of a finding are its two dimensions.      *)
(* A period's place in the calendar - its startsAt, and the year and month *)
(* derived from it - is one number, at.                                    *)
(*                                                                         *)
(* A definition that nothing uses is a fault: what its successor would be  *)
(* with a likely mistake in it.  Putting it in the successor's place must  *)
(* break a property (PROJECT.json, mutants).                               *)
(***************************************************************************)
EXTENDS Integers, Sequences, FiniteSets, Sums

CONSTANTS
    Users,         \* accounts that call the API
    BankUsers,     \* the ones whose orgScope is BANK
    Approvers,     \* Settings.hoApproval.approverUserIds
    Grants,        \* Grants[u]: the permissions of u's role
    Scope,         \* Scope[u]: the findings inside u's district or branch
    Findings,      \* finding ids
    Periods,       \* reporting period ids
    Tolerance,     \* how far a case breakdown may be from the amount
    MaxRows        \* bound: ledger rows kept per finding

ASSUME ConstantsAssumption ==
    /\ BankUsers \subseteq Users /\ Approvers \subseteq Users
    /\ DOMAIN Grants = Users /\ DOMAIN Scope = Users
    /\ Tolerance \in Nat /\ MaxRows \in Nat
    /\ IsFiniteSet(Periods) /\ IsFiniteSet(Findings)

VARIABLES
    finding,   \* the findings table, with its FindingCase rows
    period,    \* the reporting_periods table
    rectifications, closures, transfers,
               \* the three ledgers of each finding, oldest row first
    signed     \* signed[f][u]: u's last DISTRICT_VERIFY_RECTIFICATION, CLOSE or
               \* PARTIAL_CLOSE audit entry, against f's latest rectification

ledgers == <<rectifications, closures, transfers>>

tables == <<finding, period, rectifications, closures, transfers, signed>>

-----------------------------------------------------------------------------
(* Quantities: a number of cases and an amount of money. *)

Dim == {"cases", "amount"}
Quantity == [Dim -> Nat]
Zero == [d \in Dim |-> 0]
Plus(q, r) == [d \in Dim |-> q[d] + r[d]]
Minus(q, r) == [d \in Dim |-> q[d] - r[d]]
AtMost(q, r) == \A d \in Dim : q[d] <= r[d]
Least(q, r) == [d \in Dim |-> IF q[d] <= r[d] THEN q[d] ELSE r[d]]
Distance(m, n) == IF m <= n THEN n - m ELSE m - n

-----------------------------------------------------------------------------
(* Rows. *)

Status ==
    {"DRAFT", "DISTRICT_REVIEW", "HO_REVIEW", "PENDING_BANK_APPROVAL", "RETURNED",
     "REJECTED", "SENT_TO_BRANCH_MANAGER", "PARTIALLY_RECTIFIED", "RECTIFIED",
     "RECTIFICATION_RETURNED", "TRANSFERRED", "CLOSED"}

EditableOnReturn == {"DRAFT", "RETURNED", "RECTIFICATION_RETURNED"}
Editable     == {"DRAFT", "RETURNED"}
Rectifiable  == {"SENT_TO_BRANCH_MANAGER", "PARTIALLY_RECTIFIED", "TRANSFERRED",
                 "RECTIFICATION_RETURNED"}
ReturnableAtBranch == {"SENT_TO_BRANCH_MANAGER", "PARTIALLY_RECTIFIED", "RECTIFIED", "TRANSFERRED"}
Returnable   == {"PARTIALLY_RECTIFIED", "RECTIFIED", "TRANSFERRED"}
TransferableClosed == Rectifiable \cup {"RECTIFIED", "CLOSED"}
Transferable == Rectifiable \cup {"RECTIFIED"}

\* No row, and an itemised finding's rows: amounts by case and the cases done.
NoFinding == [status |-> "NONE"]
NoPeriod == [status |-> "NONE"]

FindingRow ==
    [status : Status, period : Periods, creator : Users,
     total : Quantity, rectified : Quantity, verified : Quantity, closed : Quantity,
     items : Seq(Nat), done : SUBSET Nat]

PeriodRow == [status : {"OPEN", "LOCKED"}, drafts : BOOLEAN, window : BOOLEAN, at : Nat]

\* after: how many transfers were made before the rectification
RectificationRow == [period : Periods, qty : Quantity, after : Nat]
ClosureRow == [period : Periods, qty : Quantity]
TransferRow == [from : Periods, to : Periods, qty : Quantity]

Exists(f) == finding[f] # NoFinding
InUse(p) == period[p] # NoPeriod

Outstanding(f) == Minus(finding[f].total, finding[f].rectified)

\* Both counters of a finding have caught up with what was registered.
Covers(q, f) == AtMost(finding[f].total, q)

-----------------------------------------------------------------------------
(* Checks the handlers share. *)

\* requirePermission, then assertFindingInScope
May(u, permission, f) == permission \in Grants[u] /\ f \in Scope[u]

AnyStatusWhileDraftable(p, editing) ==
    period[p].status = "OPEN" \/ (period[p].status = "LOCKED" /\ period[p].drafts)

\* assertPeriodWritable(db, p, editing)
PeriodWritable(p, editing) ==
    \/ period[p].status = "OPEN"
    \/ period[p].status = "LOCKED" /\ editing = "DRAFT" /\ period[p].drafts

\* assertPeriodOpenForSubmission: tightens the OPEN case only
OpenForSubmission(p) == period[p].status = "OPEN" => period[p].window

\* userPerformedApprovalOrVerifyAction
SignedOff(u, f) == signed[f][u] = "current"

\* hasRectificationAfterLastTransfer
RectifiedSinceTransfer(f) ==
    transfers[f] # <<>> =>
        \E i \in DOMAIN rectifications[f] : rectifications[f][i].after = Len(transfers[f])

HasRoom(f) == Len(rectifications[f]) + Len(closures[f]) + Len(transfers[f]) < MaxRows

-----------------------------------------------------------------------------
(* Updates the handlers share. *)

Sign(u, f) == signed' = [signed EXCEPT ![f][u] = "current"]

\* A new rectification row makes every earlier signature an older round's.
AgeSignatures(f) ==
    signed' = [signed EXCEPT ![f] =
                 [v \in Users |-> IF @[v] = "current" THEN "earlier" ELSE @[v]]]

\* The last of the one or two transitionFinding calls of a handler
MoveTo(f, status) == finding' = [finding EXCEPT ![f].status = status]

-----------------------------------------------------------------------------
(* Registration: POST /api/findings, PATCH and DELETE /api/findings/[id]. *)

SubmittedStatuses(u) ==
    IF u \in BankUsers
    THEN {"PENDING_BANK_APPROVAL", "SENT_TO_BRANCH_MANAGER"}
    ELSE {"DISTRICT_REVIEW"}

CountedBreakdown(items, total) == Len(items) = total["cases"]

\* A case breakdown has one entry per case and adds up to about the amount.
BreaksDown(items, total) ==
    /\ Len(items) = total["cases"]
    /\ Distance(SumOf(items), total["amount"]) <= Tolerance

RegistrableWhileOpen(p, submit) ==
    IF submit THEN period[p].status = "OPEN" ELSE PeriodWritable(p, "DRAFT")

Registrable(p, submit) ==
    IF submit THEN period[p].status = "OPEN" /\ OpenForSubmission(p)
              ELSE PeriodWritable(p, "DRAFT")

CanCreate(u, f, p, total, items, submit) ==
    /\ finding[f] = NoFinding
    /\ May(u, "create", f)
    /\ total["cases"] >= 1
    /\ Registrable(p, submit)
    /\ items # <<>> => BreaksDown(items, total)

\* Settings.hoApproval.required, read by submitFinding, is either value.
DoCreate(u, f, p, total, items, submit) ==
    /\ \E s \in IF submit THEN SubmittedStatuses(u) ELSE {"DRAFT"} :
          finding' = [finding EXCEPT ![f] =
              [status |-> s, period |-> p, creator |-> u, total |-> total,
               rectified |-> Zero, verified |-> Zero, closed |-> Zero,
               items |-> items, done |-> {}]]
    /\ UNCHANGED <<period, ledgers, signed>>

MovableFrom(f, q) == PeriodWritable(finding[f].period, finding[f].status)

\* The period an edit leaves and the one it asks for both accept it.
Movable(f, q) ==
    /\ PeriodWritable(finding[f].period, finding[f].status)
    /\ PeriodWritable(q, finding[f].status)

\* q is the requested period, or the finding's own when none is sent.
CanEdit(u, f, q, changes) ==
    /\ Exists(f)
    /\ May(u, "edit", f)
    /\ finding[f].creator = u
    /\ finding[f].status \in Editable
    /\ Movable(f, q)
    /\ "cases" \in DOMAIN changes => changes["cases"] >= 1
    /\ finding[f].items # <<>> =>
          /\ "cases" \in DOMAIN changes => changes["cases"] = finding[f].total["cases"]
          /\ "amount" \in DOMAIN changes =>
                Distance(changes["amount"], finding[f].total["amount"]) <= Tolerance

DoEdit(f, q, changes) ==
    /\ finding' = [finding EXCEPT
          ![f].period = q,
          ![f].total = [d \in Dim |-> IF d \in DOMAIN changes THEN changes[d] ELSE @[d]]]
    /\ UNCHANGED <<period, ledgers, signed>>

CanDelete(u, f) ==
    /\ Exists(f)
    /\ \/ finding[f].status = "DRAFT" /\ May(u, "delete", f) /\ finding[f].creator = u
       \/ finding[f].status = "REJECTED" /\ May(u, "delete-rejected", f)
    /\ PeriodWritable(finding[f].period, finding[f].status)

\* The ledger rows go with the finding (ON DELETE CASCADE); its id is a uuid
\* nobody reuses, so the slot is free for another finding.
DoDelete(f) ==
    /\ finding' = [finding EXCEPT ![f] = NoFinding]
    /\ rectifications' = [rectifications EXCEPT ![f] = <<>>]
    /\ closures' = [closures EXCEPT ![f] = <<>>]
    /\ transfers' = [transfers EXCEPT ![f] = <<>>]
    /\ signed' = [signed EXCEPT ![f] = [v \in Users |-> "never"]]
    /\ UNCHANGED period

-----------------------------------------------------------------------------
(* Approval: submit, district-review, ho-review and bank-approval. *)

CanSubmit(u, f) ==
    /\ Exists(f)
    /\ May(u, "submit", f)
    /\ finding[f].creator = u
    /\ finding[f].status \in Editable
    /\ PeriodWritable(finding[f].period, "SUBMITTED")
    /\ OpenForSubmission(finding[f].period)

DoSubmit(u, f) ==
    /\ \E s \in SubmittedStatuses(u) : MoveTo(f, s)
    /\ UNCHANGED <<period, ledgers, signed>>

\* The three review routes: the status each one awaits (also the name of its
\* permission here) and the one its approval ends in.
Stages == {"DISTRICT_REVIEW", "HO_REVIEW", "PENDING_BANK_APPROVAL"}
Decisions == {"APPROVE", "REJECT", "RETURN"}

Decided(stage, decision) ==
    CASE decision = "REJECT" -> "REJECTED"
      [] decision = "RETURN" -> "RETURNED"
      [] decision = "APPROVE" /\ stage = "DISTRICT_REVIEW" -> "HO_REVIEW"
      [] OTHER -> "SENT_TO_BRANCH_MANAGER"

CanReview(u, f, stage, decision) ==
    /\ Exists(f)
    /\ May(u, stage, f)
    /\ stage = "PENDING_BANK_APPROVAL" => u \in Approvers
    /\ finding[f].status = stage
    /\ decision = "RETURN" => finding[f].creator # u
    /\ PeriodWritable(finding[f].period, stage)

DoReview(f, stage, decision) ==
    /\ MoveTo(f, Decided(stage, decision))
    /\ UNCHANGED <<period, ledgers, signed>>

-----------------------------------------------------------------------------
(* Rectification: rectify, verify-rectification, close, return-rectification *)
(* and resubmit-rectification.                                             *)

RectifiableAlways(u, f) ==
    Exists(f) /\ May(u, "rectify", f) /\ finding[f].status \in Rectifiable /\ HasRoom(f)

MayRectify(u, f) ==
    /\ Exists(f)
    /\ May(u, "rectify", f)
    /\ finding[f].status \in Rectifiable
    /\ PeriodWritable(finding[f].period, "RECTIFY")
    /\ HasRoom(f)

BothPositive(n) == n["cases"] > 0 /\ n["amount"] > 0

\* Money needs a case to attach it to; a case may cost nothing.
Sensible(n) == n # Zero /\ (n["amount"] > 0 => n["cases"] > 0)

ExhaustsByMoney(f, n) ==
    Outstanding(f)["amount"] > 0 /\ n["amount"] = Outstanding(f)["amount"] =>
        n["cases"] = Outstanding(f)["cases"]

\* An entry that exhausts the cases exhausts the amount too, and an entry that
\* exhausts an amount exhausts the cases too.
ExhaustsTogether(f, n) ==
    /\ n["cases"] = Outstanding(f)["cases"] => n["amount"] = Outstanding(f)["amount"]
    /\ Outstanding(f)["amount"] > 0 /\ n["amount"] = Outstanding(f)["amount"] =>
          n["cases"] = Outstanding(f)["cases"]

\* A plain finding: the two numbers typed in
CanRectify(u, f, n) ==
    /\ MayRectify(u, f)
    /\ finding[f].items = <<>>
    /\ Sensible(n)
    /\ ExhaustsTogether(f, n)
    /\ AtMost(n, Outstanding(f))

\* An itemised finding: how often the request's caseIds list each case it
\* picks.  A case listed twice counts twice, whatever it is ticked off.
Picked(f, picks) ==
    LET times(i) == IF i \in DOMAIN picks THEN picks[i] ELSE 0
        items == finding[f].items
    IN  [d \in Dim |-> IF d = "cases" THEN SumOf([i \in DOMAIN items |-> times(i)])
                                     ELSE SumOf([i \in DOMAIN items |-> times(i) * items[i]])]

CanRectifyItems(u, f, picks) ==
    /\ MayRectify(u, f)
    /\ finding[f].items # <<>>
    /\ DOMAIN picks # {}
    /\ DOMAIN picks \subseteq DOMAIN finding[f].items \ finding[f].done
    /\ AtMost(Picked(f, picks), Outstanding(f))

DoRectify(f, n, S) ==
    LET r == Plus(finding[f].rectified, n)
    IN  /\ finding' = [finding EXCEPT
              ![f].rectified = r,
              ![f].done = @ \cup S,
              ![f].status = IF Covers(r, f) THEN "RECTIFIED" ELSE "PARTIALLY_RECTIFIED"]
        /\ rectifications' = [rectifications EXCEPT ![f] =
              Append(@, [period |-> finding[f].period, qty |-> n, after |-> Len(transfers[f])])]
        /\ AgeSignatures(f)
        /\ UNCHANGED <<period, closures, transfers>>

Verifiable(f) == Minus(finding[f].rectified, finding[f].verified)

CanVerify(u, f) ==
    /\ Exists(f)
    /\ May(u, "verify-rectification", f)
    /\ finding[f].status \notin {"RECTIFICATION_RETURNED", "CLOSED"}
    /\ \E d \in Dim : Verifiable(f)[d] > 0

DoVerify(u, f, n) ==
    /\ finding' = [finding EXCEPT ![f].verified = Plus(@, n)]
    /\ Sign(u, f)
    /\ UNCHANGED <<period, ledgers>>

UnverifiedClosable(f) == Minus(finding[f].rectified, finding[f].closed)

Closable(f) == Minus(Least(finding[f].rectified, finding[f].verified), finding[f].closed)

\* No assertPeriodWritable here: the route does not call it.
CanClose(u, f) ==
    /\ Exists(f)
    /\ May(u, "close", f)
    /\ finding[f].status \notin {"RECTIFICATION_RETURNED", "CLOSED"}
    /\ \E d \in Dim : Closable(f)[d] > 0
    /\ HasRoom(f)

DoCloseCapped(u, f, n) ==
    LET c == Least(Plus(finding[f].closed, n), finding[f].total)
    IN  /\ finding' = [finding EXCEPT
              ![f].closed = c, ![f].status = IF Covers(c, f) THEN "CLOSED" ELSE @]
        /\ closures' = [closures EXCEPT ![f] =
              Append(@, [period |-> finding[f].period, qty |-> n])]
        /\ Sign(u, f)
        /\ UNCHANGED <<period, rectifications, transfers>>

DoClose(u, f, n) ==
    LET c == Plus(finding[f].closed, n)
    IN  /\ finding' = [finding EXCEPT
              ![f].closed = c,
              ![f].status = IF Covers(c, f) THEN "CLOSED" ELSE @]
        /\ closures' = [closures EXCEPT ![f] =
              Append(@, [period |-> finding[f].period, qty |-> n])]
        /\ Sign(u, f)
        /\ UNCHANGED <<period, rectifications, transfers>>

\* A user with the HO permission alone waits for the district's verification.
MayReturn(u, f) ==
    \/ May(u, "return-rectification", f)
    \/ May(u, "district-return-rectification", f)
    \/ May(u, "ho-return-rectification", f) /\ \E d \in Dim : finding[f].verified[d] > 0

CanReturn(u, f) ==
    /\ Exists(f)
    /\ finding[f].status \in Returnable
    /\ MayReturn(u, f)
    /\ ~SignedOff(u, f)
    /\ finding[f].status = "TRANSFERRED" => RectifiedSinceTransfer(f)
    /\ PeriodWritable(finding[f].period, "RETURN")

DoReturnUnverified(f) ==
    /\ finding' = [finding EXCEPT ![f].status = "RECTIFICATION_RETURNED",
                                  ![f].rectified = finding[f].verified]
    /\ UNCHANGED <<period, ledgers, signed>>

DoReturn(f) ==
    /\ MoveTo(f, "RECTIFICATION_RETURNED")
    /\ UNCHANGED <<period, ledgers, signed>>

CanResubmit(u, f) ==
    /\ Exists(f)
    /\ May(u, "rectify", f)
    /\ finding[f].status = "RECTIFICATION_RETURNED"
    /\ PeriodWritable(finding[f].period, "RESUBMIT")

DoResubmit(f) ==
    /\ MoveTo(f, CASE Covers(finding[f].rectified, f) -> "RECTIFIED"
                   [] finding[f].rectified = Zero /\ ~Covers(finding[f].rectified, f)
                         -> "SENT_TO_BRANCH_MANAGER"
                   [] OTHER -> "PARTIALLY_RECTIFIED")
    /\ UNCHANGED <<period, ledgers, signed>>

-----------------------------------------------------------------------------
(* Reopening and transfer. *)

CanReopenLocked(u, f) ==
    /\ Exists(f) /\ May(u, "reopen", f)
    /\ finding[f].status = "CLOSED" \/ \E d \in Dim : finding[f].closed[d] > 0

CanReopen(u, f) ==
    /\ Exists(f)
    /\ May(u, "reopen", f)
    /\ finding[f].status = "CLOSED" \/ \E d \in Dim : finding[f].closed[d] > 0
    /\ PeriodWritable(finding[f].period, "REOPEN")

ReopenedWithTicks(f) ==
    [finding[f] EXCEPT !.status = "SENT_TO_BRANCH_MANAGER", !.rectified = Zero,
                       !.verified = Zero, !.closed = Zero]

ReopenedByAction(f) ==
    [finding[f] EXCEPT !.status = "REOPEN", !.rectified = Zero,
                       !.verified = Zero, !.closed = Zero, !.done = {}]

Reopened(f) ==
    [finding[f] EXCEPT !.status = "SENT_TO_BRANCH_MANAGER", !.rectified = Zero,
                       !.verified = Zero, !.closed = Zero, !.done = {}]

SignaturesAfterReopen(f) ==
    signed' = [signed EXCEPT ![f] =
                 [v \in Users |-> IF @[v] = "never" THEN "never" ELSE "current"]]

DoReopenKeepingClosures(f) ==
    /\ finding' = [finding EXCEPT ![f] = Reopened(f)]
    /\ rectifications' = [rectifications EXCEPT ![f] = <<>>]
    /\ SignaturesAfterReopen(f)
    /\ UNCHANGED <<period, closures, transfers>>

DoReopenWithTransfers(f) ==
    /\ finding' = [finding EXCEPT ![f] = Reopened(f)]
    /\ rectifications' = [rectifications EXCEPT ![f] = <<>>]
    /\ closures' = [closures EXCEPT ![f] = <<>>]
    /\ transfers' = [transfers EXCEPT ![f] = <<>>]
    /\ SignaturesAfterReopen(f)
    /\ UNCHANGED period

\* The rectification and closure rows go, the transfers stay.  The audit log
\* stays too: with no rectification row left, every signature counts as one
\* "after the last".
DoReopen(f) ==
    /\ finding' = [finding EXCEPT ![f] = Reopened(f)]
    /\ rectifications' = [rectifications EXCEPT ![f] = <<>>]
    /\ closures' = [closures EXCEPT ![f] = <<>>]
    /\ SignaturesAfterReopen(f)
    /\ UNCHANGED <<period, transfers>>

\* What a transfer carries: everything not formally closed.
Unclosed(f) == Minus(finding[f].total, finding[f].closed)

SwappedMove(f, q) == [from |-> q, to |-> finding[f].period, qty |-> Unclosed(f)]

OutstandingMove(f, q) == [from |-> finding[f].period, to |-> q, qty |-> Outstanding(f)]

Move(f, q) == [from |-> finding[f].period, to |-> q, qty |-> Unclosed(f)]

Transferred(f, q) == [finding[f] EXCEPT !.period = q, !.status = "TRANSFERRED"]

Elsewhere(f, q) == q # finding[f].period

\* The period the finding leaves starts before the one it goes to.
Onward(f, q) ==
    /\ q # finding[f].period
    /\ InUse(finding[f].period) => period[q].at > period[finding[f].period].at

\* The period a finding leaves may be LOCKED.
CanTransfer(u, f, q) ==
    /\ Exists(f)
    /\ May(u, "transfer", f)
    /\ finding[f].status \in Transferable
    /\ period[q].status = "OPEN"
    /\ Onward(f, q)
    /\ HasRoom(f)

DoTransfer(f, q) ==
    /\ finding' = [finding EXCEPT ![f] = Transferred(f, q)]
    /\ transfers' = [transfers EXCEPT ![f] = Append(@, Move(f, q))]
    /\ UNCHANGED <<period, rectifications, closures, signed>>

-----------------------------------------------------------------------------
(* Reporting periods: POST, PATCH and DELETE of /api/admin/reporting-periods. *)

FreeDate(p, at) == \A q \in Periods \ {p} : InUse(q) => period[q].at # at

InPeriod(p) == {f \in Findings : Exists(f) /\ finding[f].period = p}

CanCreatePeriod(u, p, at) ==
    /\ "reporting-periods.create" \in Grants[u]
    /\ ~InUse(p)
    /\ FreeDate(p, at)

DoCreatePeriod(p, at) ==
    /\ period' = [period EXCEPT
          ![p] = [status |-> "LOCKED", drafts |-> TRUE, window |-> TRUE, at |-> at]]
    /\ UNCHANGED <<finding, ledgers, signed>>

\* A PATCH: the status asked for, or KEEP; the drafts flag and the new start
\* date, each the set of the value sent, or of none.  Asking for the status
\* the period has is refused when nothing else is sent; a new date is
\* refused while a finding is in the period, and when it is taken.  A submission
\* window sent along is a MoveWindow of its own.
CanPatchPeriod(u, p, req) ==
    /\ "reporting-periods.lock" \in Grants[u]
    /\ InUse(p)
    /\ req.status = period[p].status => req.drafts # {} \/ req.at # {}
    /\ \A at \in req.at : InPeriod(p) = {} /\ FreeDate(p, at)

\* isStatusChange, as the handler computes it before updateDb
ChangesStatus(p, req) == req.status \notin {"KEEP", period[p].status}

Sent(values, otherwise) == IF values = {} THEN otherwise ELSE CHOOSE v \in values : TRUE

\* findAutoTransferDestination: the first OPEN period after p, now at `at'
Destinations(p, at) ==
    LET open == {q \in Periods \ {p} : period[q].status = "OPEN" /\ period[q].at > at}
    IN  {q \in open : \A r \in open : period[q].at <= period[r].at}

\* outstandingTransferableFindings
Sweepable(p) == {f \in InPeriod(p) : finding[f].status \in Transferable}

RoomToSweep(p) == \A f \in Sweepable(p) : HasRoom(f)

\* sweep: the locking user's transferOverdueCases, with
\* Settings.autoTransferOnLock on.
DoPatchPeriod(p, req, changes, sweep) ==
    LET at    == Sent(req.at, period[p].at)
        dests == Destinations(p, at)
        moved == IF changes /\ req.status = "LOCKED" /\ sweep /\ dests # {}
                 THEN Sweepable(p) ELSE {}
        dest  == CHOOSE q \in dests : TRUE
    IN  /\ period' = [period EXCEPT
              ![p].status = IF changes THEN req.status ELSE @,
              ![p].drafts = Sent(req.drafts, @),
              ![p].at = at]
        /\ finding' = [f \in Findings |->
              IF f \in moved THEN Transferred(f, dest) ELSE finding[f]]
        /\ transfers' = [f \in Findings |->
              IF f \in moved THEN Append(transfers[f], Move(f, dest)) ELSE transfers[f]]
        /\ UNCHANGED <<rectifications, closures, signed>>

\* The submission window opens or closes: its dates pass, or an admin's PATCH
\* moves them.
MoveWindow(p) ==
    /\ InUse(p)
    /\ period' = [period EXCEPT ![p].window = ~@]
    /\ UNCHANGED <<finding, ledgers, signed>>

\* The ledger rows that hold the id of a period, in columns no key constrains
InTransfers(f, p) == \E i \in DOMAIN transfers[f] : p \in {transfers[f][i].from, transfers[f][i].to}

InWork(f, p) ==
    \/ \E i \in DOMAIN rectifications[f] : rectifications[f][i].period = p
    \/ \E i \in DOMAIN closures[f] : closures[f][i].period = p

NamedByWork(p) == {f \in Findings : InWork(f, p)}

NamedBy(p) == {f \in Findings : InWork(f, p) \/ InTransfers(f, p)}

CanDeletePeriod(u, p) ==
    /\ "reporting-periods.delete" \in Grants[u]
    /\ InUse(p)
    /\ InPeriod(p) = {}
    /\ NamedBy(p) = {}

DoDeletePeriod(p) ==
    /\ period' = [period EXCEPT ![p] = NoPeriod]
    /\ UNCHANGED <<finding, ledgers, signed>>

-----------------------------------------------------------------------------
(* An empty database: no findings, no periods. *)

TablesInit ==
    /\ finding = [f \in Findings |-> NoFinding]
    /\ period = [p \in Periods |-> NoPeriod]
    /\ rectifications = [f \in Findings |-> <<>>]
    /\ closures = [f \in Findings |-> <<>>]
    /\ transfers = [f \in Findings |-> <<>>]
    /\ signed = [f \in Findings |-> [u \in Users |-> "never"]]
=============================================================================
