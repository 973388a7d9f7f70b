------------------------- MODULE ConcurrentRequests -------------------------
(***************************************************************************)
(* Requests that overlap.  A handler decides on its first read - readDb,   *)
(* then the early returns - and writes in updateDb, which reads again but, *)
(* in every route except reopen, checks nothing again.  Between the two,   *)
(* other requests commit.                                                  *)
(*                                                                         *)
(* updateDb itself is one step here; AuditedStore is about its inside.     *)
(* What the database refuses at the commit is kept: a foreign key to a     *)
(* period that is gone, a date already taken, a finding that is gone (the  *)
(* mutator's lookup returns undefined and the request dies).               *)
(***************************************************************************)
EXTENDS FindingWorkflow

CONSTANT Workers   \* requests in progress at a time, at most

ASSUME WorkersAssumption == Workers # {}

VARIABLE pending   \* pending[w]: the request w decided on and has not written

vars == <<tables, pending>>

Idle == [op |-> "none"]

\* arg: what the mutator takes from the request and from the first read
Asks(op, u, x, arg) == [op |-> op, by |-> u, of |-> x, arg |-> arg]

-----------------------------------------------------------------------------
(* The first half. *)

Begins(w, request) ==
    /\ pending[w] = Idle
    /\ pending' = [pending EXCEPT ![w] = request]
    /\ UNCHANGED tables

BeginCreate(w, u, f) ==
    \E p \in Periods, total \in Totals, submit \in BOOLEAN :
        /\ CanCreate(u, f, p, total, <<>>, submit)
        /\ Begins(w, Asks("create", u, f, [period |-> p, total |-> total, submit |-> submit]))

BeginEdit(w, u, f) ==
    \E q \in Periods, changes \in Changes :
        /\ CanEdit(u, f, q, changes)
        /\ Begins(w, Asks("edit", u, f, [period |-> q, changes |-> changes]))

BeginReview(w, u, f) ==
    \E stage \in Stages, decision \in Decisions :
        /\ CanReview(u, f, stage, decision)
        /\ Begins(w, Asks("review", u, f, [stage |-> stage, decision |-> decision]))

BeginAnyRectify(w, u, f) ==
    \E n \in Entries : MayRectify(u, f) /\ Begins(w, Asks("rectify", u, f, n))

BeginRectify(w, u, f) ==
    \E n \in Entries : CanRectify(u, f, n) /\ Begins(w, Asks("rectify", u, f, n))

BeginTransfer(w, u, f) ==
    \E q \in Periods : CanTransfer(u, f, q) /\ Begins(w, Asks("transfer", u, f, q))

BeginOnFinding(w, u, f) ==
    \/ BeginCreate(w, u, f)
    \/ BeginEdit(w, u, f)
    \/ CanDelete(u, f) /\ Begins(w, Asks("delete", u, f, {}))
    \/ CanSubmit(u, f) /\ Begins(w, Asks("submit", u, f, {}))
    \/ BeginReview(w, u, f)
    \/ BeginRectify(w, u, f)
    \/ CanVerify(u, f) /\ Begins(w, Asks("verify", u, f, Verifiable(f)))
    \/ CanClose(u, f) /\ Begins(w, Asks("close", u, f, Closable(f)))
    \/ CanReturn(u, f) /\ Begins(w, Asks("return", u, f, {}))
    \/ CanResubmit(u, f) /\ Begins(w, Asks("resubmit", u, f, {}))
    \/ CanReopen(u, f) /\ Begins(w, Asks("reopen", u, f, {}))
    \/ BeginTransfer(w, u, f)

\* Only a lock looks at transferOverdueCases.
BeginPatchPeriod(w, u, p) ==
    \E req \in PatchRequests, sweep \in BOOLEAN :
        /\ CanPatchPeriod(u, p, req)
        /\ sweep => ChangesStatus(p, req) /\ req.status = "LOCKED"
        /\ Begins(w, Asks("patch-period", u, p,
                          [req |-> req, changes |-> ChangesStatus(p, req), sweep |-> sweep]))

BeginOnPeriod(w, u, p) ==
    \/ \E at \in Dates : CanCreatePeriod(u, p, at) /\ Begins(w, Asks("create-period", u, p, at))
    \/ BeginPatchPeriod(w, u, p)
    \/ CanDeletePeriod(u, p) /\ Begins(w, Asks("delete-period", u, p, {}))

Begin(w) ==
    \E u \in Users :
        \/ \E f \in Findings : BeginOnFinding(w, u, f)
        \/ \E p \in Periods : BeginOnPeriod(w, u, p)

-----------------------------------------------------------------------------
(* The second half. *)

Asked(w, op) == pending[w].op = op

\* A finding's id is new, so its slot must be free of older requests too.
Unclaimed(w, f) == \A v \in Workers \ {w} : pending[v] # Idle => pending[v].of # f

CommitOnFinding(w) ==
    LET u == pending[w].by
        f == pending[w].of
        arg == pending[w].arg
    IN  \/ /\ Asked(w, "create") /\ ~Exists(f) /\ Unclaimed(w, f)
           /\ InUse(arg.period)
           /\ DoCreate(u, f, arg.period, arg.total, <<>>, arg.submit)
        \/ Asked(w, "edit") /\ Exists(f) /\ InUse(arg.period) /\ DoEdit(f, arg.period, arg.changes)
        \/ Asked(w, "delete") /\ DoDelete(f)
        \/ Asked(w, "submit") /\ Exists(f) /\ DoSubmit(u, f)
        \/ Asked(w, "review") /\ Exists(f) /\ DoReview(f, arg.stage, arg.decision)
        \/ Asked(w, "rectify") /\ Exists(f) /\ HasRoom(f) /\ DoRectify(f, arg, {})
        \/ Asked(w, "verify") /\ Exists(f) /\ DoVerify(u, f, arg)
        \/ Asked(w, "close") /\ Exists(f) /\ HasRoom(f) /\ DoClose(u, f, arg)
        \/ Asked(w, "return") /\ Exists(f) /\ DoReturn(f)
        \/ Asked(w, "resubmit") /\ Exists(f) /\ DoResubmit(f)
        \/ Asked(w, "reopen") /\ CanReopen(u, f) /\ DoReopen(f)
        \/ Asked(w, "transfer") /\ Exists(f) /\ HasRoom(f) /\ InUse(arg) /\ DoTransfer(f, arg)

Unguarded(p) == TRUE

\* The foreign key of findings.periodId (onDelete: Restrict)
Unheld(p) == InPeriod(p) = {}

CommitOnPeriod(w) ==
    LET p == pending[w].of
        arg == pending[w].arg
    IN  \/ /\ Asked(w, "create-period") /\ ~InUse(p) /\ Unclaimed(w, p)
           /\ FreeDate(p, arg)
           /\ DoCreatePeriod(p, arg)
        \/ /\ Asked(w, "patch-period") /\ InUse(p)
           /\ \A at \in arg.req.at : FreeDate(p, at)
           /\ RoomToSweep(p)
           /\ DoPatchPeriod(p, arg.req, arg.changes, arg.sweep)
        \/ Asked(w, "delete-period") /\ Unheld(p) /\ DoDeletePeriod(p)

Commit(w) ==
    /\ pending[w] # Idle
    /\ CommitOnFinding(w) \/ CommitOnPeriod(w)
    /\ pending' = [pending EXCEPT ![w] = Idle]

\* The write is refused - two requests took the same audit sequence number, a
\* row is gone - or the process dies: nothing is written.
Fail(w) ==
    /\ pending[w] # Idle
    /\ pending' = [pending EXCEPT ![w] = Idle]
    /\ UNCHANGED tables

CInit == TablesInit /\ pending = [w \in Workers |-> Idle]

\* Submission windows stay open here: only Submit and Create look at them.
CNext == \E w \in Workers : Begin(w) \/ Commit(w) \/ Fail(w)

ConcurrentSpec == CInit /\ [][CNext]_vars

-----------------------------------------------------------------------------
(* Properties.  Those of FindingWorkflow that survive are checked as they  *)
(* stand; the ones below are the parts that do of those that do not.       *)

\* One request at a time, the two halves are the one step of FindingWorkflow.
SequentialWhenAlone == Spec

\* A finding is always in a period there is: the foreign key sees to it, even
\* when the period is deleted while the finding is on its way there.
CurrentPeriodExists == \A f \in Present : InUse(finding[f].period)

\* History is only ever added to, or wiped as a whole by a reopening: no
\* interleaving drops or rewrites a single row.  Imports and their reversals
\* are not among the requests here (FindingImport has them one at a time).
HistoryKept ==
    [][\A f \in Findings : Exists(f) /\ Exists(f)' =>
          /\ IsPrefix(transfers[f], transfers'[f])
          /\ \/ /\ IsPrefix(rectifications[f], rectifications'[f])
                /\ IsPrefix(closures[f], closures'[f])
             \/ /\ rectifications'[f] = <<>> /\ closures'[f] = <<>>
                /\ finding'[f].closed = Zero]_vars

\* A reopening is complete whatever else was under way: it restarts the
\* finding with nothing on record, in a period that accepts changes.
ReopenIsWhole ==
    [][\A f \in Findings :
          /\ Exists(f) /\ Exists(f)'
          /\ \/ ~IsPrefix(rectifications[f], rectifications'[f])
             \/ ~IsPrefix(closures[f], closures'[f])
          =>
          /\ finding'[f].status = "SENT_TO_BRANCH_MANAGER"
          /\ finding'[f].rectified = Zero /\ finding'[f].verified = Zero
          /\ period[finding[f].period].status = "OPEN"]_vars
=============================================================================
