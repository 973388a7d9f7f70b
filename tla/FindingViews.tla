---------------------------- MODULE FindingViews ----------------------------
(***************************************************************************)
(* What users are shown of the finding workflow, as functions of the       *)
(* tables: the buttons and forms of a finding's page, the bulk toolbar of  *)
(* the findings list, and the work queues.  The routes decide; these views *)
(* repeat their rules by hand in the browser, and the properties say where *)
(* the two agree.                                                          *)
(***************************************************************************)
EXTENDS FindingWorkflow

-----------------------------------------------------------------------------
(* A finding's page: which buttons its permissions object turns on.  The   *)
(* page looks at roles, ownership, statuses and counters, never at the     *)
(* period's lock or submission window.                                     *)

AuthoredDraft(u, f) == finding[f].creator = u /\ finding[f].status = "DRAFT"

Authored(u, f) == finding[f].creator = u /\ finding[f].status \in Editable

\* canDistrictReturnRectification or canHoReturnRectification
ShowsReturn(u, f) ==
    /\ finding[f].status \in Returnable
    /\ ~SignedOff(u, f)
    /\ finding[f].status = "TRANSFERRED" => RectifiedSinceTransfer(f)
    /\ \/ May(u, "return-rectification", f) \/ May(u, "district-return-rectification", f)
       \/ /\ May(u, "ho-return-rectification", f)
          /\ \E d \in Dim : finding[f].verified[d] > 0

ShowsRectifyByStatus(u, f) == May(u, "rectify", f) /\ finding[f].status \in Rectifiable

\* Without the balance a fully rectified finding that was transferred or sent
\* back would offer a form on which every entry is refused.
ShowsRectify(u, f) ==
    /\ May(u, "rectify", f)
    /\ finding[f].status \in Rectifiable
    /\ \E d \in Dim : Outstanding(f)[d] > 0

ShowsReview(u, f, stage) ==
    /\ May(u, stage, f)
    /\ finding[f].status = stage
    /\ stage = "PENDING_BANK_APPROVAL" => u \in Approvers

Shows(u, f, button) ==
    CASE button = "edit" -> May(u, "edit", f) /\ Authored(u, f)
      [] button = "submit" -> May(u, "submit", f) /\ Authored(u, f)
      [] button = "delete" ->
            \/ May(u, "delete", f) /\ finding[f].creator = u /\ finding[f].status = "DRAFT"
            \/ May(u, "delete-rejected", f) /\ finding[f].status = "REJECTED"
      [] button = "reopen" ->
            /\ May(u, "reopen", f)
            /\ finding[f].status = "CLOSED" \/ \E d \in Dim : finding[f].closed[d] > 0
      [] button \in {"APPROVE", "REJECT"} -> \E stage \in Stages : ShowsReview(u, f, stage)
      [] button = "RETURN" ->
            finding[f].creator # u /\ \E stage \in Stages : ShowsReview(u, f, stage)
      [] button = "rectify" -> ShowsRectify(u, f)
      [] button = "verify" ->
            /\ May(u, "verify-rectification", f)
            /\ finding[f].status \in Returnable
            /\ \E d \in Dim : Verifiable(f)[d] > 0
      [] button = "close" ->
            /\ May(u, "close", f)
            /\ finding[f].status \notin {"CLOSED", "RECTIFICATION_RETURNED"}
            /\ \E d \in Dim : Closable(f)[d] > 0
      [] button = "return" -> ShowsReturn(u, f)
      [] button = "resubmit" ->
            May(u, "rectify", f) /\ finding[f].status = "RECTIFICATION_RETURNED"
      [] button = "transfer" -> May(u, "transfer", f) /\ finding[f].status \in Transferable

Buttons == {"edit", "submit", "delete", "reopen", "rectify", "verify", "close", "return",
            "resubmit", "transfer"} \cup Decisions

\* otherOpenPeriods: what the transfer card lists
OtherOpenPeriods(f) ==
    {q \in Periods \ {finding[f].period} :
        period[q].status = "OPEN" /\ period[q].at > period[finding[f].period].at}

-----------------------------------------------------------------------------
(* The rectification form.                                                 *)

\* The only case left is rectified as a whole: the two fields are filled in
\* and cannot be edited.
SingleCaseRemaining(f) == finding[f].items = <<>> /\ Outstanding(f)["cases"] = 1

FormLetsThroughStrictly(f, n) ==
    /\ n["amount"] > 0 => n["cases"] > 0
    /\ n["cases"] = Outstanding(f)["cases"] <=> n["amount"] = Outstanding(f)["amount"]

\* handleRectify's checks before it sends the entry
FormLetsThrough(f, n) ==
    /\ n["amount"] > 0 => n["cases"] > 0
    /\ n["cases"] = Outstanding(f)["cases"] => n["amount"] = Outstanding(f)["amount"]
    /\ Outstanding(f)["amount"] > 0 /\ n["amount"] = Outstanding(f)["amount"] =>
          n["cases"] = Outstanding(f)["cases"]

\* Plain entries the form can send
FormEntries(f) ==
    IF SingleCaseRemaining(f) THEN {Outstanding(f)}
    ELSE {n \in Entries : FormLetsThrough(f, n)}

-----------------------------------------------------------------------------
(* What the routes accept of what a button sends.                          *)

Accepts(u, f, button) ==
    CASE button = "edit" -> CanEdit(u, f, finding[f].period, <<>>)
      [] button = "submit" -> CanSubmit(u, f)
      [] button = "delete" -> CanDelete(u, f)
      [] button = "reopen" -> CanReopen(u, f)
      [] button \in Decisions -> \E stage \in Stages : CanReview(u, f, stage, button)
      [] button = "rectify" ->
            \/ \E n \in Entries : CanRectify(u, f, n)
            \/ \E S \in SUBSET DOMAIN finding[f].items : CanRectifyItems(u, f, Once(S))
      [] button = "verify" -> CanVerify(u, f)
      [] button = "close" -> CanClose(u, f)
      [] button = "return" -> CanReturn(u, f)
      [] button = "resubmit" -> CanResubmit(u, f)
      [] button = "transfer" -> \E q \in Periods : CanTransfer(u, f, q)

-----------------------------------------------------------------------------
(* The bulk toolbar of the findings list, with a row's live figures.       *)

BulkShows(u, f, button) ==
    CASE button = "submit" -> May(u, "submit", f) /\ Authored(u, f)
      [] button \in Decisions ->
            \/ \E stage \in Stages \ {"PENDING_BANK_APPROVAL"} :
                  finding[f].status = stage /\ May(u, stage, f)
            \/ finding[f].status = "PENDING_BANK_APPROVAL" /\ u \in Approvers
      [] button = "verify" ->
            /\ May(u, "verify-rectification", f)
            /\ finding[f].status \in Returnable
            /\ \E d \in Dim : Verifiable(f)[d] > 0
      [] button = "return" ->
            May(u, "return-rectification", f) /\ finding[f].status \in Returnable
      [] button = "close" -> May(u, "close", f) /\ \E d \in Dim : Closable(f)[d] > 0
      [] OTHER -> FALSE

-----------------------------------------------------------------------------
(* queueStatusesForSession: a finding waits in u's work queue.             *)

BranchWork == {"SENT_TO_BRANCH_MANAGER", "PARTIALLY_RECTIFIED", "RECTIFICATION_RETURNED"}

Queued(u, f) ==
    \/ May(u, "edit", f) /\ finding[f].status \in Editable
    \/ May(u, "submit", f) /\ finding[f].status \in Editable
    \/ \E stage \in Stages \ {"PENDING_BANK_APPROVAL"} :
          finding[f].status = stage /\ May(u, stage, f)
    \/ finding[f].status = "PENDING_BANK_APPROVAL" /\ u \in Approvers
    \/ May(u, "rectify", f) /\ finding[f].status \in BranchWork
    \/ /\ May(u, "verify-rectification", f) \/ May(u, "return-rectification", f)
       /\ finding[f].status \notin {"RECTIFICATION_RETURNED", "CLOSED"}
       /\ \E d \in Dim : Verifiable(f)[d] > 0
    \/ /\ May(u, "close", f) /\ finding[f].status # "CLOSED"
       /\ \E d \in Dim : Closable(f)[d] > 0

-----------------------------------------------------------------------------
(* Invariants. *)

\* The period lets the routes through and the models' ledger bound does not bite.
Unhindered(f) ==
    period[finding[f].period].status = "OPEN" /\ period[finding[f].period].window /\ HasRoom(f)

\* A button of a finding's page is never a dead end while the period is open:
\* some request it can send is accepted, whichever entry the locked form makes
\* and whichever destination the transfer card lists.
OffersAccepted ==
    \A u \in Users, f \in Present : Unhindered(f) =>
        /\ \A b \in Buttons \ {"transfer"} : Shows(u, f, b) => Accepts(u, f, b)
        /\ Shows(u, f, "transfer") => \A q \in OtherOpenPeriods(f) : CanTransfer(u, f, q)

\* And nothing a user could do is missing from the page, nor a transfer's
\* possible destination from its list.
NothingHidden ==
    \A u \in Users, f \in Present :
        /\ \A b \in Buttons : Accepts(u, f, b) => Shows(u, f, b)
        /\ \A q \in Periods : CanTransfer(u, f, q) => q \in OtherOpenPeriods(f)

\* The rectification form copies the exhaustion rules of the route by hand:
\* it keeps back no entry the route would take, and when it has locked the
\* entry to the one case left, the route takes that entry.
FormMirrorsRoute ==
    \A u \in Users, f \in Present :
        /\ \A n \in Entries : CanRectify(u, f, n) => n \in FormEntries(f)
        /\ SingleCaseRemaining(f) /\ Unhindered(f) /\ ShowsRectify(u, f) =>
              CanRectify(u, f, Outstanding(f))

\* The finding's page and the routes behind it agree: it offers what they
\* accept, hides nothing they accept, and its form holds back no entry they take.
PagesMirrorRoutes == OffersAccepted /\ NothingHidden /\ FormMirrorsRoute

\* The comment above bulkPermissions: "the exact same gates the Finding detail
\* page uses per action, so bulk never offers something a single-finding
\* attempt would then reject".
BulkOffersAccepted ==
    \A u \in Users, f \in Present : Unhindered(f) =>
        \A b \in Buttons : BulkShows(u, f, b) => Accepts(u, f, b)
=============================================================================
