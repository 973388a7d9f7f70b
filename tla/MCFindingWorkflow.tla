-------------------------- MODULE MCFindingWorkflow --------------------------
(***************************************************************************)
(* Instances of FindingWorkflow: a branch user who registers and rectifies,*)
(* a district controller and a head-office controller, with the            *)
(* permissions their roles are seeded with; an administrator's duties are  *)
(* given to head office.                                                   *)
(***************************************************************************)
EXTENDS FindingImport, TLC

CONSTANTS branch, district, ho, f1, p1, p2, p3

MCUsers == {branch, district, ho}

BranchGrants == {"create", "edit", "delete", "submit", "rectify"}

DistrictGrants ==
    {"DISTRICT_REVIEW", "verify-rectification", "district-return-rectification",
     "close", "transfer"}

HoGrants ==
    {"create", "edit", "submit", "HO_REVIEW", "PENDING_BANK_APPROVAL", "close",
     "ho-return-rectification", "delete-rejected", "import", "reverse-import",
     "reporting-periods.create", "reporting-periods.lock", "reporting-periods.delete"}

\* Nobody may reopen a finding
GrantsNoReopen == (branch :> BranchGrants) @@ (district :> DistrictGrants) @@ (ho :> HoGrants)

\* As seeded: the administrator's reopen permission with head office
GrantsAll ==
    (branch :> BranchGrants) @@ (district :> DistrictGrants) @@ (ho :> HoGrants \cup {"reopen"})

\* The workflow's Spec, with nothing imported
MCSpec == imported = {} /\ Init /\ [][Next /\ UNCHANGED imported]_everything

MCScope == [u \in MCUsers |-> {f1}]

Q(c, a) == [d \in Dim |-> IF d = "cases" THEN c ELSE a]

\* Ids are interchangeable: the calendar places of a period are data.
PeriodSymmetry == Permutations(Periods)

CoreTotals == {Q(2, 2), Q(2, 0)}
MixedTotals == {Q(1, 2), Q(2, 0)}
ItemTotals == {Q(2, 3)}
SomeBreakdowns == {<<0, 2>>, <<2, 2>>}
LooseBreakdowns == {<<1, 2>>, <<2, 2>>, <<1, 1>>}
AnyFlag == BOOLEAN
None == {}
=============================================================================
