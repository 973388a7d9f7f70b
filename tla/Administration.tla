--------------------------- MODULE Administration ---------------------------
(***************************************************************************)
(* The administration's three bodies of data beside the users: the         *)
(* organisation, scoring, and what the reports read.  They share no table, *)
(* so their interleavings say nothing that each alone does not; `part`     *)
(* chooses which of them moves, and one run checks all three.              *)
(***************************************************************************)
EXTENDS Naturals, Sequences, FiniteSets, TLC

CONSTANTS Districts, Branches, Departments, Staff, Records,              \* Organisation
          Categories, Sources,                                           \* Scoring, Reports
          Rules, UsedSources, Filters,                                   \* Scoring
          Findings, AuditSource, RuleSources, ReportFilters, LastPeriod, LastDay, MaxCases         \* Reports

\* Every table is finite; a rule and a template name sources there are.
ASSUME ReportsAssumption ==
    /\ IsFiniteSet(Findings) /\ IsFiniteSet(Districts) /\ IsFiniteSet(Categories) /\ IsFiniteSet(Sources)
    /\ RuleSources \subseteq SUBSET Sources /\ ReportFilters \subseteq SUBSET Sources
    /\ LastPeriod \in Nat /\ LastDay \in Nat \ {0} /\ MaxCases \in Nat

VARIABLES part,
          district, branch, department, person, badge, record,          \* Organisation
          category, source, rule, template, waiting,                    \* Scoring
          districtActive, categoryActive, liveRule, filter, ledger, today  \* Reports

Organisation == INSTANCE Organisation
Scoring == INSTANCE Scoring
Reports == INSTANCE ReportPages WITH rule <- liveRule, record <- ledger, Filters <- ReportFilters

organisationVars == <<district, branch, department, person, badge, record>>
scoringVars == <<category, source, rule, template, waiting>>
reportVars == <<districtActive, categoryActive, liveRule, filter, ledger, today>>
vars == <<part, organisationVars, scoringVars, reportVars>>

Init ==
    /\ part \in {"organisation", "scoring", "reports"}
    /\ Organisation!Init /\ Scoring!Init /\ Reports!Init
    /\ part # "reports" => liveRule = Reports!NoRule

Next ==
    \/ part = "organisation" /\ Organisation!Next /\ UNCHANGED <<part, scoringVars, reportVars>>
    \/ part = "scoring" /\ Scoring!Next /\ UNCHANGED <<part, organisationVars, reportVars>>
    \/ part = "reports" /\ Reports!Next /\ UNCHANGED <<part, organisationVars, scoringVars>>

Spec == Init /\ [][Next]_vars

-----------------------------------------------------------------------------
(* The properties, under the names they have in their modules              *)

\* Organisation: a deactivated district or branch receives nobody and nothing new.
NothingNewInDeactivated == Organisation!NothingNewInDeactivated

\* Organisation: a moved user keeps no department of the old place, and
\* nobody files or moves a finding out of the own sight.
StaffFitTheirPlace == Organisation!MovedUserFits /\ Organisation!OwnWorkStaysInScope

\* Scoring: of the versions and of the sources, at most one is singled out.
OneSingledOut == Scoring!OneActiveRule /\ Scoring!OneDefaultSource

\* Scoring: a live version is not rewritten, nor does what it names go away, but
\* by the one request that had passed its check before the version went live.
LiveVersionStands == Scoring!LiveVersionStands /\ Scoring!NamedUnitsStay

\* Reports: rows and weeks add up - the listed districts to the bank, today's
\* snapshot to the official figure - and, of the districts where no finding was
\* reopened after a transfer, so do the months to the lifetime figure, and no
\* period closes more than it answers for.
ReportsAddUp ==
    part = "reports" =>
        /\ Reports!DistrictRowsCoverBank
        /\ Reports!HistoryAddsUp
        /\ Reports!NoPercentageAbove100
        /\ Reports!SnapshotMatchesOfficial
        /\ Reports!WeekBalances
        /\ Reports!PagesAgree

\* Reports: what was reported of a past day is not undone by what is closed or
\* transferred later, and a branch's own report of a period by nothing that
\* happens to it once it is official.
PastStandsStill == Reports!PastStandsStill /\ Reports!CoverageStands

\* Nothing names a deleted unit, and every table keeps its shape.
TypeOK == Organisation!TypeOK /\ Organisation!NothingDangles /\ Scoring!TypeOK /\ Reports!TypeOK

\* Reports: the detail report's export shows what its page shows (it does not).
ExportMatchesScreen == part = "reports" => Reports!ExportMatchesScreen

\* Organisation: a finding is filed under its branch's district (it may not be).
FiledUnderBranchDistrict == Organisation!FiledUnderBranchDistrict

\* Scoring: a version that ever went live is never rewritten (it may be).
LiveVersionFrozen == Scoring!LiveVersionFrozen
=============================================================================
