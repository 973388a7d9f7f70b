---------------------------- MODULE Organisation ----------------------------
(***************************************************************************)
(* Districts, branches and departments, the users placed in them, and the  *)
(* findings filed under them.  Every row names units by id; branches and   *)
(* departments can move while users, sessions and findings still name the  *)
(* place they had before.                                                  *)
(*                                                                         *)
(* Requests come one at a time.  Permissions, codes and names are left     *)
(* out; so is a finding's status, so that an edit may come at any time     *)
(* (the workflow is FindingWorkflow).                                      *)
(***************************************************************************)
EXTENDS FiniteSets

CONSTANTS Districts, Branches, Departments, Staff, Records

VARIABLES
    district,    \* district[d]: the row of districts, by its status
    branch,      \* branch[b]: the row of branches, or Nothing
    department,  \* department[x]: the row of departments, or Nothing
    person,      \* person[u]: where users has u, or Nothing
    badge,       \* badge[u]: where u's session has u, or Nothing
    record       \* record[f]: where finding f is filed, or Nothing

orgVars == <<district, branch, department, person, badge, record>>

Nothing == [is |-> "nothing"]
None == "none"
Gone == "gone"
Conditions == {"ACTIVE", "INACTIVE"}
Scopes == {"BANK", "DISTRICT", "BRANCH"}

DistrictOrNone == Districts \cup {None}
BranchOrNone == Branches \cup {None}
DepartmentOrNone == Departments \cup {None}

BranchRow == [is : Conditions, district : Districts]
DepartmentRow == [is : Conditions, scope : Scopes, district : DistrictOrNone, branch : BranchOrNone]
Place == [is : {"placed"}, scope : Scopes, district : DistrictOrNone, branch : BranchOrNone]
PersonRow == [is : {"placed"}, scope : Scopes, district : DistrictOrNone, branch : BranchOrNone,
              department : DepartmentOrNone]
Record == [is : {"filed"}, by : Staff, district : Districts, branch : Branches, department : DepartmentOrNone]

HasDistrict(d) == district[d] # Gone
Has(table, x) == table[x] # Nothing

-----------------------------------------------------------------------------
(* org.ts *)

\* resolveOrgScope: refused, or the place it resolves to
Resolvable(scope, d, b) ==
    CASE scope = "BRANCH" -> b \in Branches /\ Has(branch, b)
      [] scope = "DISTRICT" -> d \in Districts /\ HasDistrict(d)
      [] scope = "BANK" -> TRUE

ResolvedAsSent(scope, d, b) == [is |-> "placed", scope |-> scope, district |-> d, branch |-> b]

Resolved(scope, d, b) ==
    [is |-> "placed", scope |-> scope,
     district |-> CASE scope = "BRANCH" -> branch[b].district
                    [] scope = "DISTRICT" -> d
                    [] scope = "BANK" -> None,
     branch |-> IF scope = "BRANCH" THEN b ELSE None]

BranchActive(d, b) == b \in Branches => branch[b].is = "ACTIVE"

\* inactiveOrgUnitError is silent
Active(d, b) ==
    /\ d \in Districts => district[d] = "ACTIVE"
    /\ b \in Branches => branch[b].is = "ACTIVE"

\* isDepartmentInScope, for a finding
Serves(x, d, b) ==
    CASE department[x].scope = "BANK" -> TRUE
      [] department[x].scope = "DISTRICT" -> department[x].district = d
      [] department[x].scope = "BRANCH" -> department[x].branch = b

\* isDepartmentExactScopeForUser
Suits(x, place) ==
    /\ department[x].scope = place.scope
    /\ place.scope = "BRANCH" => department[x].branch = place.branch
    /\ place.scope = "DISTRICT" => department[x].district = place.district

\* isFindingInScope
InScope(place, f) ==
    CASE place.scope = "BANK" -> TRUE
      [] place.scope = "DISTRICT" -> record[f].district = place.district
      [] place.scope = "BRANCH" -> record[f].branch = place.branch

-----------------------------------------------------------------------------
(* Districts and branches. *)

CreateDistrict(d) ==
    /\ ~HasDistrict(d)
    /\ district' = [district EXCEPT ![d] = "ACTIVE"]
    /\ UNCHANGED <<branch, department, person, badge, record>>

PatchDistrict(d, condition) ==
    /\ HasDistrict(d)
    /\ district' = [district EXCEPT ![d] = condition]
    /\ UNCHANGED <<branch, department, person, badge, record>>

PeopleIn(field, unit) == {u \in Staff : Has(person, u) /\ person[u][field] = unit}

NothingFiled(field, unit) == TRUE

\* The foreign keys of findings: onDelete Restrict
Unfiled(field, unit) == \A f \in Records : Has(record, f) => record[f][field] # unit

DeleteDistrict(d) ==
    /\ HasDistrict(d)
    /\ \A b \in Branches : Has(branch, b) => branch[b].district # d
    /\ PeopleIn("district", d) = {}
    /\ Unfiled("district", d)
    /\ district' = [district EXCEPT ![d] = Gone]
    /\ UNCHANGED <<branch, department, person, badge, record>>

CreateBranch(b, d) ==
    /\ ~Has(branch, b) /\ HasDistrict(d)
    /\ branch' = [branch EXCEPT ![b] = [is |-> "ACTIVE", district |-> d]]
    /\ UNCHANGED <<district, department, person, badge, record>>

\* Moving a branch moves neither its users, nor their sessions, nor its findings.
PatchBranch(b, condition, d) ==
    /\ Has(branch, b) /\ HasDistrict(d)
    /\ branch' = [branch EXCEPT ![b] = [is |-> condition, district |-> d]]
    /\ UNCHANGED <<district, department, person, badge, record>>

DeleteBranch(b) ==
    /\ Has(branch, b)
    /\ PeopleIn("branch", b) = {}
    /\ Unfiled("branch", b)
    /\ branch' = [branch EXCEPT ![b] = Nothing]
    /\ UNCHANGED <<district, department, person, badge, record>>

-----------------------------------------------------------------------------
(* Departments.  Their district and branch are no foreign keys. *)

DepartmentAt(condition, place) ==
    [is |-> condition, scope |-> place.scope, district |-> place.district, branch |-> place.branch]

CreateDepartment(x, scope, d, b) ==
    /\ ~Has(department, x) /\ Resolvable(scope, d, b)
    /\ department' = [department EXCEPT ![x] = DepartmentAt("ACTIVE", Resolved(scope, d, b))]
    /\ UNCHANGED <<district, branch, person, badge, record>>

ToggleDepartment(x, condition) ==
    /\ Has(department, x)
    /\ department' = [department EXCEPT ![x].is = condition]
    /\ UNCHANGED <<district, branch, person, badge, record>>

\* The edit form always sends the scope; a unit it leaves out stays.
RescopeDepartment(x, scope, d, b) ==
    LET nextDistrict == IF d = None THEN department[x].district ELSE d
        nextBranch == IF b = None THEN department[x].branch ELSE b
    IN  /\ Has(department, x) /\ Resolvable(scope, nextDistrict, nextBranch)
        /\ department' = [department EXCEPT ![x] = DepartmentAt(@.is, Resolved(scope, nextDistrict, nextBranch))]
        /\ UNCHANGED <<district, branch, person, badge, record>>

\* Its users have a foreign key.
DeleteDepartment(x) ==
    /\ Has(department, x)
    /\ Unfiled("department", x)
    /\ PeopleIn("department", x) = {}
    /\ department' = [department EXCEPT ![x] = Nothing]
    /\ UNCHANGED <<district, branch, person, badge, record>>

-----------------------------------------------------------------------------
(* Users: where an account is created or moved to, and the session that    *)
(* keeps the place its login read.                                         *)

Existing(x, place) == x # None => Has(department, x) /\ department[x].is = "ACTIVE"

Selectable(x, place) == x # None => Has(department, x) /\ department[x].is = "ACTIVE" /\ Suits(x, place)

SameUnits(p, q) == p.district = q.district /\ p.branch = q.branch

\* Only a move into a deactivated unit is refused.
PlacePerson(u, scope, d, b, x) ==
    /\ Resolvable(scope, d, b)
    /\ LET place == Resolved(scope, d, b)
       IN  /\ (Has(person, u) /\ SameUnits(place, person[u])) \/ Active(place.district, place.branch)
           /\ Selectable(x, place)
           /\ person' = [person EXCEPT ![u] =
                  [is |-> "placed", scope |-> scope, district |-> place.district,
                   branch |-> place.branch, department |-> x]]
    /\ UNCHANGED <<district, branch, department, badge, record>>

\* An account that findings refer to cannot be deleted.
RemovePerson(u) ==
    /\ Has(person, u)
    /\ \A f \in Records : Has(record, f) => record[f].by # u
    /\ person' = [person EXCEPT ![u] = Nothing]
    /\ badge' = [badge EXCEPT ![u] = Nothing]
    /\ UNCHANGED <<district, branch, department, record>>

LogIn(u) ==
    /\ Has(person, u)
    /\ badge' = [badge EXCEPT ![u] =
          [is |-> "placed", scope |-> person[u].scope, district |-> person[u].district, branch |-> person[u].branch]]
    /\ UNCHANGED <<district, branch, department, person, record>>

-----------------------------------------------------------------------------
(* Findings. *)

WithinBank(place, d, b) == branch[b].district = d

\* Where a session may file a finding: a branch session under the units it
\* carries, any other under a branch and that branch's district.
WithinReach(place, d, b) ==
    IF place.scope = "BRANCH"
      THEN d = place.district /\ b = place.branch
      ELSE /\ branch[b].district = d
           /\ place.scope = "DISTRICT" => d = place.district

FileFinding(f, u, d, b, x) ==
    /\ Has(badge, u) /\ ~Has(record, f) /\ Has(branch, b) /\ HasDistrict(d)
    /\ WithinReach(badge[u], d, b)
    /\ Active(d, b)
    /\ x # None => Has(department, x) /\ department[x].is = "ACTIVE" /\ Serves(x, d, b)
    /\ record' = [record EXCEPT ![f] = [is |-> "filed", by |-> u, district |-> d, branch |-> b, department |-> x]]
    /\ UNCHANGED <<district, branch, department, person, badge>>

MayMoveAnywhere(place, f, d, b) == place.scope = "BRANCH" => d = record[f].district /\ b = record[f].branch

MayMove(place, f, d, b) ==
    /\ place.scope = "BRANCH" => d = record[f].district /\ b = record[f].branch
    /\ place.scope = "DISTRICT" => d = place.district

EditFinding(f, d, b, x) ==
    LET u == record[f].by
    IN  /\ Has(record, f) /\ Has(badge, u) /\ InScope(badge[u], f)
        /\ MayMove(badge[u], f, d, b)
        /\ Has(branch, b) /\ branch[b].district = d
        /\ <<d, b>> = <<record[f].district, record[f].branch>> \/ Active(d, b)
        /\ x # None => /\ Has(department, x) /\ Serves(x, d, b)
                       /\ department[x].is = "ACTIVE" \/ x = record[f].department
        /\ record' = [record EXCEPT ![f].district = d, ![f].branch = b, ![f].department = x]
        /\ UNCHANGED <<district, branch, department, person, badge>>

\* A draft is deleted, or an import that made it reversed.
DropFinding(f) ==
    /\ Has(record, f)
    /\ record' = [record EXCEPT ![f] = Nothing]
    /\ UNCHANGED <<district, branch, department, person, badge>>

-----------------------------------------------------------------------------
Init ==
    /\ district = [d \in Districts |-> Gone]
    /\ branch = [b \in Branches |-> Nothing]
    /\ department = [x \in Departments |-> Nothing]
    /\ person = [u \in Staff |-> Nothing]
    /\ badge = [u \in Staff |-> Nothing]
    /\ record = [f \in Records |-> Nothing]

UnitStep ==
    \/ \E d \in Districts :
          CreateDistrict(d) \/ DeleteDistrict(d) \/ \E c \in Conditions : PatchDistrict(d, c)
    \/ \E b \in Branches :
          \/ DeleteBranch(b)
          \/ \E d \in Districts : CreateBranch(b, d) \/ \E c \in Conditions : PatchBranch(b, c, d)

DepartmentStep ==
    \E x \in Departments :
        \/ DeleteDepartment(x)
        \/ \E c \in Conditions : ToggleDepartment(x, c)
        \/ \E s \in Scopes, d \in DistrictOrNone, b \in BranchOrNone :
              CreateDepartment(x, s, d, b) \/ RescopeDepartment(x, s, d, b)

PersonStep ==
    \E u \in Staff :
        \/ LogIn(u) \/ RemovePerson(u)
        \/ \E s \in Scopes, d \in DistrictOrNone, b \in BranchOrNone, x \in DepartmentOrNone :
              PlacePerson(u, s, d, b, x)

RecordStep ==
    \E f \in Records :
        \/ DropFinding(f)
        \/ \E d \in Districts, b \in Branches, x \in DepartmentOrNone :
              EditFinding(f, d, b, x) \/ \E u \in Staff : FileFinding(f, u, d, b, x)

Next == UnitStep \/ DepartmentStep \/ PersonStep \/ RecordStep

Spec == Init /\ [][Next]_orgVars

-----------------------------------------------------------------------------
(* Properties. *)

Tiered(place) ==
    /\ place.branch # None <=> place.scope = "BRANCH"
    /\ place.district = None <=> place.scope = "BANK"

\* Rows have their shape; a place names exactly the units its tier has.
TypeOK ==
    /\ district \in [Districts -> Conditions \cup {Gone}]
    /\ branch \in [Branches -> BranchRow \cup {Nothing}]
    /\ department \in [Departments -> DepartmentRow \cup {Nothing}]
    /\ person \in [Staff -> PersonRow \cup {Nothing}]
    /\ badge \in [Staff -> Place \cup {Nothing}]
    /\ record \in [Records -> Record \cup {Nothing}]
    /\ \A place \in {person[u] : u \in Staff} \cup {badge[u] : u \in Staff}
                     \cup {department[x] : x \in Departments} : place # Nothing => Tiered(place)

\* Whatever moves where, nothing names a unit that was deleted: a district
\* whose branches have moved away still has the findings filed under it.
\* (Departments may: their units are no foreign keys.)
NothingDangles ==
    /\ \A b \in Branches : Has(branch, b) => HasDistrict(branch[b].district)
    /\ \A u \in Staff : Has(person, u) =>
          /\ person[u].district # None => HasDistrict(person[u].district)
          /\ person[u].branch # None => Has(branch, person[u].branch)
          /\ person[u].department # None => Has(department, person[u].department)
    /\ \A f \in Records : Has(record, f) =>
          /\ HasDistrict(record[f].district) /\ Has(branch, record[f].branch)
          /\ record[f].department # None => Has(department, record[f].department)

InUse(place) ==
    /\ place.district # None => district[place.district] = "ACTIVE"
    /\ place.branch # None => branch[place.branch].is = "ACTIVE"

\* "A deactivated district/branch can't receive anything new - no new user
\* assignment, no new finding": whichever route puts a user or a finding in
\* a place, by whichever session, the place is active.
NothingNewInDeactivated ==
    [][/\ \A u \in Staff :
             Has(person, u)' /\ (Has(person, u) => ~SameUnits(person'[u], person[u])) =>
                 InUse(person'[u])
       /\ \A f \in Records :
             Has(record, f)' /\ (Has(record, f) => ~SameUnits(record'[f], record[f])) =>
                 InUse(record'[f])]_orgVars

\* "moving a user to a different branch shouldn't silently leave them holding
\* a department scoped to their old branch"
MovedUserFits ==
    [][\A u \in Staff :
          Has(person, u)' /\ (Has(person, u) => ~SameUnits(person'[u], person[u])) =>
              (person'[u].department # None => Suits(person'[u].department, person'[u]))]_orgVars

\* No user files a finding, or moves one, to where the own session cannot see it.
OwnWorkStaysInScope ==
    [][\A f \in Records :
          Has(record, f)' /\ record'[f] # record[f] => InScope(badge[record[f].by], f)']_orgVars

\* A new finding is filed under the district its branch belongs to.
FiledUnderBranchDistrict ==
    [][\A f \in Records :
          Has(record, f)' /\ ~Has(record, f) =>
              record'[f].district = branch[record'[f].branch].district]_orgVars
=============================================================================
