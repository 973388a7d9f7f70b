------------------------- MODULE Administration_proofs -------------------------
(***************************************************************************)
(* The three parts of the administration, for any number of units, users,  *)
(* findings, versions and sources.  The organisation: nothing new in a     *)
(* deactivated unit, nothing that names a deleted one.  Scoring: one live  *)
(* version, one default source, and a live version that stands.  The       *)
(* reports: their rows, months, weeks and pages add up, and what was       *)
(* reported of a past day stands.                                          *)
(***************************************************************************)
EXTENDS Administration, PeriodResidency_proofs

-----------------------------------------------------------------------------
(* The organisation. *)

\* The shape of its tables
OrganisationShaped ==
    /\ district \in [Districts -> Organisation!Conditions \cup {Organisation!Gone}]
    /\ branch \in [Branches -> Organisation!BranchRow \cup {Organisation!Nothing}]
    /\ department \in [Departments -> Organisation!DepartmentRow \cup {Organisation!Nothing}]
    /\ person \in [Staff -> Organisation!PersonRow \cup {Organisation!Nothing}]
    /\ badge \in [Staff -> Organisation!Place \cup {Organisation!Nothing}]
    /\ record \in [Records -> Organisation!Record \cup {Organisation!Nothing}]

OrganisationInv == OrganisationShaped /\ Organisation!NothingDangles

\* A row that is there has the fields of its table.
LEMMA RowsThere ==
    ASSUME OrganisationShaped
    PROVE  /\ \A b \in Branches : Organisation!Has(branch, b) => branch[b] \in Organisation!BranchRow
           /\ \A x \in Departments : Organisation!Has(department, x) => department[x] \in Organisation!DepartmentRow
           /\ \A u \in Staff : Organisation!Has(person, u) => person[u] \in Organisation!PersonRow
           /\ \A u \in Staff : Organisation!Has(badge, u) => badge[u] \in Organisation!Place
           /\ \A f \in Records : Organisation!Has(record, f) => record[f] \in Organisation!Record
    BY DEF OrganisationShaped, Organisation!Has

\* No row looks like one that is not there.
LEMMA NothingIsNoRow ==
    Organisation!Nothing \notin Organisation!BranchRow \cup Organisation!DepartmentRow
        \cup Organisation!PersonRow \cup Organisation!Place \cup Organisation!Record
    BY DEF Organisation!Nothing, Organisation!BranchRow, Organisation!DepartmentRow, Organisation!PersonRow,
       Organisation!Place, Organisation!Record, Organisation!Conditions

\* What a scope resolves to names units there are, and none but those of its tier.
LEMMA Resolving ==
    ASSUME OrganisationInv, NEW scope \in Organisation!Scopes, NEW d, NEW b,
           Organisation!Resolvable(scope, d, b), NEW place, place = Organisation!Resolved(scope, d, b)
    PROVE  /\ place.scope = scope
           /\ place.district = Organisation!None \/
                (place.district \in Districts /\ Organisation!HasDistrict(place.district))
           /\ place.branch = Organisation!None \/
                (place.branch \in Branches /\ Organisation!Has(branch, place.branch))
<1>1. CASE scope = "BRANCH"
    <2>1. b \in Branches /\ Organisation!Has(branch, b)
        BY <1>1 DEF Organisation!Resolvable
    <2>2. branch[b].district \in Districts /\ Organisation!HasDistrict(branch[b].district)
        BY <2>1, RowsThere DEF OrganisationInv, Organisation!NothingDangles, Organisation!BranchRow
    <2> QED
        BY <1>1, <2>1, <2>2 DEF Organisation!Resolved
<1>2. CASE scope = "DISTRICT"
    BY <1>2 DEF Organisation!Resolvable, Organisation!Resolved
<1>3. CASE scope = "BANK"
    BY <1>3 DEF Organisation!Resolvable, Organisation!Resolved
<1> QED
    BY <1>1, <1>2, <1>3 DEF Organisation!Scopes

\* What a placing writes
LEMMA Placing ==
    ASSUME OrganisationInv, NEW u \in Staff, NEW scope \in Organisation!Scopes,
           NEW d, NEW b, NEW x \in Organisation!DepartmentOrNone,
           Organisation!PlacePerson(u, scope, d, b, x)
    PROVE  \E row \in Organisation!PersonRow :
              /\ person' = [person EXCEPT ![u] = row]
              /\ row.district # Organisation!None => row.district \in Districts /\ Organisation!HasDistrict(row.district)
              /\ row.branch # Organisation!None => row.branch \in Branches /\ Organisation!Has(branch, row.branch)
              /\ row.department # Organisation!None =>
                    Organisation!Has(department, row.department) /\ Organisation!Suits(row.department, row)
              /\ \/ Organisation!Has(person, u) /\ Organisation!SameUnits(row, person[u])
                 \/ Organisation!InUse(row)
<1>1. PICK place : place = Organisation!Resolved(scope, d, b)
    OBVIOUS
<1>2. /\ Organisation!Resolvable(scope, d, b)
      /\ (Organisation!Has(person, u) /\ Organisation!SameUnits(place, person[u]))
           \/ Organisation!Active(place.district, place.branch)
      /\ Organisation!Selectable(x, place)
    BY <1>1 DEF Organisation!PlacePerson
<1>3. PICK row : row = [is |-> "placed", scope |-> scope, district |-> place.district,
                        branch |-> place.branch, department |-> x]
    OBVIOUS
<1>4. person' = [person EXCEPT ![u] = row]
    BY <1>1, <1>3 DEF Organisation!PlacePerson
<1>5. /\ place.scope = scope
      /\ place.district = Organisation!None \/
           (place.district \in Districts /\ Organisation!HasDistrict(place.district))
      /\ place.branch = Organisation!None \/
           (place.branch \in Branches /\ Organisation!Has(branch, place.branch))
    BY <1>1, <1>2, Resolving
<1>6. row \in Organisation!PersonRow
    BY <1>3, <1>5 DEF Organisation!PersonRow, Organisation!DistrictOrNone, Organisation!BranchOrNone
<1>7. /\ row.scope = place.scope /\ row.district = place.district /\ row.branch = place.branch
      /\ row.department = x
    BY <1>3, <1>5
<1>8. row.department # Organisation!None =>
          Organisation!Has(department, row.department) /\ Organisation!Suits(row.department, row)
    BY <1>2, <1>7 DEF Organisation!Selectable, Organisation!Suits
<1>9. \/ Organisation!Has(person, u) /\ Organisation!SameUnits(row, person[u])
      \/ Organisation!InUse(row)
    BY <1>2, <1>5, <1>7 DEF Organisation!SameUnits, Organisation!Active, Organisation!InUse
<1> QED
    BY <1>4, <1>5, <1>6, <1>7, <1>8, <1>9

\* What a filing or an edit writes
LEMMA Filing ==
    ASSUME OrganisationInv, NEW f \in Records, NEW d \in Districts, NEW b \in Branches,
           NEW x \in Organisation!DepartmentOrNone,
           \/ Organisation!EditFinding(f, d, b, x)
           \/ \E u \in Staff : Organisation!FileFinding(f, u, d, b, x)
    PROVE  \E row \in Organisation!Record :
              /\ record' = [record EXCEPT ![f] = row]
              /\ row.district = d /\ row.branch = b /\ row.department = x
              /\ Organisation!HasDistrict(d) /\ Organisation!Has(branch, b)
              /\ x # Organisation!None => Organisation!Has(department, x)
              /\ \/ Organisation!Has(record, f) /\ Organisation!SameUnits(row, record[f])
                 \/ Organisation!InUse(row)
              /\ Organisation!Has(badge, row.by)
              /\ badge[row.by].scope = "DISTRICT" => badge[row.by].district = d
              /\ badge[row.by].scope = "BRANCH" => badge[row.by].branch = b
<1>1. CASE Organisation!EditFinding(f, d, b, x)
    <2>1. PICK row : row = [record[f] EXCEPT !.district = d, !.branch = b, !.department = x]
        OBVIOUS
    <2>2. /\ Organisation!Has(record, f) /\ Organisation!Has(badge, record[f].by)
          /\ Organisation!InScope(badge[record[f].by], f)
          /\ Organisation!MayMove(badge[record[f].by], f, d, b)
          /\ Organisation!Has(branch, b) /\ branch[b].district = d
          /\ <<d, b>> = <<record[f].district, record[f].branch>> \/ Organisation!Active(d, b)
          /\ x # Organisation!None => Organisation!Has(department, x)
        BY <1>1 DEF Organisation!EditFinding
    <2>3. record[f] \in Organisation!Record
        BY <2>2, RowsThere DEF OrganisationInv
    <2>4. /\ row \in Organisation!Record /\ row.by = record[f].by
          /\ row.district = d /\ row.branch = b /\ row.department = x
        BY <2>1, <2>3 DEF Organisation!Record
    <2>5. record' = [record EXCEPT ![f] = row]
        BY <1>1, <2>1, <2>3 DEF Organisation!EditFinding, OrganisationInv, OrganisationShaped, Organisation!Record
    <2>6. Organisation!HasDistrict(d)
        BY <2>2 DEF OrganisationInv, Organisation!NothingDangles
    <2>7. Organisation!SameUnits(row, record[f]) \/ Organisation!InUse(row)
        BY <2>2, <2>4 DEF Organisation!SameUnits, Organisation!Active, Organisation!InUse
    <2>8. /\ badge[row.by].scope = "DISTRICT" => badge[row.by].district = d
          /\ badge[row.by].scope = "BRANCH" => badge[row.by].branch = b
        BY <2>2, <2>4 DEF Organisation!InScope, Organisation!MayMove
    <2> QED
        BY <2>2, <2>4, <2>5, <2>6, <2>7, <2>8
<1>2. ASSUME NEW u \in Staff, Organisation!FileFinding(f, u, d, b, x)
      PROVE  \E row \in Organisation!Record :
                /\ record' = [record EXCEPT ![f] = row]
                /\ row.district = d /\ row.branch = b /\ row.department = x
                /\ Organisation!HasDistrict(d) /\ Organisation!Has(branch, b)
                /\ x # Organisation!None => Organisation!Has(department, x)
                /\ Organisation!InUse(row)
                /\ Organisation!Has(badge, row.by)
                /\ badge[row.by].scope = "DISTRICT" => badge[row.by].district = d
                /\ badge[row.by].scope = "BRANCH" => badge[row.by].branch = b
    <2>1. PICK row : row = [is |-> "filed", by |-> u, district |-> d, branch |-> b, department |-> x]
        OBVIOUS
    <2>2. /\ Organisation!Has(badge, u) /\ Organisation!Has(branch, b) /\ Organisation!HasDistrict(d)
          /\ Organisation!WithinReach(badge[u], d, b) /\ Organisation!Active(d, b)
          /\ x # Organisation!None => Organisation!Has(department, x)
        BY <1>2 DEF Organisation!FileFinding
    <2>3. /\ row \in Organisation!Record /\ row.by = u
          /\ row.district = d /\ row.branch = b /\ row.department = x
        BY <2>1 DEF Organisation!Record
    <2>4. record' = [record EXCEPT ![f] = row]
        BY <1>2, <2>1 DEF Organisation!FileFinding
    <2>5. Organisation!InUse(row)
        BY <2>2, <2>3 DEF Organisation!Active, Organisation!InUse
    <2>6. /\ badge[u].scope = "DISTRICT" => badge[u].district = d
          /\ badge[u].scope = "BRANCH" => badge[u].branch = b
        BY <2>2 DEF Organisation!WithinReach
    <2> QED
        BY <2>2, <2>3, <2>4, <2>5, <2>6
<1> QED
    BY <1>1, <1>2

\* What the steps on units leave of the tables that name them
LEMMA UnitStepFits ==
    ASSUME OrganisationInv, Organisation!UnitStep
    PROVE  OrganisationInv' /\ UNCHANGED <<person, record, badge>>
<1>1. /\ OrganisationShaped /\ UNCHANGED <<department, person, badge, record>>
    BY DEF OrganisationInv, Organisation!UnitStep, Organisation!CreateDistrict, Organisation!DeleteDistrict,
       Organisation!PatchDistrict, Organisation!CreateBranch, Organisation!DeleteBranch, Organisation!PatchBranch
<1>2. ASSUME NEW d \in Districts, NEW s \in Organisation!Conditions, UNCHANGED branch,
             district' = [district EXCEPT ![d] = s]
      PROVE  OrganisationInv'
    <2>1. OrganisationShaped'
        BY <1>1, <1>2 DEF OrganisationShaped
    <2>2. \A e \in Districts : Organisation!HasDistrict(e) => district'[e] # Organisation!Gone
        BY <1>1, <1>2 DEF OrganisationShaped, Organisation!HasDistrict, Organisation!Conditions, Organisation!Gone
    <2>3. Organisation!NothingDangles'
        BY <1>1, <1>2, <2>2, RowsThere DEF OrganisationInv, Organisation!NothingDangles, Organisation!Has,
           Organisation!HasDistrict, Organisation!BranchRow, Organisation!PersonRow, Organisation!Record,
           Organisation!DistrictOrNone
    <2> QED
        BY <2>1, <2>3 DEF OrganisationInv
<1>3. ASSUME NEW d \in Districts, Organisation!DeleteDistrict(d)
      PROVE  OrganisationInv'
    <2>1. OrganisationShaped'
        BY <1>1, <1>3 DEF OrganisationShaped, Organisation!DeleteDistrict
    <2>2. /\ \A e \in Districts \ {d} : district'[e] = district[e]
          /\ \A b \in Branches : Organisation!Has(branch, b) => branch[b].district # d
          /\ \A u \in Staff : Organisation!Has(person, u) => person[u].district # d
          /\ \A f \in Records : Organisation!Has(record, f) => record[f].district # d
          /\ UNCHANGED branch
        BY <1>1, <1>3 DEF OrganisationShaped, Organisation!DeleteDistrict, Organisation!PeopleIn, Organisation!Unfiled
    <2>3. Organisation!NothingDangles'
        BY <1>1, <2>2, RowsThere DEF OrganisationInv, Organisation!NothingDangles, Organisation!Has,
           Organisation!HasDistrict, Organisation!BranchRow, Organisation!PersonRow, Organisation!Record,
           Organisation!DistrictOrNone
    <2> QED
        BY <2>1, <2>3 DEF OrganisationInv
<1>4. ASSUME NEW b \in Branches, NEW d \in Districts, NEW s \in Organisation!Conditions,
             Organisation!HasDistrict(d), UNCHANGED district,
             branch' = [branch EXCEPT ![b] = [is |-> s, district |-> d]]
      PROVE  OrganisationInv'
    <2>1. PICK row \in Organisation!BranchRow : row = [is |-> s, district |-> d]
        BY DEF Organisation!BranchRow
    <2>2. OrganisationShaped'
        BY <1>1, <1>4, <2>1 DEF OrganisationShaped
    <2>3. /\ branch'[b] # Organisation!Nothing /\ branch'[b].district = d
          /\ \A c \in Branches \ {b} : branch'[c] = branch[c]
        BY <1>1, <1>4, <2>1, NothingIsNoRow DEF OrganisationShaped
    <2>4. Organisation!NothingDangles'
        BY <1>1, <1>4, <2>3, RowsThere DEF OrganisationInv, Organisation!NothingDangles, Organisation!Has,
           Organisation!HasDistrict, Organisation!PersonRow, Organisation!Record, Organisation!BranchOrNone
    <2> QED
        BY <2>2, <2>4 DEF OrganisationInv
<1>5. ASSUME NEW b \in Branches, Organisation!DeleteBranch(b)
      PROVE  OrganisationInv'
    <2>1. OrganisationShaped'
        BY <1>1, <1>5 DEF OrganisationShaped, Organisation!DeleteBranch
    <2>2. /\ branch'[b] = Organisation!Nothing
          /\ \A c \in Branches \ {b} : branch'[c] = branch[c]
          /\ \A u \in Staff : Organisation!Has(person, u) => person[u].branch # b
          /\ \A f \in Records : Organisation!Has(record, f) => record[f].branch # b
          /\ UNCHANGED district
        BY <1>1, <1>5 DEF OrganisationShaped, Organisation!DeleteBranch, Organisation!PeopleIn, Organisation!Unfiled
    <2>3. Organisation!NothingDangles'
        BY <1>1, <2>2, RowsThere DEF OrganisationInv, Organisation!NothingDangles, Organisation!Has,
           Organisation!HasDistrict, Organisation!PersonRow, Organisation!Record, Organisation!BranchOrNone
    <2> QED
        BY <2>1, <2>3 DEF OrganisationInv
<1>6. ASSUME NEW d \in Districts, NEW s \in Organisation!Conditions,
             Organisation!CreateDistrict(d) \/ Organisation!PatchDistrict(d, s)
      PROVE  OrganisationInv'
    BY <1>2, <1>6 DEF Organisation!CreateDistrict, Organisation!PatchDistrict, Organisation!Conditions
<1>7. ASSUME NEW b \in Branches, NEW d \in Districts, NEW s \in Organisation!Conditions,
             Organisation!CreateBranch(b, d) \/ Organisation!PatchBranch(b, s, d)
      PROVE  OrganisationInv'
    BY <1>4, <1>7 DEF Organisation!CreateBranch, Organisation!PatchBranch, Organisation!Conditions
<1>8. "ACTIVE" \in Organisation!Conditions
    BY DEF Organisation!Conditions
<1> QED
    BY <1>1, <1>3, <1>5, <1>6, <1>7, <1>8 DEF Organisation!UnitStep

\* The steps on departments name units there are, and no user's or finding's
\* department goes away.
LEMMA DepartmentStepFits ==
    ASSUME OrganisationInv, Organisation!DepartmentStep
    PROVE  OrganisationInv' /\ UNCHANGED <<person, record, badge>>
<1>1. OrganisationShaped /\ UNCHANGED <<district, branch, person, badge, record>>
    BY DEF OrganisationInv, Organisation!DepartmentStep, Organisation!CreateDepartment,
       Organisation!DeleteDepartment, Organisation!ToggleDepartment, Organisation!RescopeDepartment
<1>2. ASSUME NEW x \in Departments, NEW row \in Organisation!DepartmentRow,
             department' = [department EXCEPT ![x] = row]
      PROVE  OrganisationInv'
    <2>1. OrganisationShaped'
        BY <1>1, <1>2 DEF OrganisationShaped
    <2>2. \A y \in Departments : Organisation!Has(department, y) => department'[y] # Organisation!Nothing
        BY <1>1, <1>2, NothingIsNoRow DEF OrganisationShaped, Organisation!Has
    <2>3. Organisation!NothingDangles'
        BY <1>1, <2>2, RowsThere DEF OrganisationInv, Organisation!NothingDangles, Organisation!Has,
           Organisation!HasDistrict, Organisation!PersonRow, Organisation!Record, Organisation!DepartmentOrNone
    <2> QED
        BY <2>1, <2>3 DEF OrganisationInv
<1>3. ASSUME NEW x \in Departments, Organisation!DeleteDepartment(x)
      PROVE  OrganisationInv'
    <2>1. OrganisationShaped'
        BY <1>1, <1>3 DEF OrganisationShaped, Organisation!DeleteDepartment
    <2>2. /\ \A y \in Departments \ {x} : department'[y] = department[y]
          /\ \A u \in Staff : Organisation!Has(person, u) => person[u].department # x
          /\ \A f \in Records : Organisation!Has(record, f) => record[f].department # x
        BY <1>1, <1>3 DEF OrganisationShaped, Organisation!DeleteDepartment, Organisation!PeopleIn,
           Organisation!Unfiled
    <2>3. Organisation!NothingDangles'
        BY <1>1, <2>2, RowsThere DEF OrganisationInv, Organisation!NothingDangles, Organisation!Has,
           Organisation!HasDistrict, Organisation!PersonRow, Organisation!Record, Organisation!DepartmentOrNone
    <2> QED
        BY <2>1, <2>3 DEF OrganisationInv
<1>4. ASSUME NEW s \in Organisation!Scopes, NEW d, NEW b, Organisation!Resolvable(s, d, b),
             NEW c \in Organisation!Conditions
      PROVE  Organisation!DepartmentAt(c, Organisation!Resolved(s, d, b)) \in Organisation!DepartmentRow
    <2>1. PICK place : place = Organisation!Resolved(s, d, b)
        OBVIOUS
    <2>2. /\ place.scope = s /\ place.district \in Organisation!DistrictOrNone
          /\ place.branch \in Organisation!BranchOrNone
        BY <1>4, <2>1, Resolving DEF Organisation!DistrictOrNone, Organisation!BranchOrNone
    <2>3. Organisation!DepartmentAt(c, place) \in Organisation!DepartmentRow
        BY <1>4, <2>2 DEF Organisation!DepartmentAt, Organisation!DepartmentRow
    <2> QED
        BY <2>1, <2>3
<1>5. ASSUME NEW x \in Departments, NEW c \in Organisation!Conditions, Organisation!ToggleDepartment(x, c)
      PROVE  OrganisationInv'
    <2>1. department[x] \in Organisation!DepartmentRow
        BY <1>1, <1>5, RowsThere DEF Organisation!ToggleDepartment
    <2>2. PICK row : row = [department[x] EXCEPT !.is = c]
        OBVIOUS
    <2>3. row \in Organisation!DepartmentRow
        BY <1>5, <2>1, <2>2 DEF Organisation!DepartmentRow
    <2>4. department' = [department EXCEPT ![x] = row]
        BY <1>1, <1>5, <2>1, <2>2 DEF Organisation!ToggleDepartment, OrganisationShaped, Organisation!DepartmentRow
    <2> QED
        BY <1>2, <2>3, <2>4
<1>6. ASSUME NEW x \in Departments, NEW s \in Organisation!Scopes, NEW d, NEW b,
             Organisation!CreateDepartment(x, s, d, b)
      PROVE  OrganisationInv'
    <2>1. Organisation!DepartmentAt("ACTIVE", Organisation!Resolved(s, d, b)) \in Organisation!DepartmentRow
        BY <1>4, <1>6 DEF Organisation!CreateDepartment, Organisation!Conditions
    <2> QED
        BY <1>2, <1>6, <2>1 DEF Organisation!CreateDepartment
<1>7. ASSUME NEW x \in Departments, NEW s \in Organisation!Scopes, NEW d, NEW b,
             Organisation!RescopeDepartment(x, s, d, b)
      PROVE  OrganisationInv'
    <2>1. PICK dd, bb :
             /\ Organisation!Resolvable(s, dd, bb)
             /\ department' = [department EXCEPT ![x] =
                    Organisation!DepartmentAt(department[x].is, Organisation!Resolved(s, dd, bb))]
        BY <1>7 DEF Organisation!RescopeDepartment
    <2>2. department[x] \in Organisation!DepartmentRow
        BY <1>1, <1>7, RowsThere DEF Organisation!RescopeDepartment
    <2>3. department[x].is \in Organisation!Conditions
        BY <2>2 DEF Organisation!DepartmentRow
    <2>4. Organisation!DepartmentAt(department[x].is, Organisation!Resolved(s, dd, bb)) \in Organisation!DepartmentRow
        BY <1>4, <2>1, <2>3
    <2> QED
        BY <1>2, <2>1, <2>4
<1> QED
    BY <1>1, <1>3, <1>5, <1>6, <1>7 DEF Organisation!DepartmentStep

\* The steps on users: whom a step moves, it moves to units in use, with a
\* department of the new place.
LEMMA PersonStepFits ==
    ASSUME OrganisationInv, Organisation!PersonStep
    PROVE  /\ OrganisationInv' /\ UNCHANGED record
           /\ \A u \in Staff :
                 Organisation!Has(person', u) /\
                 (Organisation!Has(person, u) => ~Organisation!SameUnits(person'[u], person[u])) =>
                     /\ Organisation!InUse(person'[u])
                     /\ person'[u].department # Organisation!None =>
                            Organisation!Suits(person'[u].department, person'[u])
<1>1. OrganisationShaped /\ UNCHANGED <<district, branch, department, record>>
    BY DEF OrganisationInv, Organisation!PersonStep, Organisation!LogIn, Organisation!RemovePerson,
       Organisation!PlacePerson
<1>2. ASSUME NEW u \in Staff, Organisation!RemovePerson(u)
      PROVE  /\ OrganisationInv'
             /\ \A w \in Staff : Organisation!Has(person', w) =>
                    Organisation!Has(person, w) /\ Organisation!SameUnits(person'[w], person[w])
    <2>1. OrganisationShaped'
        BY <1>1, <1>2 DEF OrganisationShaped, Organisation!RemovePerson
    <2>2. \A w \in Staff : Organisation!Has(person', w) => person'[w] = person[w]
        BY <1>1, <1>2 DEF OrganisationShaped, Organisation!RemovePerson, Organisation!Has
    <2>3. Organisation!NothingDangles'
        BY <1>1, <2>2 DEF OrganisationInv, Organisation!NothingDangles, Organisation!Has, Organisation!HasDistrict
    <2> QED
        BY <2>1, <2>2, <2>3 DEF OrganisationInv, Organisation!Has, Organisation!SameUnits
<1>3. ASSUME NEW u \in Staff, Organisation!LogIn(u)
      PROVE  /\ OrganisationInv'
             /\ \A w \in Staff : Organisation!Has(person', w) =>
                    Organisation!Has(person, w) /\ Organisation!SameUnits(person'[w], person[w])
    <2>1. person[u] \in Organisation!PersonRow
        BY <1>1, <1>3, RowsThere DEF Organisation!LogIn
    <2>2. PICK row : row = [is |-> "placed", scope |-> person[u].scope, district |-> person[u].district,
                            branch |-> person[u].branch]
        OBVIOUS
    <2>3. row \in Organisation!Place
        BY <2>1, <2>2 DEF Organisation!PersonRow, Organisation!Place
    <2>4. badge' = [badge EXCEPT ![u] = row] /\ UNCHANGED person
        BY <1>3, <2>2 DEF Organisation!LogIn
    <2>5. OrganisationShaped'
        BY <1>1, <2>3, <2>4 DEF OrganisationShaped
    <2>6. Organisation!NothingDangles'
        BY <1>1, <2>4 DEF OrganisationInv, Organisation!NothingDangles, Organisation!Has, Organisation!HasDistrict
    <2> QED
        BY <2>4, <2>5, <2>6 DEF OrganisationInv, Organisation!SameUnits
<1>4. ASSUME NEW u \in Staff, NEW s \in Organisation!Scopes, NEW d, NEW b,
             NEW x \in Organisation!DepartmentOrNone, Organisation!PlacePerson(u, s, d, b, x)
      PROVE  /\ OrganisationInv'
             /\ \A w \in Staff :
                   Organisation!Has(person', w) /\
                   (Organisation!Has(person, w) => ~Organisation!SameUnits(person'[w], person[w])) =>
                       /\ Organisation!InUse(person'[w])
                       /\ person'[w].department # Organisation!None =>
                              Organisation!Suits(person'[w].department, person'[w])
    <2>1. PICK row \in Organisation!PersonRow :
              /\ person' = [person EXCEPT ![u] = row]
              /\ row.district # Organisation!None => row.district \in Districts /\ Organisation!HasDistrict(row.district)
              /\ row.branch # Organisation!None => row.branch \in Branches /\ Organisation!Has(branch, row.branch)
              /\ row.department # Organisation!None =>
                    Organisation!Has(department, row.department) /\ Organisation!Suits(row.department, row)
              /\ \/ Organisation!Has(person, u) /\ Organisation!SameUnits(row, person[u])
                 \/ Organisation!InUse(row)
        BY <1>4, Placing
    <2>2. person'[u] = row /\ \A w \in Staff \ {u} : person'[w] = person[w]
        BY <1>1, <2>1 DEF OrganisationShaped
    <2>3. UNCHANGED badge
        BY <1>4 DEF Organisation!PlacePerson
    <2>4. OrganisationShaped'
        BY <1>1, <2>1, <2>3 DEF OrganisationShaped
    <2>5. Organisation!NothingDangles'
        BY <1>1, <2>1, <2>2 DEF OrganisationInv, Organisation!NothingDangles, Organisation!Has,
           Organisation!HasDistrict
    <2>6. ASSUME NEW w \in Staff, Organisation!Has(person', w),
                 Organisation!Has(person, w) => ~Organisation!SameUnits(person'[w], person[w])
          PROVE  /\ Organisation!InUse(person'[w])
                 /\ person'[w].department # Organisation!None =>
                        Organisation!Suits(person'[w].department, person'[w])
        <3>1. w = u
            BY <2>2, <2>6 DEF Organisation!Has, Organisation!SameUnits
        <3> QED
            BY <2>1, <2>2, <2>6, <3>1
    <2> QED
        BY <2>4, <2>5, <2>6 DEF OrganisationInv
<1> QED
    BY <1>1, <1>2, <1>3, <1>4 DEF Organisation!PersonStep

\* The steps on findings: what a step files or moves, it puts in units in
\* use, within the sight of the user whose finding it is.
LEMMA RecordStepFits ==
    ASSUME OrganisationInv, Organisation!RecordStep
    PROVE  /\ OrganisationInv' /\ UNCHANGED person
           /\ \A f \in Records :
                 Organisation!Has(record', f) /\
                 (Organisation!Has(record, f) => ~Organisation!SameUnits(record'[f], record[f])) =>
                     Organisation!InUse(record'[f])
           /\ \A f \in Records :
                 Organisation!Has(record', f) /\ record'[f] # record[f] =>
                     Organisation!InScope(badge[record[f].by], f)'
<1>1. OrganisationShaped /\ UNCHANGED <<district, branch, department, person, badge>>
    <2>1. ASSUME NEW f \in Records, NEW d, NEW b, NEW x,
                 \/ Organisation!DropFinding(f) \/ Organisation!EditFinding(f, d, b, x)
                 \/ \E u \in Staff : Organisation!FileFinding(f, u, d, b, x)
          PROVE  UNCHANGED <<district, branch, department, person, badge>>
        BY <2>1, Zenon DEF Organisation!DropFinding, Organisation!FileFinding, Organisation!EditFinding
    <2> QED
        BY <2>1, Zenon DEF OrganisationInv, Organisation!RecordStep
<1>2. ASSUME NEW f \in Records, Organisation!DropFinding(f)
      PROVE  /\ OrganisationInv'
             /\ \A g \in Records : Organisation!Has(record', g) => record'[g] = record[g]
    <2>1. \A g \in Records : Organisation!Has(record', g) => record'[g] = record[g]
        BY <1>1, <1>2 DEF OrganisationShaped, Organisation!DropFinding, Organisation!Has
    <2>2. OrganisationShaped'
        BY <1>1, <1>2 DEF OrganisationShaped, Organisation!DropFinding
    <2>3. Organisation!NothingDangles'
        BY <1>1, <2>1 DEF OrganisationInv, Organisation!NothingDangles, Organisation!Has, Organisation!HasDistrict
    <2> QED
        BY <2>1, <2>2, <2>3 DEF OrganisationInv
<1>3. ASSUME NEW f \in Records, NEW d \in Districts, NEW b \in Branches,
             NEW x \in Organisation!DepartmentOrNone,
             \/ Organisation!EditFinding(f, d, b, x)
             \/ \E u \in Staff : Organisation!FileFinding(f, u, d, b, x)
      PROVE  /\ OrganisationInv'
             /\ \A g \in Records :
                   Organisation!Has(record', g) /\
                   (Organisation!Has(record, g) => ~Organisation!SameUnits(record'[g], record[g])) =>
                       Organisation!InUse(record'[g])
             /\ \A g \in Records :
                   Organisation!Has(record', g) /\ record'[g] # record[g] =>
                       Organisation!InScope(badge[record[g].by], g)'
    <2>1. PICK row \in Organisation!Record :
              /\ record' = [record EXCEPT ![f] = row]
              /\ row.district = d /\ row.branch = b /\ row.department = x
              /\ Organisation!HasDistrict(d) /\ Organisation!Has(branch, b)
              /\ x # Organisation!None => Organisation!Has(department, x)
              /\ \/ Organisation!Has(record, f) /\ Organisation!SameUnits(row, record[f])
                 \/ Organisation!InUse(row)
              /\ Organisation!Has(badge, row.by)
              /\ badge[row.by].scope = "DISTRICT" => badge[row.by].district = d
              /\ badge[row.by].scope = "BRANCH" => badge[row.by].branch = b
        BY <1>3, Filing
    <2>2. record'[f] = row /\ \A g \in Records \ {f} : record'[g] = record[g]
        BY <1>1, <2>1 DEF OrganisationShaped
    <2>3. OrganisationShaped'
        BY <1>1, <2>1 DEF OrganisationShaped
    <2>4. Organisation!NothingDangles'
        BY <1>1, <2>1, <2>2 DEF OrganisationInv, Organisation!NothingDangles, Organisation!Has,
           Organisation!HasDistrict
    <2>5. ASSUME NEW g \in Records, Organisation!Has(record', g),
                 Organisation!Has(record, g) => ~Organisation!SameUnits(record'[g], record[g])
          PROVE  Organisation!InUse(record'[g])
        <3>1. g = f
            BY <2>2, <2>5 DEF Organisation!Has, Organisation!SameUnits
        <3> QED
            BY <2>1, <2>2, <2>5, <3>1
    <2>6. Organisation!InScope(badge[record[f].by], f)'
        <3>1. row.by \in Staff
            BY <2>1 DEF Organisation!Record
        <3>2. badge[row.by].scope \in Organisation!Scopes
            BY <1>1, <2>1, <3>1, RowsThere DEF Organisation!Place
        <3>3. badge' = badge /\ record'[f] = row
            BY <1>1, <2>2
        <3> QED
            BY <2>1, <3>2, <3>3 DEF Organisation!InScope, Organisation!Scopes
    <2>7. ASSUME NEW g \in Records, record'[g] # record[g]
          PROVE  Organisation!InScope(badge[record[g].by], g)'
        <3>1. g = f
            BY <2>2, <2>7
        <3> QED
            BY <2>6, <3>1
    <2> QED
        BY <2>3, <2>4, <2>5, <2>7 DEF OrganisationInv
<1>4. \A f \in Records : Organisation!SameUnits(record[f], record[f])
    BY DEF Organisation!SameUnits
<1>5. ASSUME NEW f \in Records, Organisation!DropFinding(f)
      PROVE  /\ \A g \in Records :
                   Organisation!Has(record', g) /\
                   (Organisation!Has(record, g) => ~Organisation!SameUnits(record'[g], record[g])) =>
                       Organisation!InUse(record'[g])
             /\ \A g \in Records : ~(Organisation!Has(record', g) /\ record'[g] # record[g])
    BY <1>2, <1>4, <1>5 DEF Organisation!Has
<1> QED
    BY <1>1, <1>2, <1>3, <1>5 DEF Organisation!RecordStep

-----------------------------------------------------------------------------
(* Scoring. *)

Rows == {Scoring!Nothing} \cup Scoring!Version

\* The shape of its tables
ScoringShaped ==
    /\ category \in [Categories -> {"gone", "ACTIVE", "INACTIVE"}]
    /\ source \in [Sources -> {Scoring!Nothing} \cup Scoring!SourceRow]
    /\ rule \in [Rules -> Rows]
    /\ waiting \in {Scoring!Nobody} \cup Scoring!Request

\* No two versions are live, and those that are have been.
OneLive(table) ==
    /\ \A v, w \in Rules :
          table[v] # Scoring!Nothing /\ table[w] # Scoring!Nothing /\ table[v].active /\ table[w].active => v = w
    /\ \A v \in Rules : table[v] # Scoring!Nothing /\ table[v].active => table[v].everActivated

\* No two sources are marked.
OneMarked(table) ==
    \A s, t \in Sources :
        table[s] # Scoring!Nothing /\ table[t] # Scoring!Nothing /\ table[s].isDefault /\ table[t].isDefault => s = t

ScoringInv == ScoringShaped /\ OneLive(rule) /\ OneMarked(source)

\* What the steps may do to versions that were live
LiveStand(v) ==
    rule[v] # Scoring!Nothing /\ rule[v].everActivated =>
        /\ rule'[v] # Scoring!Nothing
        /\ rule'[v].everActivated
        /\ rule'[v].contents = rule[v].contents

\* What they may do to units
UnitsStand ==
    /\ \A c \in Categories : category[c] # "gone" => category'[c] # "gone"
    /\ \A s \in Sources : source[s] # Scoring!Nothing => source'[s] # Scoring!Nothing

\* No row looks like one that is not there.
LEMMA NothingIsNoVersion ==
    Scoring!Nothing \notin Scoring!Version \cup Scoring!SourceRow
    BY DEF Scoring!Nothing, Scoring!Version, Scoring!SourceRow

\* A row that is there has the fields of its table.
LEMMA ScoringRowsThere ==
    ASSUME ScoringShaped
    PROVE  /\ \A v \in Rules : rule[v] # Scoring!Nothing => rule[v] \in Scoring!Version
           /\ \A s \in Sources : source[s] # Scoring!Nothing => source[s] \in Scoring!SourceRow
    BY DEF ScoringShaped, Rows

\* A request names what its kind is about.
LEMMA RequestsShaped ==
    ASSUME NEW r \in Scoring!Request
    PROVE  /\ r.kind \in {"edit", "delete", "default", "dropSource", "dropCategory"}
           /\ r.kind \in {"edit", "delete"} => r.of \in Rules
           /\ r.kind = "edit" => r.to \in Scoring!Contents
           /\ r.kind \in {"default", "dropSource"} => r.of \in Sources
           /\ r.kind = "dropCategory" => r.of \in Categories
    BY DEF Scoring!Request

\* What going live does to the table of versions
LEMMA GoneLiveFacts ==
    ASSUME NEW v \in Rules, NEW table \in [Rules -> Rows], NEW live, live = Scoring!GoneLive(v, table)
    PROVE  /\ live \in [Rules -> Rows] /\ OneLive(live)
           /\ \A w \in Rules : table[w] # Scoring!Nothing =>
                  /\ live[w] # Scoring!Nothing
                  /\ table[w].everActivated => live[w].everActivated
                  /\ live[w].contents = table[w].contents
<1>1. \A w \in Rules :
          live[w] = IF table[w] = Scoring!Nothing THEN Scoring!Nothing
                    ELSE [table[w] EXCEPT !.active = (w = v), !.everActivated = (table[w].everActivated \/ w = v)]
    BY Zenon DEF Scoring!GoneLive
<1>2. ASSUME NEW w \in Rules, table[w] # Scoring!Nothing
      PROVE  /\ live[w] \in Scoring!Version
             /\ live[w].active <=> w = v
             /\ live[w].everActivated <=> table[w].everActivated \/ w = v
             /\ live[w].contents = table[w].contents
    <2>1. PICK now \in BOOLEAN : now = (w = v)
        OBVIOUS
    <2>2. PICK ever \in BOOLEAN : ever = (table[w].everActivated \/ w = v)
        OBVIOUS
    <2>3. live[w] = [table[w] EXCEPT !.active = now, !.everActivated = ever]
        BY <1>1, <1>2, <2>1, <2>2, Zenon
    <2>4. table[w] \in Scoring!Version
        BY <1>2 DEF Rows
    <2>5. /\ live[w] \in Scoring!Version /\ live[w].active = now /\ live[w].everActivated = ever
          /\ live[w].contents = table[w].contents
        BY <2>3, <2>4 DEF Scoring!Version
    <2> QED
        BY <2>1, <2>2, <2>5
<1>3. live \in [Rules -> Rows]
    <2>1. live = [w \in Rules |-> live[w]]
        BY Zenon DEF Scoring!GoneLive
    <2>2. \A w \in Rules : live[w] \in Rows
        BY <1>1, <1>2 DEF Rows
    <2> QED
        BY <2>1, <2>2
<1>4. \A w \in Rules : table[w] = Scoring!Nothing => live[w] = Scoring!Nothing
    BY <1>1
<1>5. OneLive(live)
    BY <1>2, <1>4 DEF OneLive
<1>6. \A w \in Rules : table[w] # Scoring!Nothing => live[w] # Scoring!Nothing
    BY <1>2, NothingIsNoVersion
<1> QED
    BY <1>2, <1>3, <1>5, <1>6

\* What making a source the default does to the table of sources
LEMMA MadeDefaultFacts ==
    ASSUME NEW s \in Sources, ScoringShaped, NEW table, table = Scoring!MadeDefault(s)
    PROVE  /\ table \in [Sources -> {Scoring!Nothing} \cup Scoring!SourceRow] /\ OneMarked(table)
           /\ \A t \in Sources : source[t] # Scoring!Nothing => table[t] # Scoring!Nothing
<1>1. \A t \in Sources :
          table[t] = IF source[t] = Scoring!Nothing THEN Scoring!Nothing
                     ELSE [source[t] EXCEPT !.isDefault = (t = s)]
    BY Zenon DEF Scoring!MadeDefault
<1>2. ASSUME NEW t \in Sources, source[t] # Scoring!Nothing
      PROVE  table[t] \in Scoring!SourceRow /\ (table[t].isDefault <=> t = s)
    <2>1. PICK now \in BOOLEAN : now = (t = s)
        OBVIOUS
    <2>2. table[t] = [source[t] EXCEPT !.isDefault = now]
        BY <1>1, <1>2, <2>1, Zenon
    <2>3. table[t] \in Scoring!SourceRow /\ table[t].isDefault = now
        BY <1>2, <2>2, ScoringRowsThere DEF Scoring!SourceRow
    <2> QED
        BY <2>1, <2>3
<1>3. table \in [Sources -> {Scoring!Nothing} \cup Scoring!SourceRow]
    <2>1. table = [t \in Sources |-> table[t]]
        BY Zenon DEF Scoring!MadeDefault
    <2> QED
        BY <1>1, <1>2, <2>1
<1> QED
    BY <1>1, <1>2, <1>3, NothingIsNoVersion DEF OneMarked

\* Writing one version, no more live than it was
LEMMA WritingOne ==
    ASSUME rule \in [Rules -> Rows], OneLive(rule), NEW v \in Rules, NEW row \in Rows,
           row # Scoring!Nothing /\ row.active =>
               rule[v] # Scoring!Nothing /\ rule[v].active /\ row.everActivated,
           NEW table, table = [rule EXCEPT ![v] = row]
    PROVE  /\ table \in [Rules -> Rows] /\ OneLive(table)
           /\ table[v] = row /\ \A w \in Rules \ {v} : table[w] = rule[w]
<1>1. /\ table \in [Rules -> Rows]
      /\ table[v] = row /\ \A w \in Rules \ {v} : table[w] = rule[w]
    OBVIOUS
<1>2. ASSUME NEW w \in Rules, table[w] # Scoring!Nothing, table[w].active
      PROVE  rule[w] # Scoring!Nothing /\ rule[w].active /\ table[w].everActivated
    BY <1>1, <1>2 DEF OneLive
<1>3. OneLive(table)
    BY <1>2 DEF OneLive
<1> QED
    BY <1>1, <1>3

\* Creating, activating and deactivating versions
LEMMA VersionStepStands ==
    ASSUME ScoringInv, NEW v \in Rules,
           \/ \E contents \in Scoring!Contents, now \in BOOLEAN : Scoring!CreateVersion(v, contents, now)
           \/ Scoring!Activate(v) \/ Scoring!Deactivate(v)
    PROVE  ScoringInv' /\ (\A w \in Rules : LiveStand(w)) /\ UnitsStand
<1>1. UNCHANGED <<category, source, waiting>>
    BY Zenon DEF Scoring!CreateVersion, Scoring!Activate, Scoring!Deactivate
<1>2. SUFFICES /\ rule' \in [Rules -> Rows] /\ OneLive(rule')
               /\ \A w \in Rules : LiveStand(w)
    BY <1>1 DEF ScoringInv, ScoringShaped, OneLive, OneMarked, UnitsStand
<1>3. CASE Scoring!Activate(v)
    BY <1>3, GoneLiveFacts DEF Scoring!Activate, ScoringInv, ScoringShaped, LiveStand
<1>4. CASE Scoring!Deactivate(v)
    <2>1. rule[v] \in Scoring!Version
        BY <1>4, ScoringRowsThere DEF ScoringInv, Scoring!Deactivate, Scoring!Versions
    <2>2. PICK row : row = [rule[v] EXCEPT !.active = FALSE]
        OBVIOUS
    <2>3. /\ row \in Scoring!Version /\ ~row.active /\ row.everActivated = rule[v].everActivated
          /\ row.contents = rule[v].contents
        BY <2>1, <2>2 DEF Scoring!Version
    <2>4. rule' = [rule EXCEPT ![v] = row]
        BY <1>4, <2>1, <2>2 DEF Scoring!Deactivate, ScoringInv, ScoringShaped, Scoring!Version
    <2>5. /\ rule' \in [Rules -> Rows] /\ OneLive(rule')
          /\ rule'[v] = row /\ \A w \in Rules \ {v} : rule'[w] = rule[w]
        BY <2>3, <2>4, WritingOne DEF ScoringInv, ScoringShaped, Rows
    <2> QED
        BY <2>3, <2>5, NothingIsNoVersion DEF LiveStand
<1>5. ASSUME NEW contents \in Scoring!Contents, NEW now \in BOOLEAN, Scoring!CreateVersion(v, contents, now)
      PROVE  /\ rule' \in [Rules -> Rows] /\ OneLive(rule')
             /\ \A w \in Rules : LiveStand(w)
    <2>1. PICK row : row = [active |-> FALSE, everActivated |-> FALSE, contents |-> contents]
        OBVIOUS
    <2>2. row \in Scoring!Version /\ ~row.active
        BY <2>1 DEF Scoring!Version
    <2>3. PICK draft : draft = [rule EXCEPT ![v] = row]
        OBVIOUS
    <2>4. /\ draft \in [Rules -> Rows] /\ OneLive(draft)
          /\ draft[v] = row /\ \A w \in Rules \ {v} : draft[w] = rule[w]
        BY <2>2, <2>3, WritingOne DEF ScoringInv, ScoringShaped, Rows
    <2>5. rule' = IF now THEN Scoring!GoneLive(v, draft) ELSE draft
        BY <1>5, <2>1, <2>3, Zenon DEF Scoring!CreateVersion
    <2>6. rule[v] = Scoring!Nothing
        BY <1>5 DEF Scoring!CreateVersion, Scoring!Versions
    <2>7. /\ rule' \in [Rules -> Rows] /\ OneLive(rule')
          /\ \A w \in Rules : draft[w] # Scoring!Nothing =>
                 /\ rule'[w] # Scoring!Nothing
                 /\ draft[w].everActivated => rule'[w].everActivated
                 /\ rule'[w].contents = draft[w].contents
        BY <2>4, <2>5, GoneLiveFacts
    <2> QED
        BY <2>4, <2>6, <2>7 DEF LiveStand
<1> QED
    BY <1>2, <1>3, <1>4, <1>5

\* Creating, toggling and un-defaulting sources; categories; settings
LEMMA UnitRequestStands ==
    ASSUME ScoringInv,
           \/ \E s \in Sources :
                 Scoring!CreateSource(s) \/ Scoring!ClearDefault(s) \/ \E on \in BOOLEAN : Scoring!ToggleSource(s, on)
           \/ \E c \in Categories :
                 Scoring!CreateCategory(c) \/ \E to \in {"ACTIVE", "INACTIVE"} : Scoring!ToggleCategory(c, to)
           \/ \E sources \in Filters : Scoring!SaveSettings(sources)
    PROVE  ScoringInv' /\ (\A w \in Rules : LiveStand(w)) /\ UnitsStand
<1>1. UNCHANGED <<rule, waiting>>
    BY Zenon DEF Scoring!CreateSource, Scoring!ClearDefault, Scoring!ToggleSource, Scoring!CreateCategory,
       Scoring!ToggleCategory, Scoring!SaveSettings
<1>2. \A w \in Rules : LiveStand(w)
    BY <1>1 DEF LiveStand
<1>3. ASSUME NEW s \in Sources, NEW row \in Scoring!SourceRow, UNCHANGED category,
             source' = [source EXCEPT ![s] = row],
             row.isDefault => source[s] # Scoring!Nothing /\ source[s].isDefault
      PROVE  ScoringInv' /\ UnitsStand
    <2>1. /\ source' \in [Sources -> {Scoring!Nothing} \cup Scoring!SourceRow]
          /\ source'[s] = row /\ \A t \in Sources \ {s} : source'[t] = source[t]
        BY <1>3 DEF ScoringInv, ScoringShaped
    <2>2. ASSUME NEW t \in Sources, source'[t] # Scoring!Nothing, source'[t].isDefault
          PROVE  source[t] # Scoring!Nothing /\ source[t].isDefault
        BY <1>3, <2>1, <2>2
    <2>3. OneMarked(source')
        BY <2>2 DEF ScoringInv, OneMarked
    <2>4. ScoringInv'
        BY <1>1, <1>3, <2>1, <2>3 DEF ScoringInv, ScoringShaped, OneLive, OneMarked
    <2>5. UnitsStand
        BY <1>3, <2>1, NothingIsNoVersion DEF UnitsStand
    <2> QED
        BY <2>4, <2>5
<1>4. ASSUME NEW s \in Sources, Scoring!CreateSource(s)
      PROVE  ScoringInv' /\ UnitsStand
    <2>1. PICK row : row = [active |-> TRUE, isDefault |-> FALSE]
        OBVIOUS
    <2>2. row \in Scoring!SourceRow /\ ~row.isDefault
        BY <2>1 DEF Scoring!SourceRow
    <2> QED
        BY <1>3, <1>4, <2>1, <2>2 DEF Scoring!CreateSource
<1>5. ASSUME NEW s \in Sources, Scoring!ClearDefault(s)
      PROVE  ScoringInv' /\ UnitsStand
    <2>1. source[s] \in Scoring!SourceRow
        BY <1>5, ScoringRowsThere DEF ScoringInv, Scoring!ClearDefault
    <2>2. PICK row : row = [source[s] EXCEPT !.isDefault = FALSE]
        OBVIOUS
    <2>3. row \in Scoring!SourceRow /\ ~row.isDefault
        BY <2>1, <2>2 DEF Scoring!SourceRow
    <2>4. source' = [source EXCEPT ![s] = row] /\ UNCHANGED category
        BY <1>5, <2>1, <2>2 DEF Scoring!ClearDefault, ScoringInv, ScoringShaped, Scoring!SourceRow
    <2> QED
        BY <1>3, <2>3, <2>4
<1>6. ASSUME NEW s \in Sources, NEW on \in BOOLEAN, Scoring!ToggleSource(s, on)
      PROVE  ScoringInv' /\ UnitsStand
    <2>1. source[s] \in Scoring!SourceRow
        BY <1>6, ScoringRowsThere DEF ScoringInv, Scoring!ToggleSource
    <2>2. PICK row : row = [active |-> on, isDefault |-> on /\ source[s].isDefault]
        OBVIOUS
    <2>3. source[s].isDefault \in BOOLEAN
        BY <2>1 DEF Scoring!SourceRow
    <2>4. row \in Scoring!SourceRow /\ (row.isDefault => source[s].isDefault)
        BY <2>2, <2>3 DEF Scoring!SourceRow
    <2>5. source[s] # Scoring!Nothing
        BY <2>1, NothingIsNoVersion
    <2>6. source' = [source EXCEPT ![s] = row] /\ UNCHANGED category
        BY <1>6, <2>2, Zenon DEF Scoring!ToggleSource
    <2> QED
        BY <1>3, <2>4, <2>5, <2>6
<1>7. ASSUME NEW c \in Categories, NEW to \in {"ACTIVE", "INACTIVE"}, UNCHANGED source,
             category' = [category EXCEPT ![c] = to]
      PROVE  ScoringInv' /\ UnitsStand
    BY <1>1, <1>7 DEF ScoringInv, ScoringShaped, OneLive, OneMarked, UnitsStand
<1>8. ASSUME NEW sources, Scoring!SaveSettings(sources)
      PROVE  ScoringInv' /\ UnitsStand
    BY <1>8 DEF Scoring!SaveSettings, ScoringInv, ScoringShaped, OneLive, OneMarked, UnitsStand
<1>9. ASSUME NEW c \in Categories, Scoring!CreateCategory(c)
      PROVE  ScoringInv' /\ UnitsStand
    BY <1>7, <1>9 DEF Scoring!CreateCategory
<1>10. ASSUME NEW c \in Categories, NEW to \in {"ACTIVE", "INACTIVE"}, Scoring!ToggleCategory(c, to)
       PROVE  ScoringInv' /\ UnitsStand
    BY <1>7, <1>10 DEF Scoring!ToggleCategory
<1> QED
    BY <1>2, <1>4, <1>5, <1>6, <1>8, <1>9, <1>10

\* What the write of a request that has passed its check, however long ago, may do
LEMMA WriteStands ==
    ASSUME ScoringInv, NEW r \in Scoring!Request, Scoring!Write(r),
           waiting' \in {Scoring!Nobody} \cup Scoring!Request
    PROVE  /\ ScoringInv'
           /\ \A w \in Rules : LiveStand(w) \/ (r.kind \in {"edit", "delete"} /\ r.of = w)
           /\ \A c \in Categories :
                 category[c] # "gone" => category'[c] # "gone" \/ (r.kind = "dropCategory" /\ r.of = c)
           /\ \A s \in Sources :
                 source[s] # Scoring!Nothing =>
                     source'[s] # Scoring!Nothing \/ (r.kind = "dropSource" /\ r.of = s)
<1>1. ASSUME r.kind \in {"edit", "delete"}, UNCHANGED <<category, source>>,
             NEW row \in Rows, rule' = [rule EXCEPT ![r.of] = row],
             row # Scoring!Nothing /\ row.active =>
                 rule[r.of] # Scoring!Nothing /\ rule[r.of].active /\ row.everActivated
      PROVE  ScoringInv' /\ UnitsStand /\ \A w \in Rules \ {r.of} : LiveStand(w)
    <2>1. r.of \in Rules
        BY <1>1, RequestsShaped
    <2>2. /\ rule' \in [Rules -> Rows] /\ OneLive(rule')
          /\ \A w \in Rules \ {r.of} : rule'[w] = rule[w]
        BY <1>1, <2>1, WritingOne DEF ScoringInv, ScoringShaped
    <2> QED
        BY <1>1, <2>2 DEF ScoringInv, ScoringShaped, OneMarked, OneLive, UnitsStand, LiveStand
<1>2. CASE r.kind = "edit" /\ Scoring!DoEditVersion(r.of, r.to)
    <2>1. r.of \in Rules /\ r.to \in Scoring!Contents
        BY <1>2, RequestsShaped
    <2>2. rule[r.of] # Scoring!Nothing /\ rule[r.of] \in Scoring!Version
        BY <1>2, <2>1, ScoringRowsThere DEF ScoringInv, Scoring!DoEditVersion, Scoring!Versions
    <2>3. PICK row : row = [rule[r.of] EXCEPT !.contents = r.to]
        OBVIOUS
    <2>4. /\ row \in Scoring!Version /\ row.active = rule[r.of].active
          /\ row.everActivated = rule[r.of].everActivated
        BY <2>1, <2>2, <2>3 DEF Scoring!Version
    <2>5. rule' = [rule EXCEPT ![r.of] = row]
        BY <1>2, <2>1, <2>2, <2>3 DEF Scoring!DoEditVersion, ScoringInv, ScoringShaped, Scoring!Version
    <2>6. UNCHANGED <<category, source>>
        BY <1>2 DEF Scoring!DoEditVersion
    <2>7. row \in Rows /\ (row.active => rule[r.of].active /\ row.everActivated)
        BY <2>1, <2>2, <2>4 DEF Rows, ScoringInv, OneLive
    <2>8. ScoringInv' /\ UnitsStand /\ \A w \in Rules \ {r.of} : LiveStand(w)
        BY <1>1, <1>2, <2>2, <2>5, <2>6, <2>7
    <2> QED
        BY <1>2, <2>8 DEF UnitsStand
<1>3. CASE r.kind = "delete" /\ Scoring!DoDeleteVersion(r.of)
    <2>1. /\ rule' = [rule EXCEPT ![r.of] = Scoring!Nothing] /\ UNCHANGED <<category, source>>
          /\ Scoring!Nothing \in Rows
        BY <1>3 DEF Scoring!DoDeleteVersion, Rows
    <2>2. ScoringInv' /\ UnitsStand /\ \A w \in Rules \ {r.of} : LiveStand(w)
        BY <1>1, <1>3, <2>1
    <2> QED
        BY <1>3, <2>2 DEF UnitsStand
<1>4. CASE r.kind = "default" /\ Scoring!DoMakeDefault(r.of)
    <2>1. r.of \in Sources
        BY <1>4, RequestsShaped
    <2>2. source' = Scoring!MadeDefault(r.of) /\ UNCHANGED <<category, rule>>
        BY <1>4 DEF Scoring!DoMakeDefault
    <2>3. /\ source' \in [Sources -> {Scoring!Nothing} \cup Scoring!SourceRow] /\ OneMarked(source')
          /\ \A t \in Sources : source[t] # Scoring!Nothing => source'[t] # Scoring!Nothing
        BY <2>1, <2>2, MadeDefaultFacts DEF ScoringInv
    <2> QED
        BY <2>2, <2>3 DEF ScoringInv, ScoringShaped, OneMarked, OneLive, LiveStand
<1>5. CASE r.kind = "dropSource" /\ Scoring!DoDropSource(r.of)
    <2>1. source' = [source EXCEPT ![r.of] = Scoring!Nothing] /\ UNCHANGED <<category, rule>>
        BY <1>5 DEF Scoring!DoDropSource
    <2>2. r.of \in Sources
        BY <1>5, RequestsShaped
    <2>3. /\ source' \in [Sources -> {Scoring!Nothing} \cup Scoring!SourceRow]
          /\ \A t \in Sources \ {r.of} : source'[t] = source[t]
          /\ source'[r.of] = Scoring!Nothing
        BY <2>1, <2>2 DEF ScoringInv, ScoringShaped
    <2>4. OneMarked(source')
        BY <2>3 DEF ScoringInv, OneMarked
    <2>5. ScoringInv'
        BY <2>1, <2>3, <2>4 DEF ScoringInv, ScoringShaped, OneMarked, OneLive
    <2>6. \A w \in Rules : LiveStand(w)
        BY <2>1 DEF LiveStand
    <2> QED
        BY <1>5, <2>1, <2>3, <2>5, <2>6
<1>6. CASE r.kind = "dropCategory" /\ Scoring!DoDropCategory(r.of)
    <2>1. category' = [category EXCEPT ![r.of] = "gone"] /\ UNCHANGED <<source, rule>>
        BY <1>6 DEF Scoring!DoDropCategory
    <2>2. ScoringInv'
        BY <2>1 DEF ScoringInv, ScoringShaped, OneMarked, OneLive
    <2>3. \A w \in Rules : LiveStand(w)
        BY <2>1 DEF LiveStand
    <2>4. \A c \in Categories \ {r.of} : category'[c] = category[c]
        BY <2>1 DEF ScoringInv, ScoringShaped
    <2> QED
        BY <1>6, <2>1, <2>2, <2>3, <2>4
<1> QED
    BY <1>2, <1>3, <1>4, <1>5, <1>6 DEF Scoring!Write

\* A request whose check and write come together
LEMMA WholeStands ==
    ASSUME ScoringInv, NEW r \in Scoring!Request, Scoring!Whole(r)
    PROVE  /\ ScoringInv' /\ \A w \in Rules : LiveStand(w)
           /\ \A v \in Rules : rule[v] # Scoring!Nothing =>
                 /\ \A c \in rule[v].contents.categories \cap Scoring!Known.categories : category'[c] # "gone"
                 /\ \A s \in rule[v].contents.sources \cap Scoring!Known.sources : source'[s] # Scoring!Nothing
<1>1. waiting' \in {Scoring!Nobody} \cup Scoring!Request
    BY DEF Scoring!Whole, ScoringInv, ScoringShaped
<1>2. /\ ScoringInv'
      /\ \A w \in Rules : LiveStand(w) \/ (r.kind \in {"edit", "delete"} /\ r.of = w)
      /\ \A c \in Categories :
            category[c] # "gone" => category'[c] # "gone" \/ (r.kind = "dropCategory" /\ r.of = c)
      /\ \A s \in Sources :
            source[s] # Scoring!Nothing => source'[s] # Scoring!Nothing \/ (r.kind = "dropSource" /\ r.of = s)
    BY <1>1, WriteStands, Zenon DEF Scoring!Whole
<1>3. Scoring!Passes(r)
    BY DEF Scoring!Whole
<1>4. ASSUME r.kind \in {"edit", "delete"}
      PROVE  rule[r.of] # Scoring!Nothing /\ ~rule[r.of].everActivated
    BY <1>3, <1>4 DEF Scoring!Passes, Scoring!CanEditVersion, Scoring!Editable, Scoring!Versions
<1>5. \A w \in Rules : LiveStand(w)
    BY <1>2, <1>4 DEF LiveStand
<1>6. ASSUME r.kind \in {"dropSource", "dropCategory"}, NEW v \in Rules, rule[v] # Scoring!Nothing
      PROVE  r.of \notin rule[v].contents.categories \cup rule[v].contents.sources
    BY <1>3, <1>6 DEF Scoring!Passes, Scoring!CanDropSource, Scoring!CanDropCategory, Scoring!Unnamed,
       Scoring!Naming, Scoring!Versions
<1>7. /\ Scoring!Known.categories = {c \in Categories : category[c] # "gone"}
      /\ Scoring!Known.sources = {s \in Sources : source[s] # Scoring!Nothing}
    BY DEF Scoring!Known
<1> QED
    BY <1>2, <1>5, <1>6, <1>7

\* A version keeps what it had, or the waiting request is about it and ends here.
VersionMayChange(v) ==
    \/ waiting # Scoring!Nobody /\ waiting' = Scoring!Nobody
         /\ waiting.kind \in {"edit", "delete"} /\ waiting.of = v
    \/ LiveStand(v)

\* So do the units it names.
UnitsMayGo(v) ==
    LET gone(unit) == waiting # Scoring!Nobody /\ waiting' = Scoring!Nobody
                        /\ waiting.kind \in {"dropSource", "dropCategory"} /\ waiting.of = unit
    IN  rule[v] # Scoring!Nothing =>
            /\ \A c \in rule[v].contents.categories \cap Scoring!Known.categories :
                  category'[c] # "gone" \/ gone(c)
            /\ \A s \in rule[v].contents.sources \cap Scoring!Known.sources :
                  source'[s] # Scoring!Nothing \/ gone(s)

\* What any step may do to versions that were live, and to units versions name
LEMMA ScoringStepStands ==
    ASSUME ScoringInv, Scoring!Next
    PROVE  ScoringInv' /\ \A v \in Rules : VersionMayChange(v) /\ UnitsMayGo(v)
<1>1. /\ Scoring!Known.categories = {c \in Categories : category[c] # "gone"}
      /\ Scoring!Known.sources = {s \in Sources : source[s] # Scoring!Nothing}
    BY DEF Scoring!Known
<1>2. ASSUME ScoringInv', \A v \in Rules : LiveStand(v), UnitsStand
      PROVE  ScoringInv' /\ \A v \in Rules : VersionMayChange(v) /\ UnitsMayGo(v)
    BY <1>1, <1>2 DEF VersionMayChange, UnitsMayGo, UnitsStand
<1>3. ASSUME NEW r \in Scoring!Request, Scoring!Whole(r)
      PROVE  ScoringInv' /\ \A v \in Rules : VersionMayChange(v) /\ UnitsMayGo(v)
    BY <1>3, WholeStands DEF VersionMayChange, UnitsMayGo
<1>4. ASSUME NEW r \in Scoring!Request, Scoring!Begin(r)
      PROVE  ScoringInv' /\ \A v \in Rules : VersionMayChange(v) /\ UnitsMayGo(v)
    <2>1. UNCHANGED <<category, source, rule>> /\ waiting' \in Scoring!Request
        BY <1>4 DEF Scoring!Begin
    <2>2. ScoringInv'
        BY <2>1 DEF ScoringInv, ScoringShaped, OneLive, OneMarked
    <2>3. UnitsStand /\ \A v \in Rules : LiveStand(v)
        BY <2>1 DEF UnitsStand, LiveStand
    <2> QED
        BY <1>2, <2>2, <2>3
<1>5. CASE Scoring!Fail
    <2>1. UNCHANGED <<category, source, rule>> /\ waiting' = Scoring!Nobody
        BY <1>5 DEF Scoring!Fail
    <2>2. ScoringInv'
        BY <2>1 DEF ScoringInv, ScoringShaped, OneLive, OneMarked
    <2>3. UnitsStand /\ \A v \in Rules : LiveStand(v)
        BY <2>1 DEF UnitsStand, LiveStand
    <2> QED
        BY <1>2, <2>2, <2>3
<1>6. CASE Scoring!Finish
    <2>1. /\ waiting # Scoring!Nobody /\ waiting' = Scoring!Nobody
          /\ waiting \in Scoring!Request /\ Scoring!Write(waiting)
        BY <1>6 DEF Scoring!Finish, ScoringInv, ScoringShaped
    <2>2. PICK r \in Scoring!Request : r = waiting
        BY <2>1
    <2>3. /\ ScoringInv'
          /\ \A w \in Rules : LiveStand(w) \/ (r.kind \in {"edit", "delete"} /\ r.of = w)
          /\ \A c \in Categories :
                category[c] # "gone" => category'[c] # "gone" \/ (r.kind = "dropCategory" /\ r.of = c)
          /\ \A s \in Sources :
                source[s] # Scoring!Nothing =>
                    source'[s] # Scoring!Nothing \/ (r.kind = "dropSource" /\ r.of = s)
        BY <2>1, <2>2, WriteStands
    <2>4. \A v \in Rules : VersionMayChange(v)
        BY <2>1, <2>2, <2>3 DEF VersionMayChange
    <2>5. \A v \in Rules : UnitsMayGo(v)
        BY <1>1, <2>1, <2>2, <2>3 DEF UnitsMayGo
    <2> QED
        BY <2>3, <2>4, <2>5
<1>7. ASSUME NEW v \in Rules,
             \/ \E contents \in Scoring!Contents, now \in BOOLEAN : Scoring!CreateVersion(v, contents, now)
             \/ Scoring!Activate(v) \/ Scoring!Deactivate(v)
      PROVE  ScoringInv' /\ \A w \in Rules : VersionMayChange(w) /\ UnitsMayGo(w)
    BY <1>2, <1>7, VersionStepStands
<1>8. ASSUME \/ \E s \in Sources :
                   \/ Scoring!CreateSource(s) \/ Scoring!ClearDefault(s)
                   \/ \E on \in BOOLEAN : Scoring!ToggleSource(s, on)
             \/ \E c \in Categories :
                   Scoring!CreateCategory(c) \/ \E to \in {"ACTIVE", "INACTIVE"} : Scoring!ToggleCategory(c, to)
             \/ \E sources \in Filters : Scoring!SaveSettings(sources)
      PROVE  ScoringInv' /\ \A w \in Rules : VersionMayChange(w) /\ UnitsMayGo(w)
    BY <1>2, <1>8, UnitRequestStands
<1> QED
    BY <1>3, <1>4, <1>5, <1>6, <1>7, <1>8 DEF Scoring!Next

-----------------------------------------------------------------------------
(* The administration. *)

AdministrationInv == OrganisationInv /\ ScoringInv

\* The invariant holds at the start.
LEMMA StartsInOrder == Init => AdministrationInv
<1> SUFFICES ASSUME Init PROVE AdministrationInv
    OBVIOUS
<1>1. OrganisationInv
    BY DEF Init, Organisation!Init, OrganisationInv, OrganisationShaped, Organisation!NothingDangles,
       Organisation!Has
<1>2. ScoringShaped
    BY DEF Init, Scoring!Init, ScoringShaped, Rows, Scoring!SourceRow
<1>3. OneLive(rule) /\ OneMarked(source)
    BY DEF Init, Scoring!Init, OneLive, OneMarked
<1> QED
    BY <1>1, <1>2, <1>3 DEF AdministrationInv, ScoringInv

\* Every step of the organisation fits.
LEMMA OrganisationStepFits ==
    ASSUME OrganisationInv, Organisation!Next
    PROVE  OrganisationInv'
    BY UnitStepFits, DepartmentStepFits, PersonStepFits, RecordStepFits DEF Organisation!Next

\* What does not move stays in order.
LEMMA Resting ==
    /\ OrganisationInv /\ UNCHANGED Organisation!orgVars => OrganisationInv'
    /\ ScoringInv /\ UNCHANGED Scoring!vars => ScoringInv'
<1>1. OrganisationInv /\ UNCHANGED Organisation!orgVars => OrganisationInv'
    BY DEF Organisation!orgVars, OrganisationInv, OrganisationShaped, Organisation!NothingDangles,
       Organisation!Has, Organisation!HasDistrict
<1>2. ScoringInv /\ UNCHANGED Scoring!vars => ScoringInv'
    BY DEF Scoring!vars, ScoringInv, ScoringShaped, OneLive, OneMarked
<1> QED
    BY <1>1, <1>2

\* Each part moves by its own steps or not at all.
LEMMA PartsMove ==
    ASSUME [Next]_vars
    PROVE  [Organisation!Next]_Organisation!orgVars /\ [Scoring!Next]_Scoring!vars
    BY DEF Next, vars, organisationVars, scoringVars, Organisation!orgVars, Scoring!vars

\* Every step keeps the invariant.
LEMMA StaysInOrder == AdministrationInv /\ [Next]_vars => AdministrationInv'
    BY PartsMove, Resting, OrganisationStepFits, ScoringStepStands DEF AdministrationInv

\* However branches move and units, departments and users are created, deactivated and
\* deleted, no row of branches, users or findings names a unit that was deleted.
THEOREM NothingNamesDeleted == Spec => []Organisation!NothingDangles
<1>1. AdministrationInv => Organisation!NothingDangles
    BY DEF AdministrationInv, OrganisationInv
<1> QED
    BY <1>1, StartsInOrder, StaysInOrder, PTL DEF Spec

\* Whichever route puts a user or a finding in a district or branch, by whichever
\* session, it is in use at that moment.
THEOREM DeactivatedReceivesNothing == Spec => NothingNewInDeactivated
<1> DEFINE New ==
        /\ \A u \in Staff :
              Organisation!Has(person, u)' /\
              (Organisation!Has(person, u) => ~Organisation!SameUnits(person'[u], person[u])) =>
                  Organisation!InUse(person'[u])
        /\ \A f \in Records :
              Organisation!Has(record, f)' /\
              (Organisation!Has(record, f) => ~Organisation!SameUnits(record'[f], record[f])) =>
                  Organisation!InUse(record'[f])
<1>1. ASSUME OrganisationInv, Organisation!Next
      PROVE  New
    <2>1. /\ UNCHANGED person => ~\E u \in Staff :
                Organisation!Has(person, u)' /\
                (Organisation!Has(person, u) => ~Organisation!SameUnits(person'[u], person[u]))
          /\ UNCHANGED record => ~\E f \in Records :
                Organisation!Has(record, f)' /\
                (Organisation!Has(record, f) => ~Organisation!SameUnits(record'[f], record[f]))
        BY DEF Organisation!Has, Organisation!SameUnits
    <2>2. CASE Organisation!UnitStep \/ Organisation!DepartmentStep
        BY <1>1, <2>1, <2>2, UnitStepFits, DepartmentStepFits
    <2>3. CASE Organisation!PersonStep
        BY <1>1, <2>1, <2>3, PersonStepFits DEF Organisation!Has
    <2>4. CASE Organisation!RecordStep
        BY <1>1, <2>1, <2>4, RecordStepFits DEF Organisation!Has
    <2> QED
        BY <1>1, <2>2, <2>3, <2>4 DEF Organisation!Next
<1>2. AdministrationInv /\ [Next]_vars => [New]_Organisation!orgVars
    BY <1>1, PartsMove DEF AdministrationInv
<1> QED
    BY <1>2, StartsInOrder, StaysInOrder, PTL
    DEF Spec, NothingNewInDeactivated, Organisation!NothingNewInDeactivated

\* A user that is moved takes no department along that the new place does not have; and
\* no finding is filed or moved to where the session of the user whose it is cannot see it.
THEOREM StaffStayWhereTheyFit == Spec => StaffFitTheirPlace
<1> DEFINE Fits ==
        \A u \in Staff :
            Organisation!Has(person, u)' /\
            (Organisation!Has(person, u) => ~Organisation!SameUnits(person'[u], person[u])) =>
                (person'[u].department # Organisation!None =>
                     Organisation!Suits(person'[u].department, person'[u]))
<1> DEFINE Seen ==
        \A f \in Records :
            Organisation!Has(record, f)' /\ record'[f] # record[f] =>
                Organisation!InScope(badge[record[f].by], f)'
<1>1. ASSUME OrganisationInv, Organisation!Next
      PROVE  Fits /\ Seen
    <2>1. /\ UNCHANGED person => ~\E u \in Staff :
                Organisation!Has(person, u)' /\
                (Organisation!Has(person, u) => ~Organisation!SameUnits(person'[u], person[u]))
          /\ UNCHANGED record => Seen
        BY DEF Organisation!Has, Organisation!SameUnits
    <2>2. CASE Organisation!UnitStep \/ Organisation!DepartmentStep
        BY <1>1, <2>1, <2>2, UnitStepFits, DepartmentStepFits
    <2>3. CASE Organisation!PersonStep
        BY <1>1, <2>1, <2>3, PersonStepFits DEF Organisation!Has
    <2>4. CASE Organisation!RecordStep
        BY <1>1, <2>1, <2>4, RecordStepFits DEF Organisation!Has
    <2> QED
        BY <1>1, <2>2, <2>3, <2>4 DEF Organisation!Next
<1>2. AdministrationInv /\ [Next]_vars => [Fits]_Organisation!orgVars /\ [Seen]_Organisation!orgVars
    BY <1>1, PartsMove DEF AdministrationInv
<1> QED
    BY <1>2, StartsInOrder, StaysInOrder, PTL
    DEF Spec, StaffFitTheirPlace, Organisation!MovedUserFits, Organisation!OwnWorkStaysInScope

\* A set no two elements of which differ has at most one.
LEMMA AtMostOne ==
    ASSUME NEW S, \A x, y \in S : x = y
    PROVE  Cardinality(S) <= 1
<1>1. CASE S = {}
    BY <1>1, FS_EmptySet
<1>2. CASE S # {}
    <2>1. PICK x \in S : S = {x}
        BY <1>2
    <2> QED
        BY <2>1, FS_Singleton
<1> QED
    BY <1>1, <1>2

\* Scoring counts as everybody does.
LEMMA SameCount == \A S : Scoring!Cardinality(S) = Cardinality(S)
    BY Zenon DEF Cardinality, Scoring!Cardinality

\* However versions are created, activated, edited and deleted over each other, at most
\* one is live; however sources are, at most one is marked as the default.
THEOREM OneIsSingledOut == Spec => []OneSingledOut
<1>1. AdministrationInv => OneSingledOut
    <2> SUFFICES ASSUME ScoringInv PROVE OneSingledOut
        BY DEF AdministrationInv
    <2>1. \A v, w \in {v \in Scoring!Versions : rule[v].active} : v = w
        BY DEF ScoringInv, OneLive, Scoring!Versions
    <2>2. \A s, t \in {s \in Sources : source[s] # Scoring!Nothing /\ source[s].isDefault} : s = t
        BY DEF ScoringInv, OneMarked
    <2>3. /\ Cardinality({v \in Scoring!Versions : rule[v].active}) <= 1
          /\ Cardinality({s \in Sources : source[s] # Scoring!Nothing /\ source[s].isDefault}) <= 1
        BY <2>1, <2>2, AtMostOne
    <2>4. \A v \in Scoring!Versions : rule[v].active => rule[v].everActivated
        BY DEF ScoringInv, OneLive, Scoring!Versions
    <2> QED
        BY <2>3, <2>4, SameCount DEF OneSingledOut, Scoring!OneActiveRule, Scoring!OneDefaultSource
<1> QED
    BY <1>1, StartsInOrder, StaysInOrder, PTL DEF Spec

\* A version that has been live keeps its contents and stays, and so do the units a
\* version names - but for the write of the one request that had passed its check before.
THEOREM LiveVersionsAreKept == Spec => LiveVersionStands
<1> DEFINE Stands ==
        \A v \in Scoring!Versions :
            rule[v].everActivated =>
                \/ waiting # Scoring!Nobody /\ waiting' = Scoring!Nobody
                     /\ waiting.kind \in {"edit", "delete"} /\ waiting.of = v
                \/ /\ rule'[v] # Scoring!Nothing
                   /\ rule'[v].everActivated
                   /\ rule'[v].contents = rule[v].contents
<1> DEFINE Stay ==
        \A v \in Scoring!Versions :
            LET gone(unit) == waiting # Scoring!Nobody /\ waiting' = Scoring!Nobody
                                /\ waiting.kind \in {"dropSource", "dropCategory"} /\ waiting.of = unit
            IN  /\ \A c \in rule[v].contents.categories \cap Scoring!Known.categories :
                      category'[c] # "gone" \/ gone(c)
                /\ \A s \in rule[v].contents.sources \cap Scoring!Known.sources :
                      source'[s] # Scoring!Nothing \/ gone(s)
<1>1. ASSUME ScoringInv, Scoring!Next
      PROVE  Stands /\ Stay
    <2>1. \A v \in Rules : VersionMayChange(v) /\ UnitsMayGo(v)
        BY <1>1, ScoringStepStands
    <2>2. Stands
        BY <2>1 DEF Scoring!Versions, VersionMayChange, LiveStand
    <2>3. Stay
        BY <2>1 DEF Scoring!Versions, UnitsMayGo
    <2> QED
        BY <2>2, <2>3
<1>2. AdministrationInv /\ [Next]_vars => [Stands]_Scoring!vars /\ [Stay]_Scoring!vars
    BY <1>1, PartsMove DEF AdministrationInv
<1> QED
    BY <1>2, StartsInOrder, StaysInOrder, PTL
    DEF Spec, LiveVersionStands, Scoring!LiveVersionStands, Scoring!NamedUnitsStay

-----------------------------------------------------------------------------
(* The reports. *)

Months == Reports!Periods
Counted == {"cases"}
Closing == [period : Months, qty : Amounts(Counted), day : Nat]

\* A finding the reports read
Filed ==
    [district : Districts, category : Categories, source : Sources, date : Nat,
     home : Months, total : Amounts(Counted), moves : Seq(Moving(Months, Counted)),
     closures : Seq(Closing), stage : Reports!Stages, bankScope : BOOLEAN, imported : BOOLEAN, rewound : BOOLEAN]

ClosedOfAll(r) == SumOfRows(r.closures, Months, "cases")

\* Its transfers lead on in the calendar, one from where the other went, and
\* end where the finding is.
LeadsOn(r) ==
    /\ r.moves # <<>> => r.moves[Len(r.moves)].to = r.home
    /\ \A i \in 1..Len(r.moves) : /\ r.moves[i].from < r.home
                                  /\ r.moves[i].qty["cases"] <= r.total["cases"]
    /\ \A i, j \in 1..Len(r.moves) : i < j => r.moves[i].from < r.moves[j].from
    /\ \A i, j \in 1..Len(r.moves) : j = i + 1 => r.moves[j].from = r.moves[i].to

\* What a month closed is what its ended stays kept, and where the finding is
\* now, what is closed of what arrived last.
ClosedWhereItWas(r) ==
    \A p \in Months :
        ClosedIn(r.closures, p, "cases")
            = EndedStays(r.moves, r.home, r.total, p, "cases")
                + (IF r.home = p THEN Arrived(r.moves, r.total)["cases"] - (r.total["cases"] - ClosedOfAll(r))
                                 ELSE 0)

\* It closed something only where it was.
ClosedWhereItStayed(r) ==
    \A i \in 1..Len(r.closures) : StaysIn(r.moves, r.home, r.total, r.closures[i].period) # {}

\* A finding of the reports, on some day.  What was reopened after a transfer no
\* longer closed in each month what its stay there kept.
InOrder(r, day) ==
    /\ LeadsOn(r) /\ ClosedWhereItStayed(r)
    /\ ~r.rewound => ClosedWhereItWas(r)
    /\ ClosedOfAll(r) <= r.total["cases"]
    /\ \A i \in 1..Len(r.closures) : r.closures[i].day <= day
    /\ r.stage # "official" => r.moves = <<>> /\ r.closures = <<>>

ReportsInv ==
    /\ ledger \in [Findings -> {Reports!NoRecord} \cup Filed]
    /\ today \in Nat
    /\ \A f \in Findings : ledger[f] # Reports!NoRecord => InOrder(ledger[f], today)

-----------------------------------------------------------------------------
(* What the reports read is what PeriodResidency says of the ledger. *)

\* The reports add up the rows of a ledger as everybody does,
LEMMA SameLedgers ==
    ASSUME NEW rows, NEW S, NEW p, NEW d
    PROVE  /\ Reports!SumOfRows(rows, S, d) = SumOfRows(rows, S, d)
           /\ Reports!ClosedIn(rows, p, d) = ClosedIn(rows, p, d)
BY DEF Reports!SumOfRows, SumOfRows, Reports!ClosedIn, ClosedIn, Reports!SumOf, SumOf,
   Reports!PartialSums, PartialSums

\* read a finding's stays as everybody does,
LEMMA SameStays ==
    ASSUME NEW moves, NEW home, NEW total, NEW p, NEW d
    PROVE  /\ Reports!EligibleIn(moves, home, total, p, d) = EligibleIn(moves, home, total, p, d)
           /\ Reports!StaysIn(moves, home, total, p) = StaysIn(moves, home, total, p)
BY DEF Reports!EligibleIn, EligibleIn, Reports!StaysIn, StaysIn, Reports!Stays, Stays, Reports!Kept, Kept,
   Reports!SumOf, SumOf, Reports!PartialSums, PartialSums

\* and sum over sets and over sequences as everybody does.
LEMMA SameSums ==
    ASSUME NEW g
    PROVE  Reports!SumFunction(g) = SumFunctionOnSet(g, DOMAIN g)
<1>1. \A S : Reports!SumFunctionOnSet(g, S) = SumFunctionOnSet(g, S)
    BY Zenon DEF Reports!SumFunctionOnSet, SumFunctionOnSet, Reports!FoldFunctionOnSet, FoldFunctionOnSet,
       Reports!MapThenFoldSet, MapThenFoldSet
<1> QED
    BY <1>1 DEF Reports!SumFunction

\* A reduce of the reports is a sum.
LEMMA SameSequences == \A w : Reports!SumOf(w) = SumOf(w)
BY DEF Reports!SumOf, SumOf, Reports!PartialSums, PartialSums

\* The figures of one finding
LEMMA FiguresAre ==
    ASSUME NEW f, NEW r, r = ledger[f], NEW p
    PROVE  /\ Reports!Total(f).cases = r.total["cases"]
           /\ Reports!Closed(f) = ClosedOfAll(r)
           /\ Reports!Eligible(f, p) = EligibleIn(r.moves, r.home, r.total, p, "cases")
           /\ Reports!ClosedHere(f, p) = ClosedIn(r.closures, p, "cases")
           /\ Reports!ResidentIn(f, p) <=> StaysIn(r.moves, r.home, r.total, p) # {}
<1>1. Reports!Total(f).cases = r.total["cases"]
    BY DEF Reports!Total
<1>2. Reports!Closed(f) = ClosedOfAll(r)
    BY SameLedgers DEF Reports!Closed, ClosedOfAll, Months
<1>3. Reports!Eligible(f, p) = EligibleIn(r.moves, r.home, r.total, p, "cases")
    BY SameStays DEF Reports!Eligible
<1>4. Reports!ClosedHere(f, p) = ClosedIn(r.closures, p, "cases")
    BY SameLedgers DEF Reports!ClosedHere
<1>5. Reports!ResidentIn(f, p) <=> StaysIn(r.moves, r.home, r.total, p) # {}
    BY SameStays DEF Reports!ResidentIn
<1> QED
    BY <1>1, <1>2, <1>3, <1>4, <1>5

\* The months are numbered from 1.
LEMMA MonthsAre == Months \subseteq Nat \ {0} /\ IsFiniteSet(Months)
<1>1. IsFiniteSet(1..LastPeriod)
    BY ReportsAssumption, FS_Interval
<1> QED
    BY <1>1, ReportsAssumption DEF Months, Reports!Periods

\* What the rows of a ledger add up to is a number of cases.
LEMMA LedgerCounts ==
    ASSUME NEW rows \in Seq(Closing), NEW S
    PROVE  SumOfRows(rows, S, "cases") \in Nat
<1>1. PICK w : w = [i \in DOMAIN rows |-> IF rows[i].period \in S THEN rows[i].qty["cases"] ELSE 0]
    OBVIOUS
<1>2. \A y \in Closing : y.qty["cases"] \in Nat
    BY DEF Closing, Amounts, Counted
<1>3. \A i \in 1..Len(rows) : rows[i] \in Closing
    OBVIOUS
<1>4. DOMAIN rows = 1..Len(rows) /\ Len(rows) \in Nat
    OBVIOUS
<1>5. w \in [1..Len(rows) -> Nat]
    BY <1>1, <1>2, <1>3, <1>4
<1>6. PICK m \in Nat : m = Len(rows)
    BY <1>4
<1>7. w \in Seq(Nat)
    <2>1. w \in [1..m -> Nat]
        BY <1>5, <1>6
    <2> QED
        BY <2>1
<1>8. SumOf(w) \in Nat
    BY <1>7, SumOfNats
<1> QED
    BY <1>1, <1>8 DEF SumOfRows

\* Where a finding never was it has no case to answer for.
LEMMA NeverThere ==
    ASSUME NEW moves \in Seq(Moving(Months, Counted)), NEW home \in Months, NEW total \in Amounts(Counted),
           NEW p, StaysIn(moves, home, total, p) = {}
    PROVE  EligibleIn(moves, home, total, p, "cases") = 0
<1>1. PICK stays : stays = Stays(moves, home, total)
    OBVIOUS
<1>2. PICK n \in Nat : n = Len(moves) + 1 /\ DOMAIN stays = 1..n
    BY <1>1, StaysFollow
<1>3. \A i \in 1..n : stays[i].period # p
    BY <1>1, <1>2 DEF StaysIn
<1>4. PICK w : w = [i \in DOMAIN stays |->
                      IF stays[i].period = p THEN Kept(moves, home, total, i, "cases") ELSE 0]
    OBVIOUS
<1>5. w \in [1..n -> Int] /\ \A i \in 1..n : w[i] = 0
    BY <1>2, <1>3, <1>4
<1>6. SumOf(w) = 0
    BY <1>5, SumOfZeros
<1> QED
    BY <1>1, <1>4, <1>6 DEF EligibleIn

\* What a finding's ledgers say
LEMMA LedgersRead ==
    ASSUME NEW r \in Filed
    PROVE  /\ r.home \in Months /\ r.total \in Amounts(Counted) /\ r.total["cases"] \in Nat
           /\ r.moves \in Seq(Moving(Months, Counted)) /\ r.closures \in Seq(Closing)
           /\ ClosedOfAll(r) \in Nat
           /\ \A p : ClosedIn(r.closures, p, "cases") \in Nat
<1>1. /\ r.home \in Months /\ r.total \in Amounts(Counted)
      /\ r.moves \in Seq(Moving(Months, Counted)) /\ r.closures \in Seq(Closing)
    BY DEF Filed
<1>2. r.total["cases"] \in Nat
    BY <1>1 DEF Amounts, Counted
<1>3. ClosedOfAll(r) \in Nat
    BY <1>1, LedgerCounts DEF ClosedOfAll
<1>4. \A p : ClosedIn(r.closures, p, "cases") \in Nat
    BY <1>1, LedgerCounts DEF ClosedIn
<1> QED
    BY <1>1, <1>2, <1>3, <1>4

\* What a month of a finding has and closed, whatever was reopened: numbers, and
\* where the finding never was, neither.
LEMMA SliceOfMonth ==
    ASSUME NEW r \in Filed, NEW day, InOrder(r, day), NEW p \in Months,
           NEW has, has = EligibleIn(r.moves, r.home, r.total, p, "cases"),
           NEW did, did = ClosedIn(r.closures, p, "cases")
    PROVE  /\ has \in Int /\ did \in Nat
           /\ has = EndedStays(r.moves, r.home, r.total, p, "cases") + HasHere(r.moves, r.home, r.total, p, "cases")
           /\ EndedStays(r.moves, r.home, r.total, p, "cases") \in Int
           /\ Arrived(r.moves, r.total)["cases"] \in Nat
           /\ StaysIn(r.moves, r.home, r.total, p) = {} => has = 0 /\ did = 0
<1>1. /\ r.home \in Months /\ r.total \in Amounts(Counted) /\ r.total["cases"] \in Nat
      /\ r.moves \in Seq(Moving(Months, Counted)) /\ r.closures \in Seq(Closing) /\ did \in Nat
    BY LedgersRead
<1>2. r.moves # <<>> => r.moves[Len(r.moves)].to = r.home
    BY DEF InOrder, LeadsOn
<1>3. "cases" \in Counted
    BY DEF Counted
<1>4. /\ EndedStays(r.moves, r.home, r.total, p, "cases") \in Int
      /\ Arrived(r.moves, r.total) \in Amounts(Counted)
      /\ HasHere(r.moves, r.home, r.total, p, "cases") \in Int
      /\ EligibleIn(r.moves, r.home, r.total, p, "cases")
           = EndedStays(r.moves, r.home, r.total, p, "cases") + HasHere(r.moves, r.home, r.total, p, "cases")
    <2>1. PICK moves, home, total : moves = r.moves /\ home = r.home /\ total = r.total
        OBVIOUS
    <2>2. /\ moves \in Seq(Moving(Months, Counted)) /\ home \in Months /\ total \in Amounts(Counted)
          /\ moves # <<>> => moves[Len(moves)].to = home
        BY <1>1, <1>2, <2>1
    <2>3. /\ EndedStays(moves, home, total, p, "cases") \in Int
          /\ Arrived(moves, total) \in Amounts(Counted)
          /\ HasHere(moves, home, total, p, "cases") \in Int
        BY <1>3, <2>2, EligibleByStay, SMTT(30)
    <2>4. EligibleIn(moves, home, total, p, "cases")
            = EndedStays(moves, home, total, p, "cases") + HasHere(moves, home, total, p, "cases")
        BY <1>3, <2>2, <2>3, EligibleByStay, SMTT(60)
    <2> QED
        BY <2>1, <2>3, <2>4, Zenon
<1>5. EligibleIn(r.moves, r.home, r.total, p, "cases")
        = EndedStays(r.moves, r.home, r.total, p, "cases") + HasHere(r.moves, r.home, r.total, p, "cases")
    BY <1>4, Zenon
<1>6. Arrived(r.moves, r.total)["cases"] \in Nat
    BY <1>3, <1>4 DEF Amounts
<1>7. StaysIn(r.moves, r.home, r.total, p) = {} => has = 0
    BY <1>1, NeverThere
<1>8. ASSUME StaysIn(r.moves, r.home, r.total, p) = {} PROVE did = 0
    <2>1. PICK m \in Nat : m = Len(r.closures) /\ DOMAIN r.closures = 1..m
        BY <1>1
    <2>2. \A i \in 1..m : r.closures[i].period # p
        BY <1>8, <2>1 DEF InOrder, ClosedWhereItStayed
    <2>3. PICK w : w = [i \in 1..m |-> IF r.closures[i].period \in {p} THEN r.closures[i].qty["cases"] ELSE 0]
        OBVIOUS
    <2>4. w \in [1..m -> Int] /\ \A i \in 1..m : w[i] = 0
        BY <2>2, <2>3
    <2>5. SumOf(w) = 0
        BY <2>4, SumOfZeros
    <2> QED
        BY <2>1, <2>3, <2>5 DEF ClosedIn, SumOfRows
<1> QED
    BY <1>1, <1>4, <1>5, <1>6, <1>7, <1>8

\* A month closes no more than it answers for, unless the finding was reopened
\* after a transfer.
LEMMA ShareOfMonth ==
    ASSUME NEW r \in Filed, NEW day, InOrder(r, day), ~r.rewound, NEW p \in Months,
           NEW has, has = EligibleIn(r.moves, r.home, r.total, p, "cases"),
           NEW did, did = ClosedIn(r.closures, p, "cases")
    PROVE  has \in Nat /\ did \in Nat /\ did <= has
<1>1. r.total["cases"] \in Nat /\ ClosedOfAll(r) \in Nat
    BY LedgersRead
<1>2. PICK ended : ended = EndedStays(r.moves, r.home, r.total, p, "cases")
    OBVIOUS
<1>3. PICK here : here = HasHere(r.moves, r.home, r.total, p, "cases")
    OBVIOUS
<1>4. has \in Int /\ did \in Nat /\ has = ended + here /\ ended \in Int
    BY <1>2, <1>3, SliceOfMonth
<1>5. PICK came \in Nat : came = Arrived(r.moves, r.total)["cases"]
    BY SliceOfMonth
<1>6. PICK left \in Nat : left = r.total["cases"] - ClosedOfAll(r)
    BY <1>1 DEF InOrder
<1>7. did = ended + (IF r.home = p THEN came - left ELSE 0)
    BY <1>2, <1>5, <1>6 DEF InOrder, ClosedWhereItWas
<1>8. here = IF r.home = p THEN came ELSE 0
    BY <1>3, <1>5 DEF HasHere
<1>9. did <= has
    BY <1>4, <1>7, <1>8
<1> QED
    BY <1>4, <1>9

\* Over all months there is everything registered, and everything closed.
LEMMA SharesOfMonths ==
    ASSUME NEW r \in Filed, IsFiniteSet(Months),
           NEW has, \A p \in Months : has[p] = EligibleIn(r.moves, r.home, r.total, p, "cases"),
           NEW did, \A p \in Months : did[p] = ClosedIn(r.closures, p, "cases")
    PROVE  /\ SumFunctionOnSet(has, Months) = r.total["cases"]
           /\ SumFunctionOnSet(did, Months) = ClosedOfAll(r)
<1>1. /\ r.home \in Months /\ r.total \in Amounts(Counted) /\ r.closures \in Seq(Closing)
      /\ r.moves \in Seq(Moving(Months, Counted)) /\ "cases" \in Counted
    BY LedgersRead DEF Counted
<1>2. SumFunctionOnSet(has, Months) = r.total["cases"]
    BY <1>1, SharesOfStays
<1>3. \A y \in Closing : y.qty["cases"] \in Int
    BY DEF Closing, Amounts, Counted
<1>4. SumFunctionOnSet(did, Months) = SumOfRows(r.closures, Months, "cases")
    BY <1>1, <1>3, SharesOfLedger
<1> QED
    BY <1>2, <1>4 DEF ClosedOfAll

-----------------------------------------------------------------------------
(* The ledgers of a finding stay in order. *)

\* A finding nothing has happened to closed what its stays kept: nothing.
LEMMA NothingClosedYet ==
    ASSUME NEW r \in Filed, r.moves = <<>>, r.closures = <<>>
    PROVE  ClosedOfAll(r) = 0 /\ ClosedWhereItWas(r)
<1>1. ClosedOfAll(r) = 0
    BY SumOfEmpty DEF ClosedOfAll, SumOfRows
<1>2. r.total["cases"] \in Nat
    BY LedgersRead
<1>3. \A p \in Months : ClosedIn(r.closures, p, "cases") = 0
    BY SumOfEmpty DEF ClosedIn, SumOfRows
<1>4. \A p \in Months : EndedStays(r.moves, r.home, r.total, p, "cases") = 0 /\ Arrived(r.moves, r.total) = r.total
    BY EndedNone
<1>5. ClosedWhereItWas(r)
    BY <1>1, <1>2, <1>3, <1>4 DEF ClosedWhereItWas
<1> QED
    BY <1>1, <1>5

\* A finding with no transfer and no closure
LEMMA NewInOrder ==
    ASSUME NEW r \in Filed, r.moves = <<>>, r.closures = <<>>, NEW day
    PROVE  InOrder(r, day)
<1>1. ClosedOfAll(r) = 0 /\ ClosedWhereItWas(r) /\ r.total["cases"] \in Nat
    BY NothingClosedYet, LedgersRead
<1>2. LeadsOn(r)
    BY DEF LeadsOn
<1>3. ClosedWhereItStayed(r)
    BY DEF ClosedWhereItStayed
<1> QED
    BY <1>1, <1>2, <1>3 DEF InOrder

\* One that is reopened keeps its transfers and loses its closures.
LEMMA ReopenedInOrder ==
    ASSUME NEW r \in Filed, NEW day, InOrder(r, day), r.stage = "official",
           NEW s \in Filed, s.moves = r.moves, s.home = r.home, s.total = r.total, s.closures = <<>>,
           s.stage = "official", s.rewound \/ s.moves = <<>>
    PROVE  InOrder(s, day)
<1>1. ClosedOfAll(s) = 0 /\ s.total["cases"] \in Nat
    <2>1. ClosedOfAll(s) = 0
        BY SumOfEmpty DEF ClosedOfAll, SumOfRows
    <2> QED
        BY <2>1, LedgersRead
<1>2. LeadsOn(s)
    <2>1. LeadsOn(r)
        BY DEF InOrder
    <2> QED
        BY ONLY <2>1, s.moves = r.moves, s.home = r.home, s.total = r.total DEF LeadsOn
<1>3. ClosedWhereItStayed(s)
    BY DEF ClosedWhereItStayed
<1>4. ~s.rewound => ClosedWhereItWas(s)
    BY NothingClosedYet
<1> QED
    BY <1>1, <1>2, <1>3, <1>4 DEF InOrder

\* Another day changes nothing of that.
LEMMA StillInOrder ==
    ASSUME NEW r \in Filed, NEW day \in Nat, InOrder(r, day), NEW later \in Nat, day <= later
    PROVE  InOrder(r, later)
<1>1. \A i \in 1..Len(r.closures) : r.closures[i].day \in Nat /\ r.closures[i].day <= day
    <2>1. r.closures \in Seq(Closing)
        BY LedgersRead
    <2>2. \A i \in 1..Len(r.closures) : r.closures[i] \in Closing
        BY <2>1
    <2> QED
        BY <2>2 DEF InOrder, Closing
<1>2. \A i \in 1..Len(r.closures) : r.closures[i].day <= later
    BY <1>1
<1> QED
    BY <1>2 DEF InOrder

\* A finding is somewhere: its last stay is where it is now.
LEMMA HomeIsAStay ==
    ASSUME NEW r \in Filed, LeadsOn(r)
    PROVE  StaysIn(r.moves, r.home, r.total, r.home) # {}
<1>1. PICK moves, home, total : moves = r.moves /\ home = r.home /\ total = r.total
    OBVIOUS
<1>2. moves \in Seq(Moving(Months, Counted)) /\ home \in Months /\ total \in Amounts(Counted)
    BY <1>1, LedgersRead
<1>3. PICK stays : stays = Stays(moves, home, total)
    OBVIOUS
<1>4. PICK n \in Nat : n = Len(moves) /\ DOMAIN stays = 1..(n + 1)
    BY <1>2, <1>3, StaysFollow
<1>5. /\ moves = <<>> => stays[1].period = home
      /\ \A j \in 1..n : stays[j + 1].period = moves[j].to
    BY <1>2, <1>3, <1>4, StaysFollow
<1>6. moves # <<>> => n # 0 /\ moves[n].to = home
    BY <1>1, <1>2, <1>4 DEF LeadsOn
<1>7. moves = <<>> => n = 0
    BY <1>4
<1>8. stays[n + 1].period = home /\ n + 1 \in DOMAIN stays
    BY <1>4, <1>5, <1>6, <1>7
<1>9. n + 1 \in StaysIn(moves, home, total, home)
    BY <1>3, <1>8 DEF StaysIn
<1> QED
    BY <1>1, <1>9

\* What a closure adds to what has been closed
LEMMA ClosureAdds ==
    ASSUME NEW r \in Filed, NEW n \in Nat, NEW c \in Closing, c.period = r.home, c.qty["cases"] = n,
           NEW s \in Filed, s.closures = Append(r.closures, c)
    PROVE  ClosedOfAll(s) = ClosedOfAll(r) + n
<1>1. r.home \in Months /\ r.closures \in Seq(Closing)
    BY LedgersRead
<1>2. \A y \in Closing : y.qty["cases"] \in Int
    BY DEF Closing, Amounts, Counted
<1>3. SumOfRows(s.closures, Months, "cases") = SumOfRows(r.closures, Months, "cases") + n
    BY <1>1, <1>2, LedgerOneMore
<1> QED
    BY <1>3 DEF ClosedOfAll

\* One closure more
LEMMA ClosureInOrder ==
    ASSUME NEW r \in Filed, NEW day \in Nat, InOrder(r, day), r.stage = "official",
           NEW n \in Nat, n <= r.total["cases"] - ClosedOfAll(r),
           NEW c \in Closing, c.period = r.home, c.qty["cases"] = n, c.day = day,
           NEW s \in Filed, s.closures = Append(r.closures, c), s.moves = r.moves, s.home = r.home,
           s.total = r.total, s.stage = "official", s.rewound = r.rewound
    PROVE  InOrder(s, day)
<1>1. /\ r.home \in Months /\ r.total["cases"] \in Nat /\ r.closures \in Seq(Closing)
      /\ ClosedOfAll(r) \in Nat /\ \A p : ClosedIn(r.closures, p, "cases") \in Nat
      /\ r.moves \in Seq(Moving(Months, Counted)) /\ r.total \in Amounts(Counted)
    BY LedgersRead
<1>2. \A y \in Closing : y.qty["cases"] \in Int
    BY DEF Closing, Amounts, Counted
<1>3. ASSUME NEW S
      PROVE  SumOfRows(s.closures, S, "cases")
                = SumOfRows(r.closures, S, "cases") + (IF c.period \in S THEN c.qty["cases"] ELSE 0)
    BY <1>1, <1>2, LedgerOneMore
<1>4. ClosedOfAll(s) = ClosedOfAll(r) + n
    BY ClosureAdds
<1>5. ASSUME NEW p \in Months
      PROVE  ClosedIn(s.closures, p, "cases") = ClosedIn(r.closures, p, "cases") + (IF r.home = p THEN n ELSE 0)
    <2>1. c.period \in {p} <=> r.home = p
        OBVIOUS
    <2>2. SumOfRows(s.closures, {p}, "cases") = SumOfRows(r.closures, {p}, "cases") + (IF r.home = p THEN n ELSE 0)
        BY <1>3, <2>1
    <2> QED
        BY <2>2 DEF ClosedIn
<1>6. Arrived(r.moves, r.total)["cases"] \in Nat
    <2>1. r.moves # <<>> => r.moves[Len(r.moves)].to = r.home
        BY DEF InOrder, LeadsOn
    <2>2. "cases" \in Counted
        BY DEF Counted
    <2>3. Arrived(r.moves, r.total) \in Amounts(Counted)
        BY <1>1, <2>1, <2>2, EligibleByStay
    <2> QED
        BY <2>2, <2>3 DEF Amounts
<1>7. ~s.rewound => ClosedWhereItWas(s)
    <2> SUFFICES ASSUME ~r.rewound, NEW p \in Months
                 PROVE  ClosedIn(s.closures, p, "cases")
                            = EndedStays(r.moves, r.home, r.total, p, "cases")
                                + (IF r.home = p
                                   THEN Arrived(r.moves, r.total)["cases"] - (r.total["cases"] - ClosedOfAll(s))
                                   ELSE 0)
        BY DEF ClosedWhereItWas
    <2>1. PICK ended : ended = EndedStays(r.moves, r.home, r.total, p, "cases")
        OBVIOUS
    <2>2. PICK came \in Nat : came = Arrived(r.moves, r.total)["cases"]
        BY <1>6
    <2>3. PICK was \in Nat : was = ClosedIn(r.closures, p, "cases")
        BY <1>1
    <2>4. PICK all \in Nat : all = r.total["cases"]
        BY <1>1
    <2>5. PICK closed \in Nat : closed = ClosedOfAll(r)
        BY <1>1
    <2>6. was = ended + (IF r.home = p THEN came - (all - closed) ELSE 0)
        BY <2>1, <2>2, <2>3, <2>4, <2>5 DEF InOrder, ClosedWhereItWas
    <2>7. ended \in Int
        <3>1. r.moves # <<>> => r.moves[Len(r.moves)].to = r.home
            BY DEF InOrder, LeadsOn
        <3>2. "cases" \in Counted
            BY DEF Counted
        <3>3. PICK moves \in Seq(Moving(Months, Counted)) : moves = r.moves
            BY <1>1
        <3>4. PICK home \in Months : home = r.home
            BY <1>1
        <3>5. PICK total \in Amounts(Counted) : total = r.total
            BY <1>1
        <3>6. moves # <<>> => moves[Len(moves)].to = home
            BY <3>1, <3>3, <3>4
        <3>7. EndedStays(moves, home, total, p, "cases") \in Int
            BY <3>2, <3>6, EligibleByStay
        <3> QED
            BY <2>1, <3>3, <3>4, <3>5, <3>7
    <2>8. was + (IF r.home = p THEN n ELSE 0) = ended + (IF r.home = p THEN came - (all - (closed + n)) ELSE 0)
        BY <2>6, <2>7
    <2>9. ClosedIn(s.closures, p, "cases") = was + (IF r.home = p THEN n ELSE 0)
        BY <1>5, <2>3
    <2>10. ClosedOfAll(s) = closed + n
        BY <1>4, <2>5
    <2> QED
        BY <2>1, <2>2, <2>4, <2>8, <2>9, <2>10
<1>8. LeadsOn(s)
    <2>1. LeadsOn(r)
        BY DEF InOrder
    <2>2. PICK moves, home, total : moves = r.moves /\ home = r.home /\ total = r.total
        OBVIOUS
    <2>3. s.moves = moves /\ s.home = home /\ s.total = total
        BY <2>2
    <2> QED
        BY ONLY <2>1, <2>2, <2>3 DEF LeadsOn
<1>9. \A i \in 1..Len(s.closures) : s.closures[i].day <= day
    <2>1. /\ Len(s.closures) = Len(r.closures) + 1 /\ Len(r.closures) \in Nat
          /\ s.closures[Len(r.closures) + 1] = c
          /\ \A i \in 1..Len(r.closures) : s.closures[i] = r.closures[i]
        BY <1>1
    <2>2. \A i \in 1..(Len(r.closures) + 1) : i = Len(r.closures) + 1 \/ i \in 1..Len(r.closures)
        BY <2>1
    <2>3. \A i \in 1..Len(r.closures) : r.closures[i].day <= day
        BY DEF InOrder
    <2> QED
        BY <2>1, <2>2, <2>3
<1>10. ClosedOfAll(s) <= s.total["cases"]
    BY <1>1, <1>4
<1>11. ClosedWhereItStayed(s)
    <2>1. /\ Len(s.closures) = Len(r.closures) + 1 /\ Len(r.closures) \in Nat
          /\ s.closures[Len(r.closures) + 1] = c
          /\ \A i \in 1..Len(r.closures) : s.closures[i] = r.closures[i]
        BY <1>1
    <2>2. \A i \in 1..(Len(r.closures) + 1) : i = Len(r.closures) + 1 \/ i \in 1..Len(r.closures)
        BY <2>1
    <2>3. StaysIn(r.moves, r.home, r.total, r.home) # {}
        BY HomeIsAStay DEF InOrder
    <2>4. \A i \in 1..Len(r.closures) : StaysIn(r.moves, r.home, r.total, r.closures[i].period) # {}
        BY DEF InOrder, ClosedWhereItStayed
    <2> QED
        BY <2>1, <2>2, <2>3, <2>4 DEF ClosedWhereItStayed
<1> QED
    BY <1>4, <1>7, <1>8, <1>9, <1>10, <1>11 DEF InOrder

\* A transfer takes a finding to no period it would leave by it.
LEMMA TransferKeepsStays ==
    ASSUME NEW r \in Filed, NEW q \in Months, NEW m \in Moving(Months, Counted), m.from = r.home, m.to = q,
           NEW s \in Filed, s.moves = Append(r.moves, m), s.home = q, s.total = r.total
    PROVE  \A p : StaysIn(r.moves, r.home, r.total, p) # {} => StaysIn(s.moves, s.home, s.total, p) # {}
<1>1. /\ r.home \in Months /\ r.moves \in Seq(Moving(Months, Counted)) /\ r.total \in Amounts(Counted)
      /\ s.moves \in Seq(Moving(Months, Counted))
    BY LedgersRead
<1>2. /\ Len(s.moves) = Len(r.moves) + 1 /\ Len(r.moves) \in Nat
      /\ s.moves[Len(r.moves) + 1] = m
      /\ \A i \in 1..Len(r.moves) : s.moves[i] = r.moves[i]
    BY <1>1
<1>3. PICK moves, home, total, more : moves = r.moves /\ home = r.home /\ total = r.total /\ more = s.moves
    OBVIOUS
<1>4. /\ moves \in Seq(Moving(Months, Counted)) /\ home \in Months /\ total \in Amounts(Counted)
      /\ more \in Seq(Moving(Months, Counted)) /\ Len(more) = Len(moves) + 1
      /\ more[Len(moves) + 1] = m /\ m.from = home /\ m.to = s.home /\ s.total = total
      /\ \A i \in 1..Len(moves) : more[i] = moves[i]
    BY <1>1, <1>2, <1>3
<1>5. ASSUME NEW p, StaysIn(moves, home, total, p) # {}
      PROVE  StaysIn(more, m.to, total, p) # {}
    <2>1. m \in Moving(Months, Counted) /\ m.from = home
        BY <1>4
    <2> QED
        BY ONLY <1>4, <1>5, <2>1, StaysRemain
<1> QED
    BY <1>3, <1>4, <1>5

\* One transfer more, of everything that is not closed
LEMMA TransferInOrder ==
    ASSUME NEW r \in Filed, NEW day \in Nat, InOrder(r, day), r.stage = "official",
           ClosedOfAll(r) < r.total["cases"],
           NEW q \in Months, r.home < q,
           NEW m \in Moving(Months, Counted), m.from = r.home, m.to = q,
           m.qty["cases"] = r.total["cases"] - ClosedOfAll(r),
           NEW s \in Filed, s.moves = Append(r.moves, m), s.home = q, s.closures = r.closures,
           s.total = r.total, s.stage = "official", s.rewound = r.rewound
    PROVE  InOrder(s, day)
<1>1. /\ r.home \in Months /\ r.total["cases"] \in Nat /\ r.closures \in Seq(Closing)
      /\ ClosedOfAll(r) \in Nat /\ \A p : ClosedIn(r.closures, p, "cases") \in Nat
      /\ r.moves \in Seq(Moving(Months, Counted)) /\ r.total \in Amounts(Counted)
      /\ s.moves \in Seq(Moving(Months, Counted)) /\ "cases" \in Counted
    BY LedgersRead DEF Counted
<1>2. /\ Len(s.moves) = Len(r.moves) + 1 /\ Len(r.moves) \in Nat
      /\ s.moves[Len(r.moves) + 1] = m
      /\ \A i \in 1..Len(r.moves) : s.moves[i] = r.moves[i]
    BY <1>1
<1>3. r.moves # <<>> => r.moves[Len(r.moves)].to = r.home
    BY DEF InOrder, LeadsOn
<1>4. ClosedOfAll(s) = ClosedOfAll(r)
    BY DEF ClosedOfAll
<1>5. Arrived(r.moves, r.total)["cases"] \in Nat
    <2>1. Arrived(r.moves, r.total) \in Amounts(Counted)
        BY <1>1, <1>3, EligibleByStay
    <2> QED
        BY <1>1, <2>1 DEF Amounts
<1>6. ASSUME NEW p \in Months
      PROVE  /\ EndedStays(s.moves, s.home, s.total, p, "cases")
                    = EndedStays(r.moves, r.home, r.total, p, "cases")
                        + (IF r.home = p THEN Arrived(r.moves, r.total)["cases"] - m.qty["cases"] ELSE 0)
             /\ Arrived(s.moves, s.total) = m.qty
             /\ EndedStays(r.moves, r.home, r.total, p, "cases") \in Int
    <2>1. EndedStays(r.moves, r.home, r.total, p, "cases") \in Int
        BY <1>1, <1>3, EligibleByStay
    <2>2. /\ EndedStays(s.moves, m.to, r.total, p, "cases")
                    = EndedStays(r.moves, r.home, r.total, p, "cases")
                        + (IF r.home = p THEN Arrived(r.moves, r.total)["cases"] - m.qty["cases"] ELSE 0)
          /\ Arrived(s.moves, r.total) = m.qty
        <3>1. PICK moves, home, total, more : moves = r.moves /\ home = r.home /\ total = r.total /\ more = s.moves
            OBVIOUS
        <3>2. /\ moves \in Seq(Moving(Months, Counted)) /\ home \in Months /\ total \in Amounts(Counted)
              /\ moves # <<>> => moves[Len(moves)].to = home
              /\ more \in Seq(Moving(Months, Counted)) /\ Len(more) = Len(moves) + 1
              /\ more[Len(moves) + 1] = m /\ m.from = home
              /\ \A i \in 1..Len(moves) : more[i] = moves[i]
            BY <1>1, <1>2, <1>3, <3>1
        <3>3. "cases" \in Counted
            BY <1>1
        <3>4. /\ EndedStays(more, m.to, total, p, "cases")
                    = EndedStays(moves, home, total, p, "cases")
                        + (IF home = p THEN Arrived(moves, total)["cases"] - m.qty["cases"] ELSE 0)
              /\ Arrived(more, total) = m.qty
            BY <3>2, <3>3, StayEnds
        <3> QED
            BY <3>1, <3>4
    <2> QED
        BY <2>1, <2>2
<1>7. ~s.rewound => ClosedWhereItWas(s)
    <2> SUFFICES ASSUME ~r.rewound, NEW p \in Months
                 PROVE  ClosedIn(r.closures, p, "cases")
                            = EndedStays(s.moves, s.home, s.total, p, "cases")
                                + (IF q = p
                                   THEN Arrived(s.moves, s.total)["cases"] - (r.total["cases"] - ClosedOfAll(r))
                                   ELSE 0)
        BY <1>4 DEF ClosedWhereItWas
    <2>1. PICK ended \in Int : ended = EndedStays(r.moves, r.home, r.total, p, "cases")
        BY <1>6
    <2>2. PICK came \in Nat : came = Arrived(r.moves, r.total)["cases"]
        BY <1>5
    <2>3. PICK left \in Int : left = r.total["cases"] - ClosedOfAll(r)
        BY <1>1
    <2>4. ClosedIn(r.closures, p, "cases") = ended + (IF r.home = p THEN came - left ELSE 0)
        BY <2>1, <2>2, <2>3 DEF InOrder, ClosedWhereItWas
    <2>5. EndedStays(s.moves, s.home, s.total, p, "cases") = ended + (IF r.home = p THEN came - left ELSE 0)
        BY <1>6, <2>1, <2>2, <2>3
    <2>6. Arrived(s.moves, s.total)["cases"] = left
        BY <1>6, <2>3
    <2> QED
        BY <2>1, <2>2, <2>3, <2>4, <2>5, <2>6
<1>8. LeadsOn(s)
    <2>1. PICK k \in Nat : k = Len(r.moves)
        BY <1>2
    <2>2. \A i \in 1..(k + 1) : i = k + 1 \/ i \in 1..k
        OBVIOUS
    <2>3. r.home \in Nat /\ q \in Nat
        BY <1>1, MonthsAre
    <2>4. \A i \in 1..k : r.moves[i].from \in Nat
        <3>1. \A i \in 1..k : r.moves[i] \in Moving(Months, Counted)
            BY <1>1, <2>1
        <3> QED
            BY <3>1, MonthsAre DEF Moving
    <2>5. \A i \in 1..k : /\ s.moves[i].from = r.moves[i].from /\ s.moves[i].qty = r.moves[i].qty
                          /\ r.moves[i].from < r.home /\ r.moves[i].qty["cases"] <= r.total["cases"]
        BY <1>2, <2>1 DEF InOrder, LeadsOn
    <2>6. \A i, j \in 1..k : i < j => s.moves[i].from < s.moves[j].from
        BY <2>1, <2>5 DEF InOrder, LeadsOn
    <2>7. s.moves[k + 1].from = r.home /\ s.moves[k + 1].qty["cases"] <= r.total["cases"] /\ s.moves[k + 1].to = q
        BY <1>1, <1>2, <2>1
    <2>8. \A i \in 1..(k + 1) : /\ s.moves[i].from < q
                                /\ s.moves[i].qty["cases"] <= r.total["cases"]
        <3> SUFFICES ASSUME NEW i \in 1..(k + 1)
                     PROVE  s.moves[i].from < q /\ s.moves[i].qty["cases"] <= r.total["cases"]
            OBVIOUS
        <3>1. CASE i \in 1..k
            <4>1. s.moves[i].from = r.moves[i].from /\ r.moves[i].from < r.home
                BY <2>5, <3>1
            <4>2. s.moves[i].qty["cases"] <= r.total["cases"]
                BY <2>5, <3>1
            <4>3. PICK from \in Nat : from = r.moves[i].from
                BY <2>4, <3>1
            <4>4. from < r.home /\ r.home < q
                BY <1>1, <4>1, <4>3
            <4>5. from < q
                BY <2>3, <4>4
            <4> QED
                BY <4>1, <4>2, <4>3, <4>5
        <3>2. CASE i = k + 1
            <4>1. s.moves[i] = s.moves[k + 1]
                BY <3>2
            <4>2. r.home < q
                BY <1>1
            <4> QED
                BY <2>7, <4>1, <4>2
        <3> QED
            BY <2>2, <3>1, <3>2
    <2>9. ASSUME NEW i \in 1..(k + 1), NEW j \in 1..(k + 1), i < j PROVE s.moves[i].from < s.moves[j].from
        <3>1. i \in 1..k
            BY <2>9
        <3>2. CASE j \in 1..k
            BY <2>6, <2>9, <3>1, <3>2
        <3>3. CASE j = k + 1
            BY <2>5, <2>7, <3>1, <3>3
        <3> QED
            BY <2>2, <3>2, <3>3
    <2>10. s.moves[Len(s.moves)].to = s.home
        BY <1>2, <2>1, <2>7
    <2>11. ASSUME NEW i \in 1..(k + 1), NEW j \in 1..(k + 1), j = i + 1
           PROVE  s.moves[j].from = s.moves[i].to
        <3>1. i \in 1..k
            BY <2>11
        <3>2. s.moves[i] = r.moves[i]
            BY <1>2, <2>1, <3>1
        <3>3. CASE j \in 1..k
            <4>1. s.moves[j] = r.moves[j]
                BY <1>2, <2>1, <3>3
            <4>2. r.moves[j].from = r.moves[i].to
                BY <2>1, <2>11, <3>1, <3>3 DEF InOrder, LeadsOn
            <4> QED
                BY <3>2, <4>1, <4>2
        <3>4. CASE j = k + 1
            <4>1. i = k /\ k # 0
                BY <2>11, <3>1, <3>4
            <4>2. r.moves # <<>>
                BY <1>2, <2>1, <4>1
            <4>3. r.moves[k].to = r.home
                BY <1>3, <2>1, <4>2
            <4> QED
                BY <2>7, <3>2, <3>4, <4>1, <4>3
        <3> QED
            BY <2>2, <3>3, <3>4
    <2> QED
        BY <1>2, <2>1, <2>8, <2>9, <2>10, <2>11 DEF LeadsOn
<1>9. \A i \in 1..Len(s.closures) : s.closures[i].day <= day
    BY DEF InOrder
<1>10. ClosedOfAll(s) <= s.total["cases"]
    BY <1>4 DEF InOrder
<1>11. \A p : StaysIn(r.moves, r.home, r.total, p) # {} => StaysIn(s.moves, s.home, s.total, p) # {}
    BY TransferKeepsStays
<1>12. ClosedWhereItStayed(s)
    BY <1>11 DEF InOrder, ClosedWhereItStayed
<1> QED
    BY <1>7, <1>8, <1>9, <1>10, <1>11, <1>12 DEF InOrder

\* What is in the tables is a finding of the reports.
LEMMA FiledThere ==
    ASSUME ReportsInv, NEW f \in Findings, ledger[f] # Reports!NoRecord
    PROVE  ledger[f] \in Filed /\ InOrder(ledger[f], today)
BY DEF ReportsInv

\* A finding that is not there is none of the reports.
LEMMA NoRecordIsNotFiled == Reports!NoRecord \notin Filed
BY DEF Reports!NoRecord, Filed

\* One finding is written.
LEMMA OneFindingWritten ==
    ASSUME ReportsInv, NEW f \in Findings, NEW s \in {Reports!NoRecord} \cup Filed,
           s = Reports!NoRecord \/ InOrder(s, today),
           ledger' = [ledger EXCEPT ![f] = s], today' = today
    PROVE  ReportsInv'
<1>1. /\ ledger \in [Findings -> {Reports!NoRecord} \cup Filed]
      /\ \A g \in Findings : ledger[g] # Reports!NoRecord => InOrder(ledger[g], today)
    BY DEF ReportsInv
<1>2. ledger' \in [Findings -> {Reports!NoRecord} \cup Filed]
    BY <1>1
<1>3. \A g \in Findings : ledger'[g] = IF g = f THEN s ELSE ledger[g]
    BY <1>1
<1>4. \A g \in Findings : ledger'[g] # Reports!NoRecord => InOrder(ledger'[g], today)
    BY <1>1, <1>3
<1>5. today' \in Nat
    BY DEF ReportsInv
<1>6. \A g \in Findings : ledger'[g] # Reports!NoRecord => InOrder(ledger'[g], today')
    BY <1>4
<1> QED
    BY <1>2, <1>5, <1>6 DEF ReportsInv

\* A number of cases counts as an amount of one dimension.
LEMMA CasesAre == \A n \in Nat : Reports!Cases(n) \in Amounts(Counted) /\ Reports!Cases(n)["cases"] = n
BY DEF Reports!Cases, Amounts, Counted

\* What a draft is, and what its submission makes of it
LEMMA DraftFits ==
    ASSUME NEW d \in Districts, NEW c \in Categories, NEW s \in Sources, NEW p \in Months,
           NEW date \in Nat, NEW n \in Nat
    PROVE  /\ Reports!Draft(d, c, s, p, date, n) \in Filed
           /\ Reports!Draft(d, c, s, p, date, n).moves = <<>>
           /\ Reports!Draft(d, c, s, p, date, n).closures = <<>>
<1> PICK r : r = Reports!Draft(d, c, s, p, date, n)
    OBVIOUS
<1>1. Reports!Cases(n) \in Amounts(Counted)
    BY CasesAre
<1>2. <<>> \in Seq(Moving(Months, Counted)) /\ <<>> \in Seq(Closing)
    OBVIOUS
<1>3. "draft" \in Reports!Stages
    BY DEF Reports!Stages
<1>4. r = [district |-> d, category |-> c, source |-> s, date |-> date, home |-> p, total |-> Reports!Cases(n),
           moves |-> <<>>, closures |-> <<>>, stage |-> "draft", bankScope |-> FALSE,
           imported |-> FALSE, rewound |-> FALSE]
    BY DEF Reports!Draft
<1>5. r.moves = <<>> /\ r.closures = <<>>
    BY <1>4
<1>6. r \in Filed
    BY <1>1, <1>2, <1>3, <1>4 DEF Filed
<1> QED
    BY <1>5, <1>6

\* Where a finding is filed, where it was and what was closed of it.
SameLedger(r, s) ==
    /\ s.district = r.district /\ s.source = r.source /\ s.home = r.home /\ s.total = r.total
    /\ s.moves = r.moves /\ s.closures = r.closures /\ s.imported = r.imported

\* A submission of a filed record leaves a filed record, with the same ledger.
LEMMA SubmissionFits ==
    ASSUME NEW r \in Filed, NEW s \in Reports!Submissions(r)
    PROVE  s \in Filed /\ SameLedger(r, s)
<1>1. PICK stage, bank : /\ s = [r EXCEPT !.stage = stage, !.bankScope = bank]
                         /\ stage \in {"reviewing", "official"} /\ bank \in BOOLEAN
    <2>1. CASE \E bank \in BOOLEAN : s = [r EXCEPT !.stage = "reviewing", !.bankScope = bank]
        BY <2>1
    <2>2. CASE s = [r EXCEPT !.stage = "official", !.bankScope = TRUE]
        BY <2>2
    <2> QED
        BY <2>1, <2>2 DEF Reports!Submissions
<1>2. stage \in Reports!Stages
    BY <1>1 DEF Reports!Stages
<1>3. SameLedger(r, s)
    BY <1>1 DEF SameLedger, Filed
<1>4. s \in Filed
    BY <1>1, <1>2 DEF Filed
<1> QED
    BY <1>3, <1>4

\* Before its approval nothing has been closed or transferred.
LEMMA UnapprovedIs ==
    ASSUME ReportsInv, NEW f \in Findings, ledger[f] # Reports!NoRecord, ledger[f].stage # "official"
    PROVE  ledger[f] \in Filed /\ ledger[f].moves = <<>> /\ ledger[f].closures = <<>>
BY FiledThere DEF InOrder

\* A finding is written that nothing has happened to.
LEMMA UnapprovedWritten ==
    ASSUME ReportsInv, NEW f \in Findings, NEW s \in Filed, s.moves = <<>>, s.closures = <<>>,
           ledger' = [ledger EXCEPT ![f] = s], today' = today
    PROVE  ReportsInv'
BY NewInOrder, OneFindingWritten

\* What a registration writes
LEMMA RegisterWrites ==
    ASSUME NEW f \in Findings, NEW d \in Districts, NEW c \in Categories, NEW s \in Sources,
           NEW p \in Months, NEW date \in Nat, NEW n \in Nat, Reports!Register(f, d, c, s, p, date, n)
    PROVE  \E r \in Filed : /\ r.moves = <<>> /\ r.closures = <<>> /\ ledger[f] = Reports!NoRecord
                            /\ ledger' = [ledger EXCEPT ![f] = r] /\ today' = today
<1>1. PICK draft : draft = Reports!Draft(d, c, s, p, date, n)
    OBVIOUS
<1>2. draft \in Filed /\ draft.moves = <<>> /\ draft.closures = <<>>
    BY <1>1, DraftFits
<1>3. PICK r \in {draft} \cup Reports!Submissions(draft) : ledger' = [ledger EXCEPT ![f] = r]
    BY <1>1 DEF Reports!Register
<1>4. r \in Filed /\ r.moves = <<>> /\ r.closures = <<>>
    <2>1. CASE r = draft
        BY <1>2, <2>1
    <2>2. CASE r \in Reports!Submissions(draft)
        BY <1>2, <2>2, SubmissionFits DEF SameLedger
    <2> QED
        BY <2>1, <2>2
<1>5. today' = today /\ ledger[f] = Reports!NoRecord
    BY DEF Reports!Register, Reports!Registered
<1> QED
    BY <1>3, <1>4, <1>5

\* What an edit writes
LEMMA EditWrites ==
    ASSUME ReportsInv, NEW f \in Findings, NEW d \in Districts, NEW c \in Categories, NEW s \in Sources,
           NEW p \in Months, NEW date \in Nat, NEW n \in Nat, Reports!Edit(f, d, c, s, p, date, n)
    PROVE  \E was, is \in Filed :
              /\ was = ledger[f] /\ was.stage \in Reports!EditableStages /\ was.moves = <<>>
              /\ is.moves = <<>> /\ is.closures = <<>>
              /\ is.bankScope = was.bankScope /\ is.imported = was.imported
              /\ ledger' = [ledger EXCEPT ![f] = is] /\ today' = today
<1>1. PICK was : was = ledger[f]
    OBVIOUS
<1>2. was # Reports!NoRecord /\ was.stage \in Reports!EditableStages
    BY <1>1 DEF Reports!Edit, Reports!Registered
<1>3. was \in Filed /\ was.moves = <<>> /\ was.closures = <<>>
    BY <1>1, <1>2, UnapprovedIs DEF Reports!EditableStages
<1>4. PICK total \in Amounts(Counted) : total = Reports!Cases(n)
    BY CasesAre
<1>5. PICK is : is = [was EXCEPT !.district = d, !.category = c, !.source = s, !.date = date, !.home = p, !.total = total]
    OBVIOUS
<1>6. is \in Filed
    BY <1>3, <1>4, <1>5 DEF Filed
<1>7. /\ is.moves = <<>> /\ is.closures = <<>>
      /\ is.bankScope = was.bankScope /\ is.imported = was.imported
    BY <1>3, <1>5 DEF Filed
<1>8. ledger' = [ledger EXCEPT ![f] = is] /\ today' = today
    BY <1>1, <1>4, <1>5, Zenon DEF Reports!Edit
<1> QED
    BY <1>1, <1>2, <1>3, <1>6, <1>7, <1>8

\* What a submission writes
LEMMA SubmitWrites ==
    ASSUME ReportsInv, NEW f \in Findings, Reports!Submit(f)
    PROVE  \E was, is \in Filed :
              /\ was = ledger[f] /\ was.stage \in Reports!EditableStages /\ SameLedger(was, is)
              /\ is.moves = <<>> /\ is.closures = <<>>
              /\ ledger' = [ledger EXCEPT ![f] = is] /\ today' = today
<1>1. PICK was : was = ledger[f]
    OBVIOUS
<1>2. was # Reports!NoRecord /\ was.stage \in Reports!EditableStages
    BY <1>1 DEF Reports!Submit, Reports!Registered
<1>3. was \in Filed /\ was.moves = <<>> /\ was.closures = <<>>
    BY <1>1, <1>2, UnapprovedIs DEF Reports!EditableStages
<1>4. PICK is \in Reports!Submissions(was) : ledger' = [ledger EXCEPT ![f] = is]
    BY <1>1 DEF Reports!Submit
<1>5. is \in Filed /\ SameLedger(was, is)
    BY <1>3, SubmissionFits
<1>6. is.moves = <<>> /\ is.closures = <<>>
    BY <1>3, <1>5 DEF SameLedger
<1>7. today' = today
    BY DEF Reports!Submit
<1> QED
    BY <1>1, <1>2, <1>3, <1>4, <1>5, <1>6, <1>7

\* What a review writes
LEMMA ReviewWrites ==
    ASSUME ReportsInv, NEW f \in Findings, NEW to \in {"official", "returned", "rejected"}, Reports!Review(f, to)
    PROVE  \E was, is \in Filed :
              /\ was = ledger[f] /\ was.stage = "reviewing" /\ SameLedger(was, is) /\ is.bankScope = was.bankScope
              /\ is.moves = <<>> /\ is.closures = <<>>
              /\ ledger' = [ledger EXCEPT ![f] = is] /\ today' = today
<1>1. PICK was : was = ledger[f]
    OBVIOUS
<1>2. was # Reports!NoRecord /\ was.stage = "reviewing"
    BY <1>1 DEF Reports!Review, Reports!Registered
<1>3. was \in Filed /\ was.moves = <<>> /\ was.closures = <<>>
    BY <1>1, <1>2, UnapprovedIs
<1>4. PICK is : is = [was EXCEPT !.stage = to]
    OBVIOUS
<1>5. to \in Reports!Stages
    BY DEF Reports!Stages
<1>6. is \in Filed
    BY <1>3, <1>4, <1>5 DEF Filed
<1>7. SameLedger(was, is) /\ is.bankScope = was.bankScope
    BY <1>3, <1>4 DEF SameLedger, Filed
<1>8. is.moves = <<>> /\ is.closures = <<>>
    BY <1>3, <1>7 DEF SameLedger
<1>9. ledger' = [ledger EXCEPT ![f] = is] /\ today' = today
    BY <1>1, <1>4, Zenon DEF Reports!Review
<1> QED
    BY <1>1, <1>2, <1>3, <1>6, <1>7, <1>8, <1>9

\* Registrations, edits, submissions and reviews leave the ledgers in order.
LEMMA FilingInOrder ==
    ASSUME ReportsInv, NEW f \in Findings,
           \/ Reports!Submit(f)
           \/ \E to \in {"official", "returned", "rejected"} : Reports!Review(f, to)
           \/ \E d \in Districts, c \in Categories, s \in Sources, p \in Months, date \in Nat, n \in Nat :
                 Reports!Register(f, d, c, s, p, date, n) \/ Reports!Edit(f, d, c, s, p, date, n)
    PROVE  ReportsInv'
<1>1. CASE Reports!Submit(f)
    BY <1>1, SubmitWrites, UnapprovedWritten
<1>2. CASE \E to \in {"official", "returned", "rejected"} : Reports!Review(f, to)
    BY <1>2, ReviewWrites, UnapprovedWritten
<1>3. ASSUME NEW d \in Districts, NEW c \in Categories, NEW s \in Sources, NEW p \in Months, NEW date \in Nat,
             NEW n \in Nat, Reports!Register(f, d, c, s, p, date, n)
      PROVE  ReportsInv'
    BY <1>3, RegisterWrites, UnapprovedWritten
<1>4. ASSUME NEW d \in Districts, NEW c \in Categories, NEW s \in Sources, NEW p \in Months, NEW date \in Nat,
             NEW n \in Nat, Reports!Edit(f, d, c, s, p, date, n)
      PROVE  ReportsInv'
    BY <1>4, EditWrites, UnapprovedWritten
<1> QED
    BY <1>1, <1>2, <1>3, <1>4

\* A deletion takes a finding with its ledgers,
LEMMA DeleteInOrder ==
    ASSUME ReportsInv, NEW f \in Findings, Reports!Delete(f)
    PROVE  ReportsInv'
<1>1. ledger' = [ledger EXCEPT ![f] = Reports!NoRecord] /\ today' = today
    BY DEF Reports!Delete
<1> QED
    BY <1>1, OneFindingWritten

\* and the reversal of an import all of its findings.
LEMMA ReversalInOrder ==
    ASSUME ReportsInv, NEW S \in SUBSET Findings, Reports!ReverseImport(S)
    PROVE  ReportsInv'
<1>1. ledger' = [f \in Findings |-> IF f \in S THEN Reports!NoRecord ELSE ledger[f]] /\ today' = today
    BY DEF Reports!ReverseImport
<1>2. /\ ledger \in [Findings -> {Reports!NoRecord} \cup Filed] /\ today \in Nat
      /\ \A f \in Findings : ledger[f] # Reports!NoRecord => InOrder(ledger[f], today)
    BY DEF ReportsInv
<1>3. \A f \in Findings : ledger'[f] \in {Reports!NoRecord, ledger[f]}
    BY <1>1
<1>4. ledger' \in [Findings -> {Reports!NoRecord} \cup Filed]
    BY <1>1, <1>2
<1>5. \A f \in Findings : ledger'[f] # Reports!NoRecord => InOrder(ledger'[f], today')
    <2> SUFFICES ASSUME NEW f \in Findings, ledger'[f] # Reports!NoRecord PROVE InOrder(ledger'[f], today')
        OBVIOUS
    <2>1. ledger'[f] = ledger[f] /\ ledger[f] # Reports!NoRecord
        BY <1>3
    <2> QED
        BY <1>1, <1>2, <2>1
<1> QED
    BY <1>1, <1>2, <1>4, <1>5 DEF ReportsInv

\* A closure of n cases of f, c, has made s of r.
ClosureWritten(f, n, r, s, c) ==
    /\ r = ledger[f] /\ InOrder(r, today) /\ r.stage = "official"
    /\ c.period = r.home /\ c.qty["cases"] = n /\ c.day = today
    /\ n <= r.total["cases"] - ClosedOfAll(r)
    /\ s = [r EXCEPT !.closures = Append(r.closures, c)]
    /\ ledger' = [ledger EXCEPT ![f] = s] /\ today' = today

\* What a closure writes
LEMMA CloseWrites ==
    ASSUME ReportsInv, NEW f \in Findings, NEW n \in Nat, Reports!Close(f, n)
    PROVE  \E r, s \in Filed, c \in Closing : ClosureWritten(f, n, r, s, c)
<1>1. ledger[f] # Reports!NoRecord /\ ledger[f].stage = "official"
    BY DEF Reports!Close, Reports!Official, Reports!Registered
<1>2. PICK r : r = ledger[f] /\ r \in Filed /\ InOrder(r, today) /\ r.stage = "official"
    BY <1>1, FiledThere
<1>3. today \in Nat
    BY DEF ReportsInv
<1>4. /\ r.home \in Months /\ r.closures \in Seq(Closing)
    BY <1>2, LedgersRead
<1>5. PICK c : c = [period |-> r.home, qty |-> Reports!Cases(n), day |-> today]
    OBVIOUS
<1>6. c \in Closing /\ c.period = r.home /\ c.qty["cases"] = n /\ c.day = today
    <2>1. Reports!Cases(n) \in Amounts(Counted) /\ Reports!Cases(n)["cases"] = n
        BY CasesAre
    <2> QED
        BY <1>3, <1>4, <1>5, <2>1 DEF Closing
<1>7. PICK s : s = [r EXCEPT !.closures = Append(r.closures, c)]
    OBVIOUS
<1>8. s \in Filed
    <2>1. Append(r.closures, c) \in Seq(Closing)
        BY <1>4, <1>6
    <2> QED
        BY <1>2, <1>7, <2>1 DEF Filed
<1>9. n <= r.total["cases"] - ClosedOfAll(r)
    BY <1>2, FiguresAre DEF Reports!Close
<1>10. ledger' = [ledger EXCEPT ![f] = s] /\ today' = today
    <2>1. ledger' = [ledger EXCEPT ![f] = [ledger[f] EXCEPT !.closures =
                        Append(ledger[f].closures,
                               [period |-> ledger[f].home, qty |-> Reports!Cases(n), day |-> today])]]
        BY Zenon DEF Reports!Close
    <2>2. today' = today
        BY DEF Reports!Close
    <2> QED
        BY <1>2, <1>5, <1>7, <2>1, <2>2, Zenon
<1> QED
    BY <1>2, <1>6, <1>7, <1>8, <1>9, <1>10 DEF ClosureWritten

\* A closure leaves the ledgers in order.
LEMMA CloseInOrder ==
    ASSUME ReportsInv, NEW f \in Findings, NEW n \in Nat, Reports!Close(f, n)
    PROVE  ReportsInv'
<1>1. today \in Nat
    BY DEF ReportsInv
<1>2. PICK r, s \in Filed, c \in Closing : ClosureWritten(f, n, r, s, c)
    BY CloseWrites
<1>3. /\ InOrder(r, today) /\ r.stage = "official"
      /\ c.period = r.home /\ c.qty["cases"] = n /\ c.day = today
      /\ n <= r.total["cases"] - ClosedOfAll(r)
    BY <1>2 DEF ClosureWritten
<1>4. /\ s.moves = r.moves /\ s.closures = Append(r.closures, c) /\ s.home = r.home
      /\ s.total = r.total /\ s.stage = "official" /\ s.rewound = r.rewound
    BY <1>2 DEF ClosureWritten, Filed
<1>5. InOrder(s, today)
    BY <1>1, <1>3, <1>4, ClosureInOrder
<1>6. ledger' = [ledger EXCEPT ![f] = s] /\ today' = today
    BY <1>2 DEF ClosureWritten
<1> QED
    BY <1>5, <1>6, OneFindingWritten

\* A transfer of f into q, m, has made s of r.
TransferWritten(f, q, r, s, m) ==
    /\ r = ledger[f] /\ InOrder(r, today) /\ r.stage = "official"
    /\ r.home < q /\ ClosedOfAll(r) < r.total["cases"]
    /\ m.from = r.home /\ m.to = q /\ m.qty["cases"] = r.total["cases"] - ClosedOfAll(r)
    /\ s = [r EXCEPT !.home = q, !.moves = Append(r.moves, m)]
    /\ ledger' = [ledger EXCEPT ![f] = s] /\ today' = today

\* What a transfer writes
LEMMA TransferWrites ==
    ASSUME ReportsInv, NEW f \in Findings, NEW q \in Months, Reports!Transfer(f, q)
    PROVE  \E r, s \in Filed, m \in Moving(Months, Counted) : TransferWritten(f, q, r, s, m)
<1>1. ledger[f] # Reports!NoRecord /\ ledger[f].stage = "official"
    BY DEF Reports!Transfer, Reports!Official, Reports!Registered
<1>2. PICK r : r = ledger[f] /\ r \in Filed /\ InOrder(r, today) /\ r.stage = "official"
    BY <1>1, FiledThere
<1>3. today \in Nat
    BY DEF ReportsInv
<1>4. /\ r.home \in Months /\ r.moves \in Seq(Moving(Months, Counted))
      /\ r.total["cases"] \in Nat /\ ClosedOfAll(r) \in Nat
    BY <1>2, LedgersRead
<1>5. r.home < q /\ ClosedOfAll(r) < r.total["cases"]
    <2>1. q > r.home
        BY <1>2 DEF Reports!Transfer
    <2>2. Reports!Closed(f) < Reports!Total(f).cases
        BY DEF Reports!Transfer
    <2>3. Reports!Closed(f) = ClosedOfAll(r) /\ Reports!Total(f).cases = r.total["cases"]
        BY <1>2, FiguresAre
    <2> QED
        BY <1>4, <2>1, <2>2, <2>3, MonthsAre
<1>6. PICK left \in Nat : left = Reports!Total(f).cases - Reports!Closed(f)
    <2>1. Reports!Closed(f) = ClosedOfAll(r) /\ Reports!Total(f).cases = r.total["cases"]
        BY <1>2, FiguresAre
    <2>2. r.total["cases"] - ClosedOfAll(r) \in Nat
        BY <1>4, <1>5
    <2> QED
        BY <2>1, <2>2
<1>7. PICK m : m = [from |-> r.home, to |-> q, qty |-> Reports!Cases(left)]
    OBVIOUS
<1>8. /\ m \in Moving(Months, Counted) /\ m.from = r.home /\ m.to = q
      /\ m.qty["cases"] = r.total["cases"] - ClosedOfAll(r)
    <2>1. Reports!Cases(left) \in Amounts(Counted) /\ Reports!Cases(left)["cases"] = left
        BY CasesAre
    <2>2. left = r.total["cases"] - ClosedOfAll(r)
        BY <1>2, <1>6, FiguresAre
    <2> QED
        BY <1>4, <1>7, <2>1, <2>2 DEF Moving
<1>9. PICK s : s = [r EXCEPT !.home = q, !.moves = Append(r.moves, m)]
    OBVIOUS
<1>10. s \in Filed
    <2>1. Append(r.moves, m) \in Seq(Moving(Months, Counted))
        BY <1>4, <1>8
    <2> QED
        BY <1>2, <1>9, <2>1 DEF Filed
<1>11. ledger' = [ledger EXCEPT ![f] = s] /\ today' = today
    <2>1. ledger' = [ledger EXCEPT ![f] = [ledger[f] EXCEPT !.home = q,
              !.moves = Append(ledger[f].moves,
                               [from |-> ledger[f].home, to |-> q,
                                qty |-> Reports!Cases(Reports!Total(f).cases - Reports!Closed(f))])]]
        BY Zenon DEF Reports!Transfer
    <2>2. today' = today
        BY DEF Reports!Transfer
    <2> QED
        BY <1>2, <1>6, <1>7, <1>9, <2>1, <2>2, Zenon
<1> QED
    BY <1>2, <1>5, <1>8, <1>9, <1>10, <1>11 DEF TransferWritten

\* A transfer leaves the ledgers in order.
LEMMA TransferInOrderHere ==
    ASSUME ReportsInv, NEW f \in Findings, NEW q \in Months, Reports!Transfer(f, q)
    PROVE  ReportsInv'
<1>1. today \in Nat
    BY DEF ReportsInv
<1>2. PICK r, s \in Filed, m \in Moving(Months, Counted) : TransferWritten(f, q, r, s, m)
    BY TransferWrites
<1>3. /\ InOrder(r, today) /\ r.stage = "official"
      /\ r.home < q /\ ClosedOfAll(r) < r.total["cases"]
      /\ m.from = r.home /\ m.to = q /\ m.qty["cases"] = r.total["cases"] - ClosedOfAll(r)
    BY <1>2 DEF TransferWritten
<1>4. /\ s.moves = Append(r.moves, m) /\ s.home = q /\ s.closures = r.closures
      /\ s.total = r.total /\ s.stage = "official" /\ s.rewound = r.rewound
    BY <1>2 DEF TransferWritten, Filed
<1>5. InOrder(s, today)
    BY <1>1, <1>3, <1>4, TransferInOrder
<1>6. ledger' = [ledger EXCEPT ![f] = s] /\ today' = today
    BY <1>2 DEF TransferWritten
<1> QED
    BY <1>5, <1>6, OneFindingWritten

\* What a reopening writes
LEMMA ReopenWrites ==
    ASSUME ReportsInv, NEW f \in Findings, Reports!Reopen(f)
    PROVE  \E r, s \in Filed :
              /\ r = ledger[f] /\ InOrder(r, today) /\ r.stage = "official" /\ r.closures # <<>>
              /\ s = [r EXCEPT !.closures = <<>>, !.rewound = r.rewound \/ r.moves # <<>>]
              /\ ledger' = [ledger EXCEPT ![f] = s] /\ today' = today
<1>1. ledger[f] # Reports!NoRecord /\ ledger[f].stage = "official"
    BY DEF Reports!Reopen, Reports!Official, Reports!Registered
<1>2. PICK r : r = ledger[f] /\ r \in Filed /\ InOrder(r, today) /\ r.stage = "official"
    BY <1>1, FiledThere
<1>3. r.closures # <<>>
    <2>1. ClosedOfAll(r) > 0
        BY <1>2, FiguresAre DEF Reports!Reopen
    <2>2. r.closures = <<>> => ClosedOfAll(r) = 0
        BY SumOfEmpty DEF ClosedOfAll, SumOfRows
    <2> QED
        BY <2>1, <2>2
<1>4. PICK again \in BOOLEAN : again = (r.rewound \/ r.moves # <<>>)
    OBVIOUS
<1>5. PICK s : s = [r EXCEPT !.closures = <<>>, !.rewound = again]
    OBVIOUS
<1>6. s \in Filed
    <2>1. <<>> \in Seq(Closing)
        OBVIOUS
    <2> QED
        BY <1>2, <1>4, <1>5, <2>1 DEF Filed
<1>7. ledger' = [ledger EXCEPT ![f] = s] /\ today' = today
    BY <1>2, <1>4, <1>5, Zenon DEF Reports!Reopen
<1>8. s = [r EXCEPT !.closures = <<>>, !.rewound = r.rewound \/ r.moves # <<>>]
    BY <1>4, <1>5
<1> QED
    BY <1>2, <1>3, <1>6, <1>7, <1>8

\* A reopening leaves the ledgers in order.
LEMMA ReopenInOrder ==
    ASSUME ReportsInv, NEW f \in Findings, Reports!Reopen(f)
    PROVE  ReportsInv'
<1>1. PICK r \in Filed, s \in Filed :
        /\ r = ledger[f] /\ InOrder(r, today) /\ r.stage = "official" /\ r.closures # <<>>
        /\ s = [r EXCEPT !.closures = <<>>, !.rewound = r.rewound \/ r.moves # <<>>]
        /\ ledger' = [ledger EXCEPT ![f] = s] /\ today' = today
    BY ReopenWrites
<1>2. /\ s.moves = r.moves /\ s.home = r.home /\ s.total = r.total /\ s.closures = <<>> /\ s.stage = "official"
      /\ s.rewound = (r.rewound \/ r.moves # <<>>)
    BY <1>1 DEF Filed
<1>3. s.rewound \/ s.moves = <<>>
    BY <1>2
<1>4. InOrder(s, today)
    BY <1>1, <1>2, <1>3, ReopenedInOrder
<1> QED
    BY <1>1, <1>4, OneFindingWritten

\* A row of an import is a finding closed and transferred at once.
LEMMA ImportWrites ==
    ASSUME ReportsInv, NEW f \in Findings, NEW d \in Districts, NEW c \in Categories, NEW s \in Sources,
           NEW p \in Months, NEW date \in Nat, NEW n \in Nat, NEW done \in Nat, done <= n, NEW q \in Months,
           Reports!Import(f, d, c, s, p, date, n, done, q)
    PROVE  \E r \in Filed : /\ InOrder(r, today) /\ ledger[f] = Reports!NoRecord
                            /\ ledger' = [ledger EXCEPT ![f] = r] /\ today' = today
<1>1. today \in Nat /\ p \in Nat /\ q \in Nat
    BY MonthsAre DEF ReportsInv
<1>2. ledger[f] = Reports!NoRecord /\ today' = today
    BY DEF Reports!Import, Reports!Registered
<1>3. PICK total \in Amounts(Counted) : total = Reports!Cases(n) /\ total["cases"] = n
    BY CasesAre
<1>4. PICK none : none = <<>>
    OBVIOUS
<1>5. none \in Seq(Moving(Months, Counted)) /\ none \in Seq(Closing)
    BY <1>4
<1>6. "official" \in Reports!Stages
    BY DEF Reports!Stages
<1>7. PICK r : r = [district |-> d, category |-> c, source |-> s, date |-> date, home |-> p, total |-> total,
                    moves |-> none, closures |-> none, stage |-> "official", bankScope |-> FALSE,
                    imported |-> TRUE, rewound |-> FALSE]
    OBVIOUS
<1>8. r \in Filed
    BY <1>3, <1>5, <1>6, <1>7 DEF Filed
<1>9. /\ r.moves = <<>> /\ r.closures = <<>> /\ r.home = p /\ r.total = total
      /\ r.stage = "official" /\ r.rewound = FALSE
    BY <1>4, <1>7
<1>10. InOrder(r, today) /\ ClosedOfAll(r) = 0
    BY <1>8, <1>9, NewInOrder, NothingClosedYet
<1>11. PICK row : row = [period |-> p, qty |-> Reports!Cases(done), day |-> today]
    OBVIOUS
<1>12. row \in Closing /\ row.period = p /\ row.qty["cases"] = done /\ row.day = today
    <2>1. Reports!Cases(done) \in Amounts(Counted) /\ Reports!Cases(done)["cases"] = done
        BY CasesAre
    <2> QED
        BY <1>1, <1>11, <2>1 DEF Closing
<1>13. PICK rows : rows = IF done = 0 THEN none ELSE <<row>>
    OBVIOUS
<1>14. rows \in Seq(Closing) /\ <<row>> = Append(none, row)
    BY <1>4, <1>5, <1>12, <1>13
<1>15. PICK closed : closed = [r EXCEPT !.closures = rows]
    OBVIOUS
<1>16. closed \in Filed
    BY <1>8, <1>14, <1>15 DEF Filed
<1>17. /\ closed.moves = r.moves /\ closed.home = r.home /\ closed.total = r.total
       /\ closed.stage = "official" /\ closed.rewound = r.rewound /\ closed.closures = rows
    BY <1>7, <1>15
<1>18. InOrder(closed, today) /\ ClosedOfAll(closed) = done
    <2>1. CASE done = 0
        <3>1. rows = none
            BY <1>13, <2>1
        <3>2. closed = [r EXCEPT !.closures = none]
            BY <1>15, <3>1
        <3>3. closed = r
            BY <1>4, <1>8, <1>9, <3>2 DEF Filed
        <3> QED
            BY <1>10, <2>1, <3>3
    <2>2. CASE done # 0
        <3>1. closed.closures = Append(r.closures, row)
            BY <1>4, <1>9, <1>13, <1>14, <1>17, <2>2
        <3>2. done <= r.total["cases"] - ClosedOfAll(r)
            BY <1>3, <1>9, <1>10
        <3>3. row.period = r.home
            BY <1>9, <1>12
        <3>4. InOrder(closed, today)
            BY <1>1, <1>8, <1>9, <1>10, <1>12, <1>16, <1>17, <3>1, <3>2, <3>3, ClosureInOrder
        <3>5. ClosedOfAll(closed) = ClosedOfAll(r) + done
            BY <1>8, <1>12, <1>16, <3>1, <3>3, ClosureAdds
        <3> QED
            BY <1>10, <3>4, <3>5
    <2> QED
        BY <2>1, <2>2
<1>19. PICK moves : moves = IF q = p THEN <<>> ELSE <<[from |-> p, to |-> q, qty |-> Reports!Cases(n - done)]>>
    OBVIOUS
<1>20. PICK imported :
         imported = [district |-> d, category |-> c, source |-> s, date |-> date, home |-> q, total |-> total,
                     moves |-> moves, closures |-> rows, stage |-> "official", bankScope |-> FALSE,
                     imported |-> TRUE, rewound |-> FALSE]
    OBVIOUS
<1>21. ledger' = [ledger EXCEPT ![f] = imported]
    <2>1. rows = IF done = 0 THEN <<>> ELSE <<[period |-> p, qty |-> Reports!Cases(done), day |-> today]>>
        BY <1>4, <1>11, <1>13
    <2> QED
        BY <1>3, <1>19, <1>20, <2>1, Zenon DEF Reports!Import
<1>22. imported \in Filed /\ InOrder(imported, today)
    <2>1. CASE q = p
        <3>1. moves = none
            BY <1>4, <1>19, <2>1
        <3>2. imported = closed
            BY <1>7, <1>15, <1>20, <2>1, <3>1
        <3> QED
            BY <1>16, <1>18, <3>2
    <2>2. CASE q # p
        <3>1. q > p /\ done < n
            BY <2>2 DEF Reports!Import
        <3>2. PICK left \in Nat : left = n - done
            BY <3>1
        <3>3. PICK m : m = [from |-> p, to |-> q, qty |-> Reports!Cases(left)]
            OBVIOUS
        <3>4. m \in Moving(Months, Counted) /\ m.from = p /\ m.to = q /\ m.qty["cases"] = left
            <4>1. Reports!Cases(left) \in Amounts(Counted) /\ Reports!Cases(left)["cases"] = left
                BY CasesAre
            <4> QED
                BY <3>3, <4>1 DEF Moving
        <3>5. moves = Append(none, m) /\ moves \in Seq(Moving(Months, Counted))
            BY <1>4, <1>5, <1>19, <2>2, <3>2, <3>3, <3>4
        <3>6. imported \in Filed
            BY <1>3, <1>6, <1>14, <1>20, <3>5 DEF Filed
        <3>7. /\ imported.moves = Append(closed.moves, m) /\ imported.home = q
              /\ imported.closures = closed.closures /\ imported.total = closed.total
              /\ imported.stage = "official" /\ imported.rewound = closed.rewound
            BY <1>4, <1>9, <1>17, <1>20, <3>5
        <3>8. closed.home < q /\ ClosedOfAll(closed) < closed.total["cases"]
            BY <1>1, <1>3, <1>9, <1>17, <1>18, <3>1
        <3>9. m.from = closed.home /\ m.qty["cases"] = closed.total["cases"] - ClosedOfAll(closed)
            BY <1>3, <1>9, <1>17, <1>18, <3>2, <3>4
        <3>10. InOrder(imported, today)
            BY <1>1, <1>16, <1>17, <1>18, <3>4, <3>6, <3>7, <3>8, <3>9, TransferInOrder
        <3> QED
            BY <3>6, <3>10
    <2> QED
        BY <2>1, <2>2
<1> QED
    BY <1>2, <1>21, <1>22

\* The invariant behind the reports holds of the empty ledger.
LEMMA ReportsStart == Init => ReportsInv
<1> SUFFICES ASSUME Init PROVE ReportsInv
    OBVIOUS
<1>1. ledger = [f \in Findings |-> Reports!NoRecord] /\ today = 1
    BY DEF Init, Reports!Init
<1> QED
    BY <1>1 DEF ReportsInv

\* A finding is filed or filed anew,
Filings ==
    \E f \in Findings, d \in Districts, c \in Categories, s \in Sources, p \in Reports!Periods,
       date \in Reports!Days, n \in 1..MaxCases :
       Reports!Register(f, d, c, s, p, date, n) \/ Reports!Edit(f, d, c, s, p, date, n)

\* or imported.
Importings ==
    \E f \in Findings, d \in Districts, c \in Categories, s \in Sources, p \in Reports!Periods,
       date \in Reports!Days, n \in 1..MaxCases : \E done \in 0..n, q \in Reports!Periods :
       Reports!Import(f, d, c, s, p, date, n, done, q)

\* The steps of the reports by what they do to the findings
LEMMA ReportsSteps ==
    ASSUME Reports!Next
    PROVE  \/ Filings \/ Importings
           \/ \E f \in Findings : Reports!Submit(f) \/ Reports!Delete(f) \/ Reports!Reopen(f)
           \/ \E f \in Findings, to \in {"official", "returned", "rejected"} : Reports!Review(f, to)
           \/ \E S \in SUBSET Findings : Reports!ReverseImport(S)
           \/ \E f \in Findings, n \in 1..MaxCases : Reports!Close(f, n)
           \/ \E f \in Findings, q \in Reports!Periods : Reports!Transfer(f, q)
           \/ ledger' = ledger /\ today' \in {today, today + 1} /\ filter' = filter
<1>1. ASSUME NEW f \in Findings, NEW d \in Districts, NEW c \in Categories, NEW s \in Sources,
             NEW p \in Reports!Periods, NEW date \in Reports!Days, NEW n \in 1..MaxCases,
             \/ Reports!Register(f, d, c, s, p, date, n)
             \/ Reports!Edit(f, d, c, s, p, date, n)
             \/ \E done \in 0..n, q \in Reports!Periods : Reports!Import(f, d, c, s, p, date, n, done, q)
      PROVE  Filings \/ Importings
    BY <1>1, Zenon DEF Filings, Importings
<1>2. ASSUME \/ \E d \in Districts : Reports!ToggleDistrict(d)
             \/ \E c \in Categories : Reports!ToggleCategory(c)
             \/ \E to \in {Reports!NoRule} \cup Reports!Rule : Reports!SetRule(to)
             \/ Reports!NextDay
      PROVE  ledger' = ledger /\ today' \in {today, today + 1} /\ filter' = filter
    BY <1>2 DEF Reports!ToggleDistrict, Reports!ToggleCategory, Reports!SetRule, Reports!NextDay
<1>3. CASE \E f \in Findings, d \in Districts, c \in Categories, s \in Sources, p \in Reports!Periods,
              date \in Reports!Days, n \in 1..MaxCases :
              \/ Reports!Register(f, d, c, s, p, date, n)
              \/ Reports!Edit(f, d, c, s, p, date, n)
              \/ \E done \in 0..n, q \in Reports!Periods : Reports!Import(f, d, c, s, p, date, n, done, q)
    <2>1. PICK f \in Findings, d \in Districts, c \in Categories, s \in Sources, p \in Reports!Periods,
               date \in Reports!Days, n \in 1..MaxCases :
               \/ Reports!Register(f, d, c, s, p, date, n)
               \/ Reports!Edit(f, d, c, s, p, date, n)
               \/ \E done \in 0..n, q \in Reports!Periods : Reports!Import(f, d, c, s, p, date, n, done, q)
        BY <1>3
    <2>2. Filings \/ Importings
        BY <1>1, <2>1
    <2> QED
        BY <2>2
<1> QED
    BY <1>2, <1>3, Zenon DEF Reports!Next

\* Every change of the reports' tables keeps the invariant,
LEMMA ReportsStepInOrder ==
    ASSUME ReportsInv, Reports!Next
    PROVE  ReportsInv'
<1>1. /\ \A date \in Reports!Days : date \in Nat
      /\ \A n \in 1..MaxCases : n \in Nat /\ \A done \in 0..n : done \in Nat /\ done <= n
    BY ReportsAssumption DEF Reports!Days
<1>2. CASE Filings
    BY <1>1, <1>2, FilingInOrder DEF Filings, Months
<1>3. CASE Importings
    <2>1. PICK f \in Findings, d \in Districts, c \in Categories, s \in Sources, p \in Months,
               date \in Reports!Days, n \in 1..MaxCases : \E done \in 0..n, q \in Months :
               Reports!Import(f, d, c, s, p, date, n, done, q)
        BY <1>3, Zenon DEF Importings, Months
    <2>2. PICK done \in 0..n, q \in Months : Reports!Import(f, d, c, s, p, date, n, done, q)
        BY <2>1
    <2>3. n \in Nat /\ date \in Nat /\ done \in Nat /\ done <= n
        BY <1>1
    <2>4. \E r \in Filed : InOrder(r, today) /\ ledger' = [ledger EXCEPT ![f] = r] /\ today' = today
        BY <2>2, <2>3, ImportWrites
    <2> QED
        BY <2>4, OneFindingWritten
<1>4. CASE \E f \in Findings : Reports!Submit(f) \/ Reports!Delete(f) \/ Reports!Reopen(f)
    BY <1>4, FilingInOrder, DeleteInOrder, ReopenInOrder
<1>5. CASE \E f \in Findings, to \in {"official", "returned", "rejected"} : Reports!Review(f, to)
    BY <1>5, FilingInOrder
<1>6. CASE \E S \in SUBSET Findings : Reports!ReverseImport(S)
    BY <1>6, ReversalInOrder
<1>7. CASE \E f \in Findings, n \in 1..MaxCases : Reports!Close(f, n)
    BY <1>1, <1>7, CloseInOrder
<1>8. CASE \E f \in Findings, q \in Reports!Periods : Reports!Transfer(f, q)
    BY <1>8, TransferInOrderHere DEF Months
<1>9. CASE ledger' = ledger /\ today' \in {today, today + 1} /\ filter' = filter
    <2>1. today \in Nat /\ today' \in Nat /\ today <= today'
        BY <1>9 DEF ReportsInv
    <2>2. ASSUME NEW f \in Findings, ledger[f] # Reports!NoRecord PROVE InOrder(ledger[f], today')
        <3>1. PICK r : r = ledger[f] /\ r \in Filed /\ InOrder(r, today)
            BY <2>2, FiledThere
        <3>2. InOrder(r, today')
            BY <2>1, <3>1, StillInOrder
        <3> QED
            BY <3>1, <3>2
    <2> QED
        BY <1>9, <2>1, <2>2 DEF ReportsInv
<1> QED
    BY <1>2, <1>3, <1>4, <1>5, <1>6, <1>7, <1>8, <1>9, ReportsSteps

\* and the other parts do not touch them.
LEMMA ReportsStayInOrder == ReportsInv /\ [Next]_vars => ReportsInv'
<1> SUFFICES ASSUME ReportsInv, [Next]_vars PROVE ReportsInv'
    OBVIOUS
<1>1. CASE Reports!Next
    BY <1>1, ReportsStepInOrder
<1>2. CASE UNCHANGED reportVars
    BY <1>2 DEF reportVars, ReportsInv
<1> QED
    BY <1>1, <1>2 DEF Next, vars

-----------------------------------------------------------------------------
(* A period's figures, and the lifetime's, as sums over findings. *)

\* What a finding has in a period or, for AllPeriods, in its lifetime
CasesOf(p) ==
    [f \in Findings |-> IF ledger[f] = Reports!NoRecord THEN 0
                        ELSE IF p = Reports!AllPeriods THEN Reports!Total(f).cases ELSE Reports!Eligible(f, p)]

ClosedOf(p) ==
    [f \in Findings |-> IF ledger[f] = Reports!NoRecord THEN 0
                        ELSE IF p = Reports!AllPeriods THEN Reports!Closed(f) ELSE Reports!ClosedHere(f, p)]

FigureOf(p, S) == [cases |-> SumFunctionOnSet(CasesOf(p), S), closed |-> SumFunctionOnSet(ClosedOf(p), S)]

\* Nothing is where a finding never was; and unless it was rewound, of no finding more is
\* closed than there is.
LEMMA FiguresFit ==
    ASSUME ReportsInv, NEW p \in Reports!Pickable, NEW f \in Findings
    PROVE  /\ CasesOf(p)[f] \in Int /\ ClosedOf(p)[f] \in Nat
           /\ f \in Reports!Registered /\ p # Reports!AllPeriods /\ ~Reports!ResidentIn(f, p)
                => CasesOf(p)[f] = 0 /\ ClosedOf(p)[f] = 0
           /\ p = Reports!AllPeriods \/ ~ledger[f].rewound
                => CasesOf(p)[f] \in Nat /\ ClosedOf(p)[f] <= CasesOf(p)[f]
<1>1. CASE ledger[f] = Reports!NoRecord
    BY <1>1 DEF CasesOf, ClosedOf, Reports!Registered
<1>2. CASE ledger[f] # Reports!NoRecord
    <2>1. PICK r : r = ledger[f] /\ r \in Filed /\ InOrder(r, today)
        BY <1>2, FiledThere
    <2>2. CASE p = Reports!AllPeriods
        <3>1. CasesOf(p)[f] = r.total["cases"] /\ ClosedOf(p)[f] = ClosedOfAll(r)
            BY <1>2, <2>1, <2>2, FiguresAre DEF CasesOf, ClosedOf
        <3>2. r.total["cases"] \in Nat /\ ClosedOfAll(r) \in Nat /\ ClosedOfAll(r) <= r.total["cases"]
            BY <2>1, LedgersRead DEF InOrder
        <3> QED
            BY <2>2, <3>1, <3>2
    <2>3. CASE p # Reports!AllPeriods
        <3>1. p \in Months
            BY <2>3 DEF Reports!Pickable, Months
        <3>2. PICK has : has = EligibleIn(r.moves, r.home, r.total, p, "cases")
            OBVIOUS
        <3>3. PICK did : did = ClosedIn(r.closures, p, "cases")
            OBVIOUS
        <3>4. CasesOf(p)[f] = has /\ ClosedOf(p)[f] = did
            BY <1>2, <2>1, <2>3, <3>2, <3>3, FiguresAre DEF CasesOf, ClosedOf
        <3>5. Reports!ResidentIn(f, p) <=> StaysIn(r.moves, r.home, r.total, p) # {}
            BY <2>1, FiguresAre
        <3>6. /\ has \in Int /\ did \in Nat
              /\ StaysIn(r.moves, r.home, r.total, p) = {} => has = 0 /\ did = 0
            BY <2>1, <3>1, <3>2, <3>3, SliceOfMonth
        <3>7. ~r.rewound => has \in Nat /\ did <= has
            BY <2>1, <3>1, <3>2, <3>3, ShareOfMonth
        <3> QED
            BY <2>1, <2>3, <3>4, <3>5, <3>6, <3>7
    <2> QED
        BY <2>2, <2>3
<1> QED
    BY <1>1, <1>2

\* Finitely many findings have a sum of cases and of closed cases,
LEMMA FigureIs ==
    ASSUME ReportsInv, NEW p \in Reports!Pickable, NEW S \in SUBSET Findings
    PROVE  /\ IsFiniteSet(S)
           /\ FigureOf(p, S).cases = SumFunctionOnSet(CasesOf(p), S) /\ FigureOf(p, S).cases \in Int
           /\ FigureOf(p, S).closed = SumFunctionOnSet(ClosedOf(p), S) /\ FigureOf(p, S).closed \in Nat
<1>1. IsFiniteSet(S)
    BY ReportsAssumption, FS_Subset
<1>2. \A f \in S : CasesOf(p)[f] \in Int /\ ClosedOf(p)[f] \in Nat
    BY FiguresFit
<1>3. SumFunctionOnSet(CasesOf(p), S) \in Int
    <2>1. \A f \in S : CasesOf(p)[f] \in Int
        BY <1>2
    <2> QED
        BY <1>1, <2>1, SumOnInt
<1>4. SumFunctionOnSet(ClosedOf(p), S) \in Nat
    <2>1. \A f \in S : ClosedOf(p)[f] \in Nat
        BY <1>2
    <2> QED
        BY <1>1, <2>1, SumOnNat
<1>5. /\ FigureOf(p, S).cases = SumFunctionOnSet(CasesOf(p), S)
      /\ FigureOf(p, S).closed = SumFunctionOnSet(ClosedOf(p), S)
    BY DEF FigureOf
<1> QED
    BY <1>1, <1>3, <1>4, <1>5

\* No finding of S was reopened after a transfer, or that does not matter: over the
\* lifetime, transfers do not count.
Unrewound(p, S) == p = Reports!AllPeriods \/ Reports!NeverRewound(S)

\* A figure of findings that were not rewound closes no more than there is.
LEMMA FigureFits ==
    ASSUME ReportsInv, NEW p \in Reports!Pickable, NEW S \in SUBSET Findings, Unrewound(p, S)
    PROVE  FigureOf(p, S).cases \in Nat /\ FigureOf(p, S).closed <= FigureOf(p, S).cases
<1>1. IsFiniteSet(S)
    BY FigureIs
<1>2. \A f \in S : CasesOf(p)[f] \in Nat /\ ClosedOf(p)[f] \in Nat /\ ClosedOf(p)[f] <= CasesOf(p)[f]
    <2>1. \A f \in S : p = Reports!AllPeriods \/ ~ledger[f].rewound
        BY DEF Unrewound, Reports!NeverRewound
    <2> QED
        BY <2>1, FiguresFit
<1>3. SumFunctionOnSet(CasesOf(p), S) \in Nat
    <2>1. \A f \in S : CasesOf(p)[f] \in Nat
        BY <1>2
    <2> QED
        BY <1>1, <2>1, SumOnNat
<1>4. SumFunctionOnSet(ClosedOf(p), S) <= SumFunctionOnSet(CasesOf(p), S)
    <2>1. \A f \in S : CasesOf(p)[f] \in Int
        BY <1>2
    <2>2. \A f \in S : ClosedOf(p)[f] \in Int
        BY <1>2
    <2>3. \A f \in S : ClosedOf(p)[f] <= CasesOf(p)[f]
        BY <1>2
    <2> QED
        BY <1>1, <2>1, <2>2, <2>3, SumOnMonotone
<1> QED
    BY <1>3, <1>4, FigureIs

\* Numbers summed over a part are no more than over the whole.
LEMMA SumOfPart ==
    ASSUME NEW S, IsFiniteSet(S), NEW g, \A x \in S : g[x] \in Nat, NEW T \in SUBSET S
    PROVE  SumFunctionOnSet(g, T) <= SumFunctionOnSet(g, S)
<1>1. \A x \in S : g[x] \in Int
    OBVIOUS
<1>2. /\ S \ T \in SUBSET S /\ T \cap (S \ T) = {} /\ S = T \cup (S \ T)
      /\ IsFiniteSet(T) /\ IsFiniteSet(S \ T)
    BY FS_Subset
<1>3. SumFunctionOnSet(g, S) = SumFunctionOnSet(g, T) + SumFunctionOnSet(g, S \ T)
    BY <1>1, <1>2, SumOnParts
<1>4. SumFunctionOnSet(g, T) \in Nat
    BY <1>2, SumOnNat
<1>5. SumFunctionOnSet(g, S \ T) \in Nat
    <2>1. \A x \in S \ T : g[x] \in Nat
        OBVIOUS
    <2> QED
        BY <1>2, <2>1, SumOnNat
<1> QED
    BY <1>3, <1>4, <1>5

\* Fewer findings have no more cases.
LEMMA FewerFindings ==
    ASSUME ReportsInv, NEW p \in Reports!Pickable, NEW S \in SUBSET Findings, NEW T \in SUBSET S,
           Unrewound(p, S)
    PROVE  FigureOf(p, T).cases <= FigureOf(p, S).cases
<1>1. IsFiniteSet(S) /\ T \in SUBSET Findings
    BY FigureIs
<1>2. \A f \in S : CasesOf(p)[f] \in Nat
    <2>1. \A f \in S : p = Reports!AllPeriods \/ ~ledger[f].rewound
        BY DEF Unrewound, Reports!NeverRewound
    <2> QED
        BY <2>1, FiguresFit
<1>3. SumFunctionOnSet(CasesOf(p), T) <= SumFunctionOnSet(CasesOf(p), S)
    BY <1>1, <1>2, SumOfPart
<1> QED
    BY <1>1, <1>3, FigureIs

\* A report's figure over the findings of S in its scope is the sum over S:
\* the others have nothing there.
LEMMA ScopedAre ==
    ASSUME ReportsInv, NEW p \in Reports!Pickable, NEW S \in SUBSET Reports!Registered
    PROVE  /\ Reports!ScopedCases(p, S) = FigureOf(p, S).cases
           /\ Reports!ScopedClosed(p, S) = FigureOf(p, S).closed
<1>1. PICK T : T = Reports!ScopedTo(p, S)
    OBVIOUS
<1>2. S \in SUBSET Findings /\ IsFiniteSet(S)
    BY FigureIs DEF Reports!Registered
<1>3. T \in SUBSET S /\ IsFiniteSet(T)
    <2>1. T \in SUBSET S
        BY <1>1 DEF Reports!ScopedTo
    <2> QED
        BY <1>2, <2>1, FS_Subset
<1>4. \A f \in S : CasesOf(p)[f] \in Int /\ ClosedOf(p)[f] \in Int
    BY <1>2, FiguresFit
<1>5. \A f \in S : f \notin T => CasesOf(p)[f] = 0 /\ ClosedOf(p)[f] = 0
    BY <1>1, <1>2, FiguresFit DEF Reports!ScopedTo
<1>6. \A f \in S : f \in Findings /\ ledger[f] # Reports!NoRecord
    BY DEF Reports!Registered
<1>7. Reports!ScopedCases(p, S) = SumFunctionOnSet(CasesOf(p), S)
    <2>1. PICK g : g = [f \in T |-> IF p = Reports!AllPeriods THEN Reports!Total(f).cases ELSE Reports!Eligible(f, p)]
        OBVIOUS
    <2>2. Reports!ScopedCases(p, S) = SumFunctionOnSet(g, T)
        <3>1. DOMAIN g = T
            BY <2>1
        <3>2. Reports!ScopedCases(p, S) = Reports!SumFunction(g)
            BY <1>1, <2>1 DEF Reports!ScopedCases
        <3> QED
            BY <3>1, <3>2, SameSums
    <2>3. \A f \in T : g[f] = CasesOf(p)[f]
        BY <1>3, <1>6, <2>1 DEF CasesOf
    <2>4. \A f \in T : CasesOf(p)[f] \in Int
        BY <1>3, <1>4
    <2>5. SumFunctionOnSet(g, T) = SumFunctionOnSet(CasesOf(p), T)
        BY <1>3, <2>3, <2>4, SumOnSame
    <2>6. \A f \in S : CasesOf(p)[f] = IF f \in T THEN CasesOf(p)[f] ELSE 0
        BY <1>5
    <2>7. \A f \in S : CasesOf(p)[f] \in Int
        BY <1>4
    <2>8. SumFunctionOnSet(CasesOf(p), T) = SumFunctionOnSet(CasesOf(p), S)
        BY <1>2, <1>3, <2>6, <2>7, SumOnPart
    <2> QED
        BY <2>2, <2>5, <2>8
<1>8. Reports!ScopedClosed(p, S) = SumFunctionOnSet(ClosedOf(p), S)
    <2>1. PICK g : g = [f \in T |-> IF p = Reports!AllPeriods THEN Reports!Closed(f) ELSE Reports!ClosedHere(f, p)]
        OBVIOUS
    <2>2. Reports!ScopedClosed(p, S) = SumFunctionOnSet(g, T)
        <3>1. DOMAIN g = T
            BY <2>1
        <3>2. Reports!ScopedClosed(p, S) = Reports!SumFunction(g)
            BY <1>1, <2>1 DEF Reports!ScopedClosed
        <3> QED
            BY <3>1, <3>2, SameSums
    <2>3. \A f \in T : g[f] = ClosedOf(p)[f]
        BY <1>3, <1>6, <2>1 DEF ClosedOf
    <2>4. \A f \in T : ClosedOf(p)[f] \in Int
        BY <1>3, <1>4
    <2>5. SumFunctionOnSet(g, T) = SumFunctionOnSet(ClosedOf(p), T)
        BY <1>3, <2>3, <2>4, SumOnSame
    <2>6. \A f \in S : ClosedOf(p)[f] = IF f \in T THEN ClosedOf(p)[f] ELSE 0
        BY <1>5
    <2>7. \A f \in S : ClosedOf(p)[f] \in Int
        BY <1>4
    <2>8. SumFunctionOnSet(ClosedOf(p), T) = SumFunctionOnSet(ClosedOf(p), S)
        BY <1>2, <1>3, <2>6, <2>7, SumOnPart
    <2> QED
        BY <2>2, <2>5, <2>8
<1> QED
    BY <1>2, <1>7, <1>8, FigureIs

\* A figure's two numbers are sums over its findings.
LEMMA FigureSums ==
    ASSUME NEW p, NEW S
    PROVE  /\ FigureOf(p, S).cases = SumFunctionOnSet(CasesOf(p), S)
           /\ FigureOf(p, S).closed = SumFunctionOnSet(ClosedOf(p), S)
BY DEF FigureOf

\* The total under rows of cases and closed cases
TotalOf(row, K) ==
    [cases  |-> SumFunctionOnSet([y \in K |-> row[y].cases], K),
     closed |-> SumFunctionOnSet([y \in K |-> row[y].closed], K)]

\* Rows that split the findings among units add up to all of them.
LEMMA UnitsCover ==
    ASSUME ReportsInv, NEW p \in Reports!Pickable, NEW S \in SUBSET Findings,
           NEW K, IsFiniteSet(K), NEW key, \A f \in S : key[f] \in K,
           NEW row, \A y \in K : row[y] = FigureOf(p, Keyed(S, key, y))
    PROVE  TotalOf(row, K) = FigureOf(p, S)
<1>1. IsFiniteSet(S)
    BY FigureIs
<1>2. SumFunctionOnSet([y \in K |-> row[y].cases], K) = SumFunctionOnSet(CasesOf(p), S)
    <2>1. PICK a : a = [y \in K |-> row[y].cases]
        OBVIOUS
    <2>2. \A y \in K : a[y] = SumFunctionOnSet(CasesOf(p), Keyed(S, key, y))
        <3> SUFFICES ASSUME NEW y \in K PROVE a[y] = SumFunctionOnSet(CasesOf(p), Keyed(S, key, y))
            OBVIOUS
        <3>1. row[y].cases = FigureOf(p, Keyed(S, key, y)).cases
            OBVIOUS
        <3>2. a[y] = row[y].cases
            BY <2>1
        <3> QED
            BY <3>1, <3>2, FigureSums
    <2>3. \A f \in S : CasesOf(p)[f] \in Int
        BY FiguresFit
    <2>4. SumFunctionOnSet(CasesOf(p), S) = SumFunctionOnSet(a, K)
        BY <1>1, <2>2, <2>3, SumOnByKey
    <2> QED
        BY <2>1, <2>4
<1>3. SumFunctionOnSet([y \in K |-> row[y].closed], K) = SumFunctionOnSet(ClosedOf(p), S)
    <2>1. PICK a : a = [y \in K |-> row[y].closed]
        OBVIOUS
    <2>2. \A y \in K : a[y] = SumFunctionOnSet(ClosedOf(p), Keyed(S, key, y))
        <3> SUFFICES ASSUME NEW y \in K PROVE a[y] = SumFunctionOnSet(ClosedOf(p), Keyed(S, key, y))
            OBVIOUS
        <3>1. row[y].closed = FigureOf(p, Keyed(S, key, y)).closed
            OBVIOUS
        <3>2. a[y] = row[y].closed
            BY <2>1
        <3> QED
            BY <3>1, <3>2, FigureSums
    <2>3. \A f \in S : ClosedOf(p)[f] \in Int
        BY FiguresFit
    <2>4. SumFunctionOnSet(ClosedOf(p), S) = SumFunctionOnSet(a, K)
        BY <1>1, <2>2, <2>3, SumOnByKey
    <2> QED
        BY <2>1, <2>4
<1> QED
    BY <1>2, <1>3 DEF TotalOf, FigureOf

\* Rows by month add up to the lifetime.
LEMMA MonthsOfOne ==
    ASSUME ReportsInv, NEW f \in Findings,
           NEW a, \A p \in Months : a[p] = CasesOf(p)[f],
           NEW b, \A p \in Months : b[p] = ClosedOf(p)[f]
    PROVE  /\ SumFunctionOnSet(a, Months) = CasesOf(Reports!AllPeriods)[f]
           /\ SumFunctionOnSet(b, Months) = ClosedOf(Reports!AllPeriods)[f]
<1>1. \A p \in Months : p # Reports!AllPeriods
    BY MonthsAre DEF Reports!AllPeriods
<1>2. CASE ledger[f] = Reports!NoRecord
    <2>1. \A p \in Months : a[p] = 0
        BY <1>2 DEF CasesOf
    <2>2. \A p \in Months : b[p] = 0
        BY <1>2 DEF ClosedOf
    <2>3. SumFunctionOnSet(a, Months) = 0
        BY <2>1, MonthsAre, SumOnZeros
    <2>4. SumFunctionOnSet(b, Months) = 0
        BY <2>2, MonthsAre, SumOnZeros
    <2> QED
        BY <1>2, <2>3, <2>4 DEF CasesOf, ClosedOf
<1>3. CASE ledger[f] # Reports!NoRecord
    <2>1. PICK r : r = ledger[f] /\ r \in Filed
        BY <1>3, FiledThere
    <2>2. \A p \in Months : a[p] = EligibleIn(r.moves, r.home, r.total, p, "cases")
        BY <1>1, <1>3, <2>1, FiguresAre DEF CasesOf
    <2>3. \A p \in Months : b[p] = ClosedIn(r.closures, p, "cases")
        BY <1>1, <1>3, <2>1, FiguresAre DEF ClosedOf
    <2>4. /\ SumFunctionOnSet(a, Months) = r.total["cases"]
          /\ SumFunctionOnSet(b, Months) = ClosedOfAll(r)
        BY <2>1, <2>2, <2>3, MonthsAre, SharesOfMonths
    <2> QED
        BY <1>3, <2>1, <2>4, FiguresAre DEF CasesOf, ClosedOf
<1> QED
    BY <1>2, <1>3

\* The rows of the months add up to the lifetime, for any findings.
LEMMA MonthsCover ==
    ASSUME ReportsInv, NEW S \in SUBSET Findings,
           NEW row, \A p \in Months : row[p] = FigureOf(p, S)
    PROVE  TotalOf(row, Months) = FigureOf(Reports!AllPeriods, S)
<1>1. IsFiniteSet(Months) /\ Months \subseteq Reports!Pickable /\ Reports!AllPeriods \in Reports!Pickable
    BY MonthsAre DEF Reports!Pickable, Months
<1>2. IsFiniteSet(S)
    BY <1>1, FigureIs
<1>3. PICK m : m = [p \in Months |-> CasesOf(p)]
    OBVIOUS
<1>4. PICK n : n = [p \in Months |-> ClosedOf(p)]
    OBVIOUS
<1>5. ASSUME NEW f \in S
      PROVE  /\ SumFunctionOnSet(ColumnOf(m, Months, f), Months) = CasesOf(Reports!AllPeriods)[f]
             /\ SumFunctionOnSet(ColumnOf(n, Months, f), Months) = ClosedOf(Reports!AllPeriods)[f]
    <2>1. PICK a : a = ColumnOf(m, Months, f)
        OBVIOUS
    <2>2. PICK b : b = ColumnOf(n, Months, f)
        OBVIOUS
    <2>3. \A p \in Months : a[p] = CasesOf(p)[f]
        BY <1>3, <2>1 DEF ColumnOf
    <2>4. \A p \in Months : b[p] = ClosedOf(p)[f]
        BY <1>4, <2>2 DEF ColumnOf
    <2>5. f \in Findings
        OBVIOUS
    <2> QED
        BY <2>1, <2>2, <2>3, <2>4, <2>5, MonthsOfOne
<1>6. SumFunctionOnSet([p \in Months |-> row[p].cases], Months) = SumFunctionOnSet(CasesOf(Reports!AllPeriods), S)
    <2>1. PICK a : a = [p \in Months |-> row[p].cases]
        OBVIOUS
    <2>2. \A p \in Months : a[p] = SumFunctionOnSet(m[p], S)
        <3> SUFFICES ASSUME NEW p \in Months PROVE a[p] = SumFunctionOnSet(m[p], S)
            OBVIOUS
        <3>1. row[p].cases = FigureOf(p, S).cases
            OBVIOUS
        <3>2. a[p] = row[p].cases /\ m[p] = CasesOf(p)
            BY <1>3, <2>1
        <3> QED
            BY <3>1, <3>2, FigureSums
    <2>3. \A p \in Months, f \in S : m[p][f] \in Int
        <3>1. \A p \in Months, f \in S : CasesOf(p)[f] \in Int
            BY <1>1, FiguresFit
        <3> QED
            BY <1>3, <3>1
    <2>4. \A f \in S : CasesOf(Reports!AllPeriods)[f] = SumFunctionOnSet(ColumnOf(m, Months, f), Months)
        BY <1>5
    <2>5. SumFunctionOnSet(a, Months) = SumFunctionOnSet(CasesOf(Reports!AllPeriods), S)
        <3>1. DealtOut(m, a, Months, S) /\ BroughtTogether(m, CasesOf(Reports!AllPeriods), Months, S)
            BY <2>2, <2>3, <2>4 DEF DealtOut, BroughtTogether
        <3> QED
            BY <1>1, <1>2, <3>1, SumOnExchanged
    <2> QED
        BY <2>1, <2>5
<1>7. SumFunctionOnSet([p \in Months |-> row[p].closed], Months) = SumFunctionOnSet(ClosedOf(Reports!AllPeriods), S)
    <2>1. PICK a : a = [p \in Months |-> row[p].closed]
        OBVIOUS
    <2>2. \A p \in Months : a[p] = SumFunctionOnSet(n[p], S)
        <3> SUFFICES ASSUME NEW p \in Months PROVE a[p] = SumFunctionOnSet(n[p], S)
            OBVIOUS
        <3>1. row[p].closed = FigureOf(p, S).closed
            OBVIOUS
        <3>2. a[p] = row[p].closed /\ n[p] = ClosedOf(p)
            BY <1>4, <2>1
        <3> QED
            BY <3>1, <3>2, FigureSums
    <2>3. \A p \in Months, f \in S : n[p][f] \in Int
        <3>1. \A p \in Months, f \in S : ClosedOf(p)[f] \in Int
            BY <1>1, FiguresFit
        <3> QED
            BY <1>4, <3>1
    <2>4. \A f \in S : ClosedOf(Reports!AllPeriods)[f] = SumFunctionOnSet(ColumnOf(n, Months, f), Months)
        BY <1>5
    <2>5. SumFunctionOnSet(a, Months) = SumFunctionOnSet(ClosedOf(Reports!AllPeriods), S)
        <3>1. DealtOut(n, a, Months, S) /\ BroughtTogether(n, ClosedOf(Reports!AllPeriods), Months, S)
            BY <2>2, <2>3, <2>4 DEF DealtOut, BroughtTogether
        <3> QED
            BY <1>1, <1>2, <3>1, SumOnExchanged
    <2> QED
        BY <2>1, <2>5
<1> QED
    BY <1>6, <1>7 DEF TotalOf, FigureOf

\* The scored figures: a period with no case is dropped from them whatever was closed in it.
ScoredIn(S) == {f \in S : Reports!MatchesRule(f) /\ f \in Reports!Official}

\* computeEligibleCaseCounts is the figure of the scored findings, or nothing when they
\* have no case.
LEMMA RawCounts ==
    ASSUME ReportsInv, NEW p \in Reports!Pickable, NEW S \in SUBSET Reports!Registered
    PROVE  /\ Reports!EligibleCounts(p, S) =
                IF FigureOf(p, ScoredIn(S)).cases = 0 THEN Reports!Nil ELSE FigureOf(p, ScoredIn(S))
           /\ Reports!EligibleCounts(p, S).cases \in Int /\ Reports!EligibleCounts(p, S).closed \in Nat
           /\ ScoredIn(S) \in SUBSET Reports!Registered /\ ScoredIn(S) \in SUBSET Findings
<1>1. PICK T : T = ScoredIn(S)
    OBVIOUS
<1>2. T \in SUBSET Reports!Registered /\ T \in SUBSET Findings
    BY <1>1 DEF ScoredIn, Reports!Registered
<1>3. /\ Reports!ScopedCases(p, T) = FigureOf(p, T).cases
      /\ Reports!ScopedClosed(p, T) = FigureOf(p, T).closed
    BY <1>2, ScopedAre
<1>4. FigureOf(p, T).cases \in Int /\ FigureOf(p, T).closed \in Nat
    BY <1>2, FigureIs
<1>5. FigureOf(p, T) = [cases |-> FigureOf(p, T).cases, closed |-> FigureOf(p, T).closed]
    BY DEF FigureOf
<1>6. Reports!EligibleCounts(p, S) =
        IF Reports!ScopedCases(p, T) = 0 THEN Reports!Nil
        ELSE [cases |-> Reports!ScopedCases(p, T), closed |-> Reports!ScopedClosed(p, T)]
    BY <1>1 DEF Reports!EligibleCounts, ScoredIn
<1>7. Reports!EligibleCounts(p, S) = IF FigureOf(p, T).cases = 0 THEN Reports!Nil ELSE FigureOf(p, T)
    BY <1>3, <1>5, <1>6
<1>8. Reports!EligibleCounts(p, S).cases \in Int /\ Reports!EligibleCounts(p, S).closed \in Nat
    BY <1>4, <1>7 DEF Reports!Nil
<1> QED
    BY <1>1, <1>2, <1>7, <1>8

\* Where no finding was rewound, nothing is dropped, as nothing was closed of it.
LEMMA CountsAre ==
    ASSUME ReportsInv, NEW p \in Reports!Pickable, NEW S \in SUBSET Reports!Registered,
           Unrewound(p, S)
    PROVE  Reports!EligibleCounts(p, S) = FigureOf(p, ScoredIn(S))
<1>1. PICK T : T = ScoredIn(S)
    OBVIOUS
<1>2. /\ T \in SUBSET Findings
      /\ Reports!EligibleCounts(p, S) = IF FigureOf(p, T).cases = 0 THEN Reports!Nil ELSE FigureOf(p, T)
    BY <1>1, RawCounts
<1>3. Unrewound(p, T)
    BY <1>1 DEF ScoredIn, Unrewound, Reports!NeverRewound
<1>4. /\ FigureOf(p, T).cases \in Nat /\ FigureOf(p, T).closed \in Nat
      /\ FigureOf(p, T).closed <= FigureOf(p, T).cases
    BY <1>2, <1>3, FigureIs, FigureFits
<1>5. CASE FigureOf(p, T).cases = 0
    <2>1. FigureOf(p, T).closed = 0
        BY <1>4, <1>5
    <2>2. FigureOf(p, T) = [cases |-> FigureOf(p, T).cases, closed |-> FigureOf(p, T).closed]
        BY DEF FigureOf
    <2> QED
        BY <1>1, <1>2, <1>5, <2>1, <2>2 DEF Reports!Nil
<1> QED
    BY <1>1, <1>2, <1>5

-----------------------------------------------------------------------------
(* No report loses a district. *)

DistrictOf == [f \in Findings |-> ledger[f].district]
CategoryOf == [f \in Findings |-> ledger[f].category]
SourceOf == [f \in Findings |-> ledger[f].source]

\* What the reports are about: official findings that pass the template's filter
Bank == {f \in Reports!Official : Reports!PassesFilter(f)}

\* The totals of a report, with the sums read as sums over sets
LEMMA TotalsAre ==
    ASSUME NEW K, NEW row
    PROVE  /\ Reports!SumFunction([y \in K |-> row[y].cases]) = TotalOf(row, K).cases
           /\ Reports!SumFunction([y \in K |-> row[y].closed]) = TotalOf(row, K).closed
<1>1. PICK a : a = [y \in K |-> row[y].cases]
    OBVIOUS
<1>2. PICK b : b = [y \in K |-> row[y].closed]
    OBVIOUS
<1>3. DOMAIN a = K /\ DOMAIN b = K
    BY <1>1, <1>2
<1>4. Reports!SumFunction(a) = SumFunctionOnSet(a, K) /\ Reports!SumFunction(b) = SumFunctionOnSet(b, K)
    BY <1>3, SameSums
<1>5. TotalOf(row, K) = [cases |-> SumFunctionOnSet(a, K), closed |-> SumFunctionOnSet(b, K)]
    BY <1>1, <1>2 DEF TotalOf
<1> QED
    BY <1>1, <1>2, <1>4, <1>5

\* A figure, or a total, is its two numbers.
LEMMA TwoNumbers ==
    /\ \A row, K : TotalOf(row, K) = [cases |-> TotalOf(row, K).cases, closed |-> TotalOf(row, K).closed]
    /\ \A p, S : FigureOf(p, S) = [cases |-> FigureOf(p, S).cases, closed |-> FigureOf(p, S).closed]
BY DEF TotalOf, FigureOf

\* Every finding is of a listed district, a category and a source.
LEMMA UnitsListed ==
    ASSUME ReportsInv
    PROVE  /\ IsFiniteSet(Reports!ReportDistricts) /\ IsFiniteSet(Reports!ActiveCategories)
           /\ Reports!ReportDistricts \subseteq Districts /\ Reports!ActiveCategories \subseteq Categories
           /\ \A f \in Reports!Registered :
                 /\ f \in Findings
                 /\ DistrictOf[f] \in Reports!ReportDistricts /\ DistrictOf[f] \in Districts
                 /\ CategoryOf[f] \in Categories /\ SourceOf[f] \in Sources
<1>1. Reports!ReportDistricts \subseteq Districts /\ Reports!ActiveCategories \subseteq Categories
    BY DEF Reports!ReportDistricts, Reports!ActiveCategories
<1>2. IsFiniteSet(Reports!ReportDistricts) /\ IsFiniteSet(Reports!ActiveCategories)
    BY <1>1, ReportsAssumption, FS_Subset
<1>3. ASSUME NEW f \in Reports!Registered
      PROVE  /\ f \in Findings
             /\ DistrictOf[f] \in Reports!ReportDistricts /\ DistrictOf[f] \in Districts
             /\ CategoryOf[f] \in Categories /\ SourceOf[f] \in Sources
    <2>1. f \in Findings /\ ledger[f] # Reports!NoRecord
        BY DEF Reports!Registered
    <2>2. ledger[f] \in Filed
        BY <2>1, FiledThere
    <2>3. ledger[f].district \in Districts /\ ledger[f].category \in Categories /\ ledger[f].source \in Sources
        BY <2>2 DEF Filed
    <2>4. /\ DistrictOf[f] = ledger[f].district /\ CategoryOf[f] = ledger[f].category
          /\ SourceOf[f] = ledger[f].source
        BY <2>1 DEF DistrictOf, CategoryOf, SourceOf
    <2>5. ledger[f].district \in Reports!ReportDistricts
        BY <2>3 DEF Reports!ReportDistricts
    <2> QED
        BY <2>1, <2>3, <2>4, <2>5
<1> QED
    BY <1>1, <1>2, <1>3

\* What the reports are about is registered.
LEMMA BankIs == Bank \in SUBSET Reports!Registered /\ Bank \in SUBSET Findings
BY DEF Bank, Reports!Official, Reports!Registered

\* The rows of the broader templates
LEMMA RowsAre ==
    ASSUME ReportsInv, NEW p \in Reports!Pickable
    PROVE  /\ \A d : Reports!AllCasesRow(p, d) = FigureOf(p, Keyed(Bank, DistrictOf, d))
           /\ \A c : Reports!CategoryRow(p, c) = FigureOf(p, Keyed(Bank, CategoryOf, c))
           /\ \A d, c : Reports!Cell(p, d, c) = FigureOf(p, Keyed(Keyed(Bank, CategoryOf, c), DistrictOf, d))
<1>1. ASSUME NEW S \in SUBSET Reports!Registered
      PROVE  [cases |-> Reports!ScopedCases(p, S), closed |-> Reports!ScopedClosed(p, S)] = FigureOf(p, S)
    BY <1>1, ScopedAre, TwoNumbers
<1>2. \A f \in Bank : f \in Findings
    BY BankIs
<1>3. ASSUME NEW d PROVE Reports!AllCasesRow(p, d) = FigureOf(p, Keyed(Bank, DistrictOf, d))
    <2>1. PICK S : S = {f \in Reports!OfDistrict(Reports!Official, d) : Reports!PassesFilter(f)}
        OBVIOUS
    <2>2. S = Keyed(Bank, DistrictOf, d)
        BY <2>1, <1>2 DEF Keyed, Bank, DistrictOf, Reports!OfDistrict
    <2>3. S \in SUBSET Reports!Registered
        BY <2>1 DEF Reports!OfDistrict, Reports!Official
    <2>4. Reports!AllCasesRow(p, d) = [cases |-> Reports!ScopedCases(p, S), closed |-> Reports!ScopedClosed(p, S)]
        BY <2>1 DEF Reports!AllCasesRow
    <2> QED
        BY <1>1, <2>2, <2>3, <2>4
<1>4. ASSUME NEW c PROVE Reports!CategoryRow(p, c) = FigureOf(p, Keyed(Bank, CategoryOf, c))
    <2>1. PICK S : S = {f \in Reports!OfCategory(Reports!Official, c) : Reports!PassesFilter(f)}
        OBVIOUS
    <2>2. S = Keyed(Bank, CategoryOf, c)
        BY <2>1, <1>2 DEF Keyed, Bank, CategoryOf, Reports!OfCategory
    <2>3. S \in SUBSET Reports!Registered
        BY <2>1 DEF Reports!OfCategory, Reports!Official
    <2>4. Reports!CategoryRow(p, c) = [cases |-> Reports!ScopedCases(p, S), closed |-> Reports!ScopedClosed(p, S)]
        BY <2>1 DEF Reports!CategoryRow
    <2> QED
        BY <1>1, <2>2, <2>3, <2>4
<1>5. ASSUME NEW d, NEW c
      PROVE  Reports!Cell(p, d, c) = FigureOf(p, Keyed(Keyed(Bank, CategoryOf, c), DistrictOf, d))
    <2>1. PICK S : S = {f \in Reports!OfCategory(Reports!OfDistrict(Reports!Official, d), c) : Reports!PassesFilter(f)}
        OBVIOUS
    <2>2. S = Keyed(Keyed(Bank, CategoryOf, c), DistrictOf, d)
        BY <2>1, <1>2 DEF Keyed, Bank, CategoryOf, DistrictOf, Reports!OfCategory, Reports!OfDistrict
    <2>3. S \in SUBSET Reports!Registered
        BY <2>1 DEF Reports!OfCategory, Reports!OfDistrict, Reports!Official
    <2>4. Reports!Cell(p, d, c) = [cases |-> Reports!ScopedCases(p, S), closed |-> Reports!ScopedClosed(p, S)]
        BY <2>1 DEF Reports!Cell
    <2> QED
        BY <1>1, <2>2, <2>3, <2>4
<1> QED
    BY <1>3, <1>4, <1>5

\* The all-cases ranking adds up to the bank.
LEMMA AllCasesAre ==
    ASSUME ReportsInv, NEW p \in Reports!Pickable
    PROVE  Reports!AllCasesTotal(p) = FigureOf(p, Bank)
<1>1. PICK row : row = [d \in Reports!ReportDistricts |-> Reports!AllCasesRow(p, d)]
    OBVIOUS
<1>2. \A d \in Reports!ReportDistricts : row[d] = FigureOf(p, Keyed(Bank, DistrictOf, d))
    BY <1>1, RowsAre
<1>3. TotalOf(row, Reports!ReportDistricts) = FigureOf(p, Bank)
    <2>1. \A f \in Bank : DistrictOf[f] \in Reports!ReportDistricts
        BY BankIs, UnitsListed
    <2> QED
        BY <1>2, <2>1, BankIs, UnitsListed, UnitsCover
<1>4. Reports!AllCasesTotal(p) =
        [cases  |-> Reports!SumFunction([d \in Reports!ReportDistricts |-> row[d].cases]),
         closed |-> Reports!SumFunction([d \in Reports!ReportDistricts |-> row[d].closed])]
    BY <1>1 DEF Reports!AllCasesTotal
<1> QED
    BY <1>3, <1>4, TotalsAre, TwoNumbers

\* So does each category, district by district.
LEMMA GridColumn ==
    ASSUME ReportsInv, NEW p \in Reports!Pickable, NEW c, NEW k \in {"cases", "closed"},
           NEW a, \A d \in Reports!ReportDistricts : a[d] = Reports!Cell(p, d, c)[k]
    PROVE  SumFunctionOnSet(a, Reports!ReportDistricts) = FigureOf(p, Keyed(Bank, CategoryOf, c))[k]
<1>1. PICK S : S = Keyed(Bank, CategoryOf, c)
    OBVIOUS
<1>2. S \in SUBSET Findings /\ S \in SUBSET Reports!Registered
    BY <1>1, BankIs DEF Keyed
<1>3. PICK row : row = [d \in Reports!ReportDistricts |-> Reports!Cell(p, d, c)]
    OBVIOUS
<1>4. \A d \in Reports!ReportDistricts : row[d] = FigureOf(p, Keyed(S, DistrictOf, d))
    BY <1>1, <1>3, RowsAre
<1>5. \A f \in S : DistrictOf[f] \in Reports!ReportDistricts
    BY <1>2, UnitsListed
<1>6. TotalOf(row, Reports!ReportDistricts) = FigureOf(p, S)
    BY <1>2, <1>4, <1>5, UnitsListed, UnitsCover
<1>7. \A d \in Reports!ReportDistricts : a[d] = row[d][k] /\ row[d][k] \in Int
    <2>1. \A d : Keyed(S, DistrictOf, d) \in SUBSET Findings
        BY <1>2 DEF Keyed
    <2>2. \A d : /\ FigureOf(p, Keyed(S, DistrictOf, d)).cases \in Int
                 /\ FigureOf(p, Keyed(S, DistrictOf, d)).closed \in Nat
        BY <2>1, FigureIs
    <2> QED
        BY <1>3, <1>4, <2>2
<1>8. CASE k = "cases"
    <2>1. PICK b : b = [d \in Reports!ReportDistricts |-> row[d].cases]
        OBVIOUS
    <2>2. TotalOf(row, Reports!ReportDistricts).cases = SumFunctionOnSet(b, Reports!ReportDistricts)
        BY <2>1 DEF TotalOf
    <2>3. \A d \in Reports!ReportDistricts : a[d] = b[d]
        BY <1>7, <1>8, <2>1
    <2>4. \A d \in Reports!ReportDistricts : b[d] \in Int
        BY <1>7, <1>8, <2>1
    <2>5. SumFunctionOnSet(a, Reports!ReportDistricts) = SumFunctionOnSet(b, Reports!ReportDistricts)
        BY <2>3, <2>4, UnitsListed, SumOnSame
    <2> QED
        BY <1>1, <1>6, <1>8, <2>2, <2>5
<1>9. CASE k = "closed"
    <2>1. PICK b : b = [d \in Reports!ReportDistricts |-> row[d].closed]
        OBVIOUS
    <2>2. TotalOf(row, Reports!ReportDistricts).closed = SumFunctionOnSet(b, Reports!ReportDistricts)
        BY <2>1 DEF TotalOf
    <2>3. \A d \in Reports!ReportDistricts : a[d] = b[d]
        BY <1>7, <1>9, <2>1
    <2>4. \A d \in Reports!ReportDistricts : b[d] \in Int
        BY <1>7, <1>9, <2>1
    <2>5. SumFunctionOnSet(a, Reports!ReportDistricts) = SumFunctionOnSet(b, Reports!ReportDistricts)
        BY <2>3, <2>4, UnitsListed, SumOnSame
    <2> QED
        BY <1>1, <1>6, <1>9, <2>2, <2>5
<1> QED
    BY <1>8, <1>9

\* The category grid: districts first, or categories first.
LEMMA GridSum ==
    ASSUME ReportsInv, NEW p \in Reports!Pickable, NEW k \in {"cases", "closed"},
           NEW b, \A c \in Reports!ActiveCategories : b[c] = FigureOf(p, Keyed(Bank, CategoryOf, c))[k]
    PROVE  Reports!SumFunction([d \in Reports!ReportDistricts |->
                                    Reports!SumFunction([c \in Reports!ActiveCategories |-> Reports!Cell(p, d, c)[k]])])
             = SumFunctionOnSet(b, Reports!ActiveCategories)
<1>1. PICK D, C : D = Reports!ReportDistricts /\ C = Reports!ActiveCategories
    OBVIOUS
<1>2. IsFiniteSet(D) /\ IsFiniteSet(C)
    BY <1>1, UnitsListed
<1>3. PICK m : m = [d \in D |-> [c \in C |-> Reports!Cell(p, d, c)[k]]]
    OBVIOUS
<1>4. PICK a : a = [d \in D |-> Reports!SumFunction([c \in C |-> Reports!Cell(p, d, c)[k]])]
    OBVIOUS
<1>5. \A d \in D : a[d] = SumFunctionOnSet(m[d], C)
    <2> SUFFICES ASSUME NEW d \in D PROVE a[d] = SumFunctionOnSet(m[d], C)
        OBVIOUS
    <2>1. PICK g : g = [c \in C |-> Reports!Cell(p, d, c)[k]]
        OBVIOUS
    <2>2. a[d] = Reports!SumFunction(g) /\ m[d] = g /\ DOMAIN g = C
        BY <1>3, <1>4, <2>1
    <2> QED
        BY <2>2, SameSums
<1>6. \A d \in D, c \in C : m[d][c] \in Int
    <2>1. \A d, c : Reports!Cell(p, d, c).cases \in Int /\ Reports!Cell(p, d, c).closed \in Nat
        <3>1. \A d, c : Keyed(Keyed(Bank, CategoryOf, c), DistrictOf, d) \in SUBSET Findings
            BY BankIs DEF Keyed
        <3> QED
            BY <3>1, RowsAre, FigureIs
    <2>2. \A d, c : Reports!Cell(p, d, c)[k] \in Int
        BY <2>1
    <2> QED
        BY <1>3, <2>2
<1>7. \A c \in C : b[c] = SumFunctionOnSet(ColumnOf(m, D, c), D)
    <2> SUFFICES ASSUME NEW c \in C PROVE b[c] = SumFunctionOnSet(ColumnOf(m, D, c), D)
        OBVIOUS
    <2>1. PICK col : col = ColumnOf(m, D, c)
        OBVIOUS
    <2>2. \A d \in D : col[d] = Reports!Cell(p, d, c)[k]
        BY <1>3, <2>1 DEF ColumnOf
    <2>3. SumFunctionOnSet(col, D) = FigureOf(p, Keyed(Bank, CategoryOf, c))[k]
        BY <1>1, <2>2, GridColumn
    <2> QED
        BY <1>1, <2>1, <2>3
<1>8. SumFunctionOnSet(a, D) = SumFunctionOnSet(b, C)
    <2>1. DealtOut(m, a, D, C) /\ BroughtTogether(m, b, D, C)
        BY <1>5, <1>6, <1>7 DEF DealtOut, BroughtTogether
    <2> QED
        BY <1>2, <2>1, SumOnExchanged
<1>9. Reports!SumFunction(a) = SumFunctionOnSet(a, D)
    <2>1. DOMAIN a = D
        BY <1>4
    <2> QED
        BY <2>1, SameSums
<1> QED
    BY <1>1, <1>4, <1>8, <1>9

\* Bank-wide by category
LEMMA PerformanceAre ==
    ASSUME ReportsInv, NEW p \in Reports!Pickable,
           NEW row, row = [c \in Reports!ActiveCategories |-> FigureOf(p, Keyed(Bank, CategoryOf, c))]
    PROVE  Reports!PerformanceTotal(p) = TotalOf(row, Reports!ActiveCategories)
<1>1. \A c \in Reports!ActiveCategories : row[c] = Reports!CategoryRow(p, c)
    BY RowsAre
<1>2. [c \in Reports!ActiveCategories |-> Reports!CategoryRow(p, c).cases]
        = [c \in Reports!ActiveCategories |-> row[c].cases]
    BY <1>1
<1>3. [c \in Reports!ActiveCategories |-> Reports!CategoryRow(p, c).closed]
        = [c \in Reports!ActiveCategories |-> row[c].closed]
    BY <1>1
<1>4. Reports!PerformanceTotal(p) =
        [cases  |-> Reports!SumFunction([c \in Reports!ActiveCategories |-> row[c].cases]),
         closed |-> Reports!SumFunction([c \in Reports!ActiveCategories |-> row[c].closed])]
    BY <1>2, <1>3 DEF Reports!PerformanceTotal
<1> QED
    BY <1>4, TotalsAre, TwoNumbers

\* The category grid adds up to the bank-wide rows of the categories.
LEMMA GridAre ==
    ASSUME ReportsInv, NEW p \in Reports!Pickable
    PROVE  Reports!GridTotal(p) = Reports!PerformanceTotal(p)
<1>1. PICK row : row = [c \in Reports!ActiveCategories |-> FigureOf(p, Keyed(Bank, CategoryOf, c))]
    OBVIOUS
<1>2. PICK a : a = [c \in Reports!ActiveCategories |-> row[c].cases]
    OBVIOUS
<1>3. PICK b : b = [c \in Reports!ActiveCategories |-> row[c].closed]
    OBVIOUS
<1>4. Reports!SumFunction([d \in Reports!ReportDistricts |->
            Reports!SumFunction([c \in Reports!ActiveCategories |-> Reports!Cell(p, d, c)["cases"]])])
        = SumFunctionOnSet(a, Reports!ActiveCategories)
    <2>1. \A c \in Reports!ActiveCategories : a[c] = FigureOf(p, Keyed(Bank, CategoryOf, c))["cases"]
        BY <1>1, <1>2
    <2> QED
        BY <2>1, GridSum
<1>5. Reports!SumFunction([d \in Reports!ReportDistricts |->
            Reports!SumFunction([c \in Reports!ActiveCategories |-> Reports!Cell(p, d, c)["closed"]])])
        = SumFunctionOnSet(b, Reports!ActiveCategories)
    <2>1. \A c \in Reports!ActiveCategories : b[c] = FigureOf(p, Keyed(Bank, CategoryOf, c))["closed"]
        BY <1>1, <1>3
    <2> QED
        BY <2>1, GridSum
<1>6. Reports!GridTotal(p) = [cases  |-> SumFunctionOnSet(a, Reports!ActiveCategories),
                              closed |-> SumFunctionOnSet(b, Reports!ActiveCategories)]
    BY <1>4, <1>5 DEF Reports!GridTotal
<1>7. TotalOf(row, Reports!ActiveCategories)
        = [cases  |-> SumFunctionOnSet(a, Reports!ActiveCategories),
           closed |-> SumFunctionOnSet(b, Reports!ActiveCategories)]
    BY <1>2, <1>3 DEF TotalOf
<1> QED
    BY <1>1, <1>6, <1>7, PerformanceAre

\* The rows of the listed districts add up to the bank's figures.
LEMMA DistrictsCoverBank == ReportsInv => Reports!DistrictRowsCoverBank
<1> SUFFICES ASSUME ReportsInv, NEW p \in {Reports!AllPeriods} \cup Reports!Periods
             PROVE  /\ Reports!GridTotal(p) = Reports!PerformanceTotal(p)
                    /\ Reports!AllCasesTotal(p) =
                         [cases |-> Reports!ScopedCases(p, Bank), closed |-> Reports!ScopedClosed(p, Bank)]
    BY DEF Reports!DistrictRowsCoverBank, Bank
<1>1. p \in Reports!Pickable
    BY DEF Reports!Pickable
<1>2. FigureOf(p, Bank) = [cases |-> Reports!ScopedCases(p, Bank), closed |-> Reports!ScopedClosed(p, Bank)]
    BY <1>1, BankIs, ScopedAre, TwoNumbers
<1> QED
    BY <1>1, <1>2, GridAre, AllCasesAre

-----------------------------------------------------------------------------
(* The scored figures agree. *)

\* The scored findings of a district that pass the template's filter
ScoredAt(d) == {f \in Bank : DistrictOf[f] = d /\ Reports!MatchesRule(f)}

\* A district's scored row is the figure of its scored findings when none was rewound.
LEMMA DistrictCounts ==
    ASSUME ReportsInv, NEW p \in Reports!Pickable, NEW d,
           Unrewound(p, Reports!OfDistrict(Reports!Registered, d))
    PROVE  Reports!Counts(p, Reports!OfDistrict(Reports!Registered, d)) = FigureOf(p, ScoredAt(d))
<1>1. PICK S : S = {f \in Reports!OfDistrict(Reports!Registered, d) : Reports!PassesFilter(f)}
    OBVIOUS
<1>2. S \in SUBSET Reports!Registered /\ Unrewound(p, S)
    BY <1>1 DEF Reports!OfDistrict, Unrewound, Reports!NeverRewound
<1>3. ScoredIn(S) = ScoredAt(d)
    <2>1. \A f \in Reports!Registered : DistrictOf[f] = ledger[f].district
        BY DEF DistrictOf, Reports!Registered
    <2>2. \A f \in Reports!Official : f \in Reports!Registered
        BY DEF Reports!Official
    <2> QED
        BY <1>1, <2>1, <2>2 DEF ScoredIn, ScoredAt, Bank, Reports!OfDistrict
<1>4. Reports!Counts(p, Reports!OfDistrict(Reports!Registered, d)) = Reports!EligibleCounts(p, S)
    BY <1>1 DEF Reports!Counts
<1> QED
    BY <1>2, <1>3, <1>4, CountsAre

\* A district's scored findings are registered.
LEMMA ScoredAtIs == \A d : ScoredAt(d) \in SUBSET Findings /\ ScoredAt(d) \in SUBSET Reports!Registered
BY BankIs DEF ScoredAt

\* The months of a district, or one of them
LEMMA MonthsCounted ==
    ASSUME NEW P, NEW d,
           NEW row, row = [p \in P |-> Reports!Counts(p, Reports!OfDistrict(Reports!Registered, d))]
    PROVE  Reports!SumOverPeriods(P, d) = TotalOf(row, P)
<1>1. \A p \in P : Reports!Counts(p, Reports!OfDistrict(Reports!Registered, d)) = row[p]
    OBVIOUS
<1>2. [p \in P |-> Reports!Counts(p, Reports!OfDistrict(Reports!Registered, d)).cases] = [p \in P |-> row[p].cases]
    BY <1>1
<1>3. [p \in P |-> Reports!Counts(p, Reports!OfDistrict(Reports!Registered, d)).closed] = [p \in P |-> row[p].closed]
    BY <1>1
<1>4. Reports!SumOverPeriods(P, d) = [cases  |-> Reports!SumFunction([p \in P |-> row[p].cases]),
                                      closed |-> Reports!SumFunction([p \in P |-> row[p].closed])]
    BY <1>2, <1>3 DEF Reports!SumOverPeriods
<1> QED
    BY <1>4, TotalsAre, TwoNumbers

\* A district's lifetime row is the lifetime of its scored findings;
LEMMA LifetimeIs ==
    ASSUME ReportsInv, NEW d
    PROVE  Reports!LifetimeRow(d) = FigureOf(Reports!AllPeriods, ScoredAt(d))
<1>1. Reports!AllPeriods \in Reports!Pickable
    BY DEF Reports!Pickable
<1>2. Unrewound(Reports!AllPeriods, Reports!OfDistrict(Reports!Registered, d))
    BY DEF Unrewound
<1> QED
    BY <1>1, <1>2, DistrictCounts DEF Reports!LifetimeRow

\* its months add up to it when none was rewound.
LEMMA HistoryIs ==
    ASSUME ReportsInv, NEW d, Reports!NeverRewound(Reports!OfDistrict(Reports!Registered, d))
    PROVE  Reports!SumOverPeriods(Months, d) = FigureOf(Reports!AllPeriods, ScoredAt(d))
<1>1. PICK row : row = [p \in Months |-> Reports!Counts(p, Reports!OfDistrict(Reports!Registered, d))]
    OBVIOUS
<1>2. Reports!SumOverPeriods(Months, d) = TotalOf(row, Months)
    BY <1>1, MonthsCounted
<1>3. \A p \in Months : row[p] = FigureOf(p, ScoredAt(d))
    <2>1. \A p \in Months : p \in Reports!Pickable /\ Unrewound(p, Reports!OfDistrict(Reports!Registered, d))
        BY DEF Reports!Pickable, Months, Unrewound
    <2> QED
        BY <1>1, <2>1, DistrictCounts
<1>4. TotalOf(row, Months) = FigureOf(Reports!AllPeriods, ScoredAt(d))
    BY <1>3, ScoredAtIs, MonthsCover
<1> QED
    BY <1>2, <1>4

\* A transferred finding is counted once.
LEMMA HistoriesAddUp == ReportsInv => Reports!HistoryAddsUp
BY HistoryIs, LifetimeIs DEF Reports!HistoryAddsUp, Months

\* No period closes more than it answers for.
LEMMA PercentagesFit == ReportsInv => Reports!NoPercentageAbove100
<1> SUFFICES ASSUME ReportsInv, NEW p \in {Reports!AllPeriods} \cup Reports!Periods, NEW d \in Districts,
                    p = Reports!AllPeriods \/ Reports!NeverRewound(Reports!OfDistrict(Reports!Registered, d))
             PROVE  Reports!Counts(p, Reports!OfDistrict(Reports!Registered, d)).closed
                      <= Reports!Counts(p, Reports!OfDistrict(Reports!Registered, d)).cases
    BY DEF Reports!NoPercentageAbove100
<1>1. p \in Reports!Pickable /\ Unrewound(p, Reports!OfDistrict(Reports!Registered, d))
    BY DEF Reports!Pickable, Unrewound
<1>2. Unrewound(p, ScoredAt(d))
    <2>1. \A f \in ScoredAt(d) : f \in Reports!OfDistrict(Reports!Registered, d)
        BY ScoredAtIs DEF ScoredAt, DistrictOf, Reports!OfDistrict
    <2> QED
        BY <1>1, <2>1 DEF Unrewound, Reports!NeverRewound
<1> QED
    BY <1>1, <1>2, DistrictCounts, ScoredAtIs, FigureFits

-----------------------------------------------------------------------------
(* The figures as of a day. *)

\* What was closed of a finding by some day: more from day to day, and never
\* more than was registered; by today, everything.
LEMMA ClosuresInTime ==
    ASSUME ReportsInv, NEW f \in Reports!Registered, NEW day \in Nat, NEW later \in Nat, day <= later
    PROVE  /\ Reports!ClosedBy(f, day) \in Nat /\ Reports!ClosedBy(f, later) \in Nat
           /\ Reports!ClosedBy(f, day) <= Reports!ClosedBy(f, later)
           /\ Reports!ClosedBy(f, later) <= CasesOf(Reports!AllPeriods)[f]
<1>1. f \in Findings /\ ledger[f] # Reports!NoRecord
    BY DEF Reports!Registered
<1>2. PICK r : r = ledger[f] /\ r \in Filed /\ InOrder(r, today)
    BY <1>1, FiledThere
<1>3. r.closures \in Seq(Closing)
    BY <1>2, LedgersRead
<1>4. PICK m \in Nat : m = Len(r.closures) /\ DOMAIN r.closures = 1..m
    BY <1>3
<1>5. \A i \in 1..m : /\ r.closures[i].day \in Nat /\ r.closures[i].period \in Months
                      /\ r.closures[i].qty["cases"] \in Nat
    <2>1. \A i \in 1..m : r.closures[i] \in Closing
        BY <1>3, <1>4
    <2> QED
        BY <2>1 DEF Closing, Amounts, Counted
<1>6. PICK a : a = [i \in 1..m |-> IF r.closures[i].day <= day THEN r.closures[i].qty["cases"] ELSE 0]
    OBVIOUS
<1>7. PICK b : b = [i \in 1..m |-> IF r.closures[i].day <= later THEN r.closures[i].qty["cases"] ELSE 0]
    OBVIOUS
<1>8. PICK all : all = [i \in 1..m |-> IF r.closures[i].period \in Months THEN r.closures[i].qty["cases"] ELSE 0]
    OBVIOUS
<1>9. a \in [1..m -> Nat] /\ b \in [1..m -> Nat] /\ all \in [1..m -> Nat]
    BY <1>5, <1>6, <1>7, <1>8
<1>10. Reports!ClosedBy(f, day) = SumOf(a)
    BY <1>2, <1>4, <1>6, SameSequences DEF Reports!ClosedBy
<1>11. Reports!ClosedBy(f, later) = SumOf(b)
    BY <1>2, <1>4, <1>7, SameSequences DEF Reports!ClosedBy
<1>12. ClosedOfAll(r) = SumOf(all)
    BY <1>4, <1>8 DEF ClosedOfAll, SumOfRows
<1>13. \A i \in 1..m : a[i] <= b[i]
    BY <1>5, <1>6, <1>7
<1>14. \A i \in 1..m : b[i] <= all[i]
    BY <1>5, <1>7, <1>8
<1>15. SumOf(a) <= SumOf(b)
    BY <1>9, <1>13, SumMonotone
<1>16. SumOf(b) <= SumOf(all)
    BY <1>9, <1>14, SumMonotone
<1>17. SumOf(a) \in Nat /\ SumOf(b) \in Nat
    <2>1. a \in Seq(Nat) /\ b \in Seq(Nat)
        BY <1>9
    <2> QED
        BY <2>1, SumOfNats
<1>18. CasesOf(Reports!AllPeriods)[f] = r.total["cases"]
    BY <1>1, <1>2, FiguresAre DEF CasesOf
<1>19. ClosedOfAll(r) <= r.total["cases"] /\ ClosedOfAll(r) \in Nat /\ r.total["cases"] \in Nat
    BY <1>2, LedgersRead DEF InOrder
<1> QED
    BY <1>10, <1>11, <1>12, <1>15, <1>16, <1>17, <1>18, <1>19

\* By today everything is closed that was.
LEMMA ClosedByToday ==
    ASSUME ReportsInv, NEW f \in Reports!Registered, NEW p
    PROVE  Reports!ClosedInBy(f, p, today) = Reports!ClosedHere(f, p)
<1>1. f \in Findings /\ ledger[f] # Reports!NoRecord
    BY DEF Reports!Registered
<1>2. PICK r : r = ledger[f] /\ r \in Filed /\ InOrder(r, today)
    BY <1>1, FiledThere
<1>3. r.closures \in Seq(Closing)
    BY <1>2, LedgersRead
<1>4. PICK m \in Nat : m = Len(r.closures) /\ DOMAIN r.closures = 1..m
    BY <1>3
<1>5. \A i \in 1..m : r.closures[i].day <= today
    BY <1>2, <1>4 DEF InOrder
<1>6. PICK a : a = [i \in DOMAIN r.closures |-> IF r.closures[i].period = p /\ r.closures[i].day <= today
                                              THEN r.closures[i].qty["cases"] ELSE 0]
    OBVIOUS
<1>7. a = [i \in DOMAIN r.closures |-> IF r.closures[i].period \in {p} THEN r.closures[i].qty["cases"] ELSE 0]
    BY <1>4, <1>5, <1>6
<1>8. Reports!ClosedInBy(f, p, today) = SumOf(a)
    BY <1>2, <1>6, SameSequences DEF Reports!ClosedInBy
<1>9. ClosedIn(r.closures, p, "cases") = SumOf(a)
    BY <1>7 DEF ClosedIn, SumOfRows
<1> QED
    BY <1>2, <1>8, <1>9, FiguresAre

\* The snapshot of today counts what is dated until today.
DatedAt(d) == {f \in ScoredAt(d) : ledger[f].date <= today}

\* With a rule, a snapshot of today is the figure of the findings dated by now.
LEMMA SnapshotIs ==
    ASSUME ReportsInv, liveRule # Reports!NoRule, NEW p \in Months, NEW d
    PROVE  Reports!SnapshotRow(p, d, today) = FigureOf(p, DatedAt(d))
<1>1. PICK S : S = {f \in Reports!OfDistrict(Reports!Official, d) :
                        /\ ledger[f].date <= today
                        /\ liveRule = Reports!NoRule \/ Reports!MatchesRule(f)
                        /\ Reports!PassesFilter(f)}
    OBVIOUS
<1>2. PICK T : T = {f \in S : Reports!ResidentIn(f, p)}
    OBVIOUS
<1>3. S = DatedAt(d)
    <2>1. \A f \in Reports!Official : DistrictOf[f] = ledger[f].district
        BY DEF DistrictOf, Reports!Official, Reports!Registered
    <2> QED
        BY <1>1, <2>1 DEF DatedAt, ScoredAt, Bank, Reports!OfDistrict
<1>4. S \in SUBSET Reports!Registered /\ S \in SUBSET Findings
    BY <1>3, ScoredAtIs DEF DatedAt
<1>5. p \in Reports!Pickable /\ p # Reports!AllPeriods
    BY MonthsAre DEF Reports!Pickable, Months, Reports!AllPeriods
<1>6. T = Reports!ScopedTo(p, S)
    BY <1>2, <1>5 DEF Reports!ScopedTo
<1>7. Reports!ScopedCases(p, S) = Reports!SumFunction([f \in T |-> Reports!Eligible(f, p)])
    BY <1>5, <1>6 DEF Reports!ScopedCases
<1>8. Reports!ScopedClosed(p, S) = Reports!SumFunction([f \in T |-> Reports!ClosedInBy(f, p, today)])
    <2>1. \A f \in T : Reports!ClosedInBy(f, p, today) = Reports!ClosedHere(f, p)
        BY <1>2, <1>4, ClosedByToday
    <2>2. [f \in T |-> Reports!ClosedInBy(f, p, today)] = [f \in T |-> Reports!ClosedHere(f, p)]
        BY <2>1
    <2>3. Reports!ScopedClosed(p, S) = Reports!SumFunction([f \in T |-> Reports!ClosedHere(f, p)])
        BY <1>5, <1>6 DEF Reports!ScopedClosed
    <2> QED
        BY <2>2, <2>3
<1>9. Reports!SnapshotRow(p, d, today) =
        [cases  |-> Reports!SumFunction([f \in T |-> Reports!Eligible(f, p)]),
         closed |-> Reports!SumFunction([f \in T |-> Reports!ClosedInBy(f, p, today)])]
    BY <1>1, <1>2, Zenon DEF Reports!SnapshotRow
<1>10. Reports!ScopedCases(p, S) = FigureOf(p, S).cases /\ Reports!ScopedClosed(p, S) = FigureOf(p, S).closed
    BY <1>4, <1>5, ScopedAre
<1> QED
    BY <1>3, <1>7, <1>8, <1>9, <1>10, TwoNumbers

\* The snapshot of today is the official figure of what is dated by now, or has no case.
LEMMA SnapshotsMatch == ReportsInv => Reports!SnapshotMatchesOfficial
<1> SUFFICES ASSUME ReportsInv, liveRule # Reports!NoRule, NEW p \in Months, NEW d \in Districts,
                    NEW dated, dated = {f \in Reports!OfDistrict(Reports!Registered, d) : ledger[f].date <= today}
             PROVE  \/ Reports!SnapshotRow(p, d, today) = Reports!Counts(p, dated)
                    \/ Reports!Counts(p, dated) = Reports!Nil /\ Reports!SnapshotRow(p, d, today).cases = 0
    BY DEF Reports!SnapshotMatchesOfficial, Months
<1>1. PICK S : S = {f \in dated : Reports!PassesFilter(f)}
    OBVIOUS
<1>2. S \in SUBSET Reports!Registered
    BY <1>1 DEF Reports!OfDistrict
<1>3. ScoredIn(S) = DatedAt(d)
    <2>1. \A f \in Reports!Registered : DistrictOf[f] = ledger[f].district
        BY DEF DistrictOf, Reports!Registered
    <2>2. \A f \in Reports!Official : f \in Reports!Registered
        BY DEF Reports!Official
    <2> QED
        BY <1>1, <2>1, <2>2 DEF ScoredIn, DatedAt, ScoredAt, Bank, Reports!OfDistrict
<1>4. p \in Reports!Pickable
    BY DEF Reports!Pickable, Months
<1>5. Reports!Counts(p, dated) =
        IF FigureOf(p, DatedAt(d)).cases = 0 THEN Reports!Nil ELSE FigureOf(p, DatedAt(d))
    BY <1>1, <1>2, <1>3, <1>4, RawCounts DEF Reports!Counts
<1>6. Reports!SnapshotRow(p, d, today) = FigureOf(p, DatedAt(d))
    BY SnapshotIs
<1> QED
    BY <1>5, <1>6

\* The findings of a category in a district dated until a day, and what was
\* closed of each by then
DatedBy(c, d, day) == {f \in Bank : ledger[f].district = d /\ ledger[f].category = c /\ ledger[f].date <= day}
ByDay(day) == [f \in Findings |-> IF ledger[f] = Reports!NoRecord THEN 0 ELSE Reports!ClosedBy(f, day)]

\* From day to day no less is closed, and never more than there is.
LEMMA ByDayFits ==
    ASSUME ReportsInv, NEW f \in Findings, NEW day \in Nat, NEW later \in Nat, day <= later
    PROVE  /\ ByDay(day)[f] \in Nat /\ ByDay(later)[f] \in Nat
           /\ ByDay(day)[f] <= ByDay(later)[f]
           /\ ByDay(later)[f] <= CasesOf(Reports!AllPeriods)[f]
<1>1. CASE ledger[f] = Reports!NoRecord
    BY <1>1 DEF ByDay, CasesOf
<1>2. CASE ledger[f] # Reports!NoRecord
    <2>1. f \in Reports!Registered
        BY <1>2 DEF Reports!Registered
    <2>2. ByDay(day)[f] = Reports!ClosedBy(f, day) /\ ByDay(later)[f] = Reports!ClosedBy(f, later)
        BY <1>2 DEF ByDay
    <2> QED
        BY <2>1, <2>2, ClosuresInTime
<1> QED
    BY <1>1, <1>2

\* The figures as of a day, as sums over findings
LEMMA AsOfIs ==
    ASSUME ReportsInv, NEW c, NEW d, NEW day \in Nat
    PROVE  /\ Reports!AsOf(c, d, day).cases = SumFunctionOnSet(CasesOf(Reports!AllPeriods), DatedBy(c, d, day))
           /\ Reports!AsOf(c, d, day).closed = SumFunctionOnSet(ByDay(day), DatedBy(c, d, day))
           /\ Reports!AsOf(c, d, day).cases \in Nat /\ Reports!AsOf(c, d, day).closed \in Nat
           /\ Reports!AsOf(c, d, day).closed <= Reports!AsOf(c, d, day).cases
<1>1. PICK S : S = {f \in Reports!OfCategory(Reports!OfDistrict(Reports!Official, d), c) :
                        Reports!PassesFilter(f) /\ ledger[f].date <= day}
    OBVIOUS
<1>2. S = DatedBy(c, d, day)
    BY <1>1 DEF DatedBy, Bank, Reports!OfCategory, Reports!OfDistrict
<1>3. S \in SUBSET Findings /\ IsFiniteSet(S) /\ \A f \in S : ledger[f] # Reports!NoRecord
    <2>1. S \in SUBSET Bank
        BY <1>2 DEF DatedBy
    <2>2. S \in SUBSET Findings /\ \A f \in S : ledger[f] # Reports!NoRecord
        BY <2>1, BankIs DEF Reports!Registered
    <2> QED
        BY <2>2, ReportsAssumption, FS_Subset
<1>4. PICK a : a = [f \in S |-> Reports!Total(f).cases]
    OBVIOUS
<1>5. PICK b : b = [f \in S |-> Reports!ClosedBy(f, day)]
    OBVIOUS
<1>6. Reports!AsOf(c, d, day) = [cases |-> Reports!SumFunction(a), closed |-> Reports!SumFunction(b)]
    BY <1>1, <1>4, <1>5 DEF Reports!AsOf
<1>7. Reports!SumFunction(a) = SumFunctionOnSet(a, S) /\ Reports!SumFunction(b) = SumFunctionOnSet(b, S)
    <2>1. DOMAIN a = S /\ DOMAIN b = S
        BY <1>4, <1>5
    <2> QED
        BY <2>1, SameSums
<1>8. \A f \in S : /\ CasesOf(Reports!AllPeriods)[f] \in Nat /\ ByDay(day)[f] \in Nat
                   /\ ByDay(day)[f] <= CasesOf(Reports!AllPeriods)[f]
    <2>1. Reports!AllPeriods \in Reports!Pickable /\ day <= day
        BY DEF Reports!Pickable
    <2> QED
        BY <1>3, <2>1, FiguresFit, ByDayFits
<1>9. \A f \in S : a[f] = CasesOf(Reports!AllPeriods)[f]
    BY <1>3, <1>4 DEF CasesOf
<1>10. \A f \in S : b[f] = ByDay(day)[f]
    BY <1>3, <1>5 DEF ByDay
<1>11. \A f \in S : CasesOf(Reports!AllPeriods)[f] \in Int
    BY <1>8
<1>12. \A f \in S : ByDay(day)[f] \in Int
    BY <1>8
<1>13. SumFunctionOnSet(a, S) = SumFunctionOnSet(CasesOf(Reports!AllPeriods), S)
    BY <1>3, <1>9, <1>11, SumOnSame
<1>14. SumFunctionOnSet(b, S) = SumFunctionOnSet(ByDay(day), S)
    BY <1>3, <1>10, <1>12, SumOnSame
<1>15. SumFunctionOnSet(CasesOf(Reports!AllPeriods), S) \in Nat
    <2>1. \A f \in S : CasesOf(Reports!AllPeriods)[f] \in Nat
        BY <1>8
    <2> QED
        BY <1>3, <2>1, SumOnNat
<1>16. SumFunctionOnSet(ByDay(day), S) \in Nat
    <2>1. \A f \in S : ByDay(day)[f] \in Nat
        BY <1>8
    <2> QED
        BY <1>3, <2>1, SumOnNat
<1>17. SumFunctionOnSet(ByDay(day), S) <= SumFunctionOnSet(CasesOf(Reports!AllPeriods), S)
    <2>1. \A f \in S : ByDay(day)[f] <= CasesOf(Reports!AllPeriods)[f]
        BY <1>8
    <2> QED
        BY <1>3, <1>11, <1>12, <2>1, SumOnMonotone
<1> QED
    BY <1>2, <1>6, <1>7, <1>13, <1>14, <1>15, <1>16, <1>17

\* From one cutoff to a later one
LEMMA FromDayToDay ==
    ASSUME ReportsInv, NEW c, NEW d, NEW last \in Nat, NEW this \in Nat, last <= this
    PROVE  /\ Reports!AsOf(c, d, last).cases <= Reports!AsOf(c, d, this).cases
           /\ Reports!AsOf(c, d, last).closed <= Reports!AsOf(c, d, this).closed
<1>1. PICK S : S = DatedBy(c, d, this)
    OBVIOUS
<1>2. PICK T : T = DatedBy(c, d, last)
    OBVIOUS
<1>3. S \in SUBSET Findings /\ IsFiniteSet(S)
    <2>1. S \in SUBSET Findings
        BY <1>1, BankIs DEF DatedBy
    <2> QED
        BY <2>1, ReportsAssumption, FS_Subset
<1>4. T \in SUBSET S /\ IsFiniteSet(T)
    <2>1. \A f \in Bank : ledger[f].date \in Nat
        <3>1. \A f \in Bank : ledger[f] \in Filed
            BY BankIs, FiledThere DEF Reports!Registered
        <3> QED
            BY <3>1 DEF Filed
    <2>2. T \in SUBSET S
        BY <1>1, <1>2, <2>1 DEF DatedBy
    <2> QED
        BY <1>3, <2>2, FS_Subset
<1>5. \A f \in S : CasesOf(Reports!AllPeriods)[f] \in Nat
    BY <1>3, FiguresFit DEF Reports!Pickable
<1>6. \A f \in S : /\ ByDay(this)[f] \in Nat /\ ByDay(last)[f] \in Nat
                   /\ ByDay(last)[f] <= ByDay(this)[f]
    BY <1>3, ByDayFits
<1>7. SumFunctionOnSet(CasesOf(Reports!AllPeriods), T) <= SumFunctionOnSet(CasesOf(Reports!AllPeriods), S)
    BY <1>3, <1>4, <1>5, SumOfPart
<1>8. SumFunctionOnSet(ByDay(this), T) <= SumFunctionOnSet(ByDay(this), S)
    <2>1. \A f \in S : ByDay(this)[f] \in Nat
        BY <1>6
    <2> QED
        BY <1>3, <1>4, <2>1, SumOfPart
<1>9. SumFunctionOnSet(ByDay(last), T) <= SumFunctionOnSet(ByDay(this), T)
    <2>1. \A f \in T : ByDay(last)[f] \in Int
        BY <1>4, <1>6
    <2>2. \A f \in T : ByDay(this)[f] \in Int
        BY <1>4, <1>6
    <2>3. \A f \in T : ByDay(last)[f] <= ByDay(this)[f]
        BY <1>4, <1>6
    <2> QED
        BY <1>4, <2>1, <2>2, <2>3, SumOnMonotone
<1>10. PICK lastClosed \in Nat : lastClosed = SumFunctionOnSet(ByDay(last), T)
    BY <1>2, AsOfIs
<1>11. PICK thisClosed \in Nat : thisClosed = SumFunctionOnSet(ByDay(this), S)
    BY <1>1, AsOfIs
<1>12. PICK between \in Nat : between = SumFunctionOnSet(ByDay(this), T)
    <2>1. \A f \in T : ByDay(this)[f] \in Nat
        BY <1>4, <1>6
    <2> QED
        BY <1>4, <2>1, SumOnNat
<1>13. lastClosed <= thisClosed
    BY <1>8, <1>9, <1>10, <1>11, <1>12
<1> QED
    BY <1>1, <1>2, <1>7, <1>10, <1>11, <1>13, AsOfIs

\* A week's line
LEMMA WeeklyRowIs ==
    ASSUME ReportsInv, NEW c, NEW d, NEW last \in Nat, NEW this \in Nat,
           NEW row, row = Reports!WeeklyRow(c, d, last, this)
    PROVE  /\ row.previousBalance \in Int /\ row.additional \in Int
           /\ row.currentBalance \in Int /\ row.rectified \in Int
           /\ row.previousBalance + row.additional = row.rectified + row.currentBalance
           /\ last <= this => /\ row.previousBalance >= 0 /\ row.currentBalance >= 0
                              /\ row.rectified >= 0 /\ row.additional >= 0
<1>1. PICK a, b : a = Reports!AsOf(c, d, last) /\ b = Reports!AsOf(c, d, this)
    OBVIOUS
<1>2. a.cases \in Nat /\ a.closed \in Nat /\ a.closed <= a.cases
    BY <1>1, AsOfIs
<1>3. b.cases \in Nat /\ b.closed \in Nat /\ b.closed <= b.cases
    BY <1>1, AsOfIs
<1>4. last <= this => a.cases <= b.cases /\ a.closed <= b.closed
    BY <1>1, FromDayToDay
<1>5. row = [previousBalance |-> a.cases - a.closed, additional |-> b.cases - a.cases,
             currentBalance |-> b.cases - b.closed,
             rectified |-> (a.cases - a.closed) + (b.cases - a.cases) - (b.cases - b.closed)]
    BY <1>1 DEF Reports!WeeklyRow
<1>6. /\ row.previousBalance = a.cases - a.closed /\ row.additional = b.cases - a.cases
      /\ row.currentBalance = b.cases - b.closed
      /\ row.rectified = (a.cases - a.closed) + (b.cases - a.cases) - (b.cases - b.closed)
    BY <1>5
<1>7. PICK ac, ak \in Nat : ac = a.cases /\ ak = a.closed
    BY <1>2
<1>8. PICK bc, bk \in Nat : bc = b.cases /\ bk = b.closed
    BY <1>3
<1>9. ac \in Nat /\ bc \in Nat /\ ak <= ac /\ bk <= bc /\ (last <= this => ac <= bc /\ ak <= bk)
    BY <1>2, <1>3, <1>4, <1>7, <1>8
<1> QED
    BY <1>6, <1>7, <1>8, <1>9

\* No week shows a negative balance.
LEMMA WeeksBalance == ReportsInv => Reports!WeekBalances
<1> SUFFICES ASSUME ReportsInv, NEW c \in Categories, NEW d \in Districts,
                    NEW last \in Reports!Days, NEW this \in Reports!Days, last <= this
             PROVE  /\ Reports!WeeklyRow(c, d, last, this).previousBalance >= 0
                    /\ Reports!WeeklyRow(c, d, last, this).currentBalance >= 0
                    /\ Reports!WeeklyRow(c, d, last, this).rectified >= 0
                    /\ Reports!WeeklyRow(c, d, last, this).additional >= 0
    BY DEF Reports!WeekBalances
<1>1. last \in Nat /\ this \in Nat
    BY ReportsAssumption DEF Reports!Days
<1> QED
    BY <1>1, WeeklyRowIs

-----------------------------------------------------------------------------
(* Pages that answer the same question. *)

\* The TOTAL row of a page
LEMMA PageTotal ==
    ASSUME NEW K, NEW line, DOMAIN line = K
    PROVE  Reports!TotalRow(line) = TotalOf(line, K)
<1>1. Reports!TotalRow(line) = [cases  |-> Reports!SumFunction([y \in K |-> line[y].cases]),
                                closed |-> Reports!SumFunction([y \in K |-> line[y].closed])]
    BY DEF Reports!TotalRow
<1> QED
    BY <1>1, TotalsAre, TwoNumbers

\* A total of one row is that row.
LEMMA TotalOfOne ==
    ASSUME NEW x, NEW row, row[x].cases \in Int, row[x].closed \in Int,
           row[x] = [cases |-> row[x].cases, closed |-> row[x].closed]
    PROVE  TotalOf(row, {x}) = row[x]
<1>1. PICK a : a = [y \in {x} |-> row[y].cases]
    OBVIOUS
<1>2. PICK b : b = [y \in {x} |-> row[y].closed]
    OBVIOUS
<1>3. a[x] = row[x].cases /\ b[x] = row[x].closed
    BY <1>1, <1>2
<1>4. SumFunctionOnSet(a, {x}) = row[x].cases
    BY <1>3, SumOnOne
<1>5. SumFunctionOnSet(b, {x}) = row[x].closed
    BY <1>3, SumOnOne
<1>6. TotalOf(row, {x}) = [cases |-> SumFunctionOnSet(a, {x}), closed |-> SumFunctionOnSet(b, {x})]
    BY <1>1, <1>2 DEF TotalOf
<1> QED
    BY <1>4, <1>5, <1>6

\* When nothing registered was rewound, no part of it was.
LEMMA PartsUnrewound ==
    ASSUME Reports!NeverRewound(Reports!Registered)
    PROVE  /\ \A p, S : S \in SUBSET Reports!Registered => Unrewound(p, S)
           /\ \A d : Reports!NeverRewound(Reports!OfDistrict(Reports!Registered, d))
           /\ \A p, d : Unrewound(p, Reports!OfDistrict(Reports!Registered, d))
BY DEF Unrewound, Reports!NeverRewound, Reports!OfDistrict

\* A district's line of the history, whichever period is picked
LEMMA HistoryLine ==
    ASSUME ReportsInv, NEW p \in Reports!Pickable, NEW d,
           p # Reports!AllPeriods \/ Reports!NeverRewound(Reports!Registered)
    PROVE  Reports!SumOverPeriods(IF p = Reports!AllPeriods THEN Reports!Periods ELSE {p}, d) = Reports!Scored(p, d)
<1>1. CASE p = Reports!AllPeriods
    <2>1. Reports!Scored(p, d) = Reports!LifetimeRow(d)
        BY <1>1 DEF Reports!Scored, Reports!LifetimeRow
    <2>2. Reports!SumOverPeriods(Months, d) = Reports!LifetimeRow(d)
        BY <1>1, PartsUnrewound, HistoryIs, LifetimeIs
    <2> QED
        BY <1>1, <2>1, <2>2 DEF Months
<1>2. CASE p # Reports!AllPeriods
    <2>1. PICK row : row = [q \in {p} |-> Reports!Counts(q, Reports!OfDistrict(Reports!Registered, d))]
        OBVIOUS
    <2>2. Reports!SumOverPeriods({p}, d) = TotalOf(row, {p})
        BY <2>1, MonthsCounted
    <2>3. row[p] = Reports!Scored(p, d)
        BY <2>1 DEF Reports!Scored
    <2>4. /\ row[p].cases \in Int /\ row[p].closed \in Int
          /\ row[p] = [cases |-> row[p].cases, closed |-> row[p].closed]
        <3>1. PICK S : S = {f \in Reports!OfDistrict(Reports!Registered, d) : Reports!PassesFilter(f)}
            OBVIOUS
        <3>2. S \in SUBSET Reports!Registered
            BY <3>1 DEF Reports!OfDistrict
        <3>3. row[p] = Reports!EligibleCounts(p, S)
            BY <2>1, <3>1 DEF Reports!Counts
        <3>4. \/ row[p] = Reports!Nil
              \/ row[p] = FigureOf(p, ScoredIn(S))
            BY <3>2, <3>3, RawCounts
        <3>5. row[p].cases \in Int /\ row[p].closed \in Nat
            BY <3>2, <3>3, RawCounts
        <3> QED
            BY <3>4, <3>5, TwoNumbers DEF Reports!Nil
    <2>5. TotalOf(row, {p}) = row[p]
        BY ONLY <2>4, TotalOfOne
    <2> QED
        BY <1>2, <2>2, <2>3, <2>5
<1> QED
    BY <1>1, <1>2

\* The history over all periods and the ranking, with every period ticked or none
LEMMA RankingsAgree ==
    ASSUME ReportsInv
    PROVE  /\ Reports!NeverRewound(Reports!Registered) =>
                 /\ Reports!DistrictHistoryPage(Reports!AllPeriods) = Reports!RankingOtherCasesPage({})
                 /\ Reports!RankingOtherCasesPage(Reports!Periods) = Reports!RankingOtherCasesPage({})
           /\ Reports!RankingAllCasesPage(Reports!Periods) = Reports!RankingAllCasesPage({})
<1>1. ASSUME Reports!NeverRewound(Reports!Registered)
      PROVE  /\ Reports!DistrictHistoryPage(Reports!AllPeriods) = Reports!RankingOtherCasesPage({})
             /\ Reports!RankingOtherCasesPage(Reports!Periods) = Reports!RankingOtherCasesPage({})
    <2>1. PICK line : line = [d \in Reports!ReportDistricts |-> Reports!LifetimeRow(d)]
        OBVIOUS
    <2>2. Reports!RankingOtherCasesPage({}) = Reports!TotalRow(line)
        BY <2>1 DEF Reports!RankingOtherCasesPage
    <2>3. [d \in Reports!ReportDistricts |-> Reports!SumOverPeriods(Reports!Periods, d)] = line
        BY <1>1, <2>1, PartsUnrewound, HistoryIs, LifetimeIs DEF Months
    <2>4. Reports!DistrictHistoryPage(Reports!AllPeriods) = Reports!TotalRow(line)
        BY <2>3 DEF Reports!DistrictHistoryPage
    <2>5. Reports!RankingOtherCasesPage(Reports!Periods) = Reports!TotalRow(line)
        BY <2>1, <2>2, <2>3 DEF Reports!RankingOtherCasesPage
    <2> QED
        BY <2>2, <2>4, <2>5
<1>2. Reports!RankingAllCasesPage({}) = FigureOf(Reports!AllPeriods, Bank)
    BY AllCasesAre DEF Reports!RankingAllCasesPage, Reports!Pickable
<1>3. PICK row : row = [p \in Months |-> Reports!AllCasesTotal(p)]
    OBVIOUS
<1>4. \A p \in Months : row[p] = FigureOf(p, Bank)
    BY <1>3, AllCasesAre DEF Reports!Pickable, Months
<1>5. Reports!TotalRow(row) = FigureOf(Reports!AllPeriods, Bank)
    <2>1. DOMAIN row = Months
        BY <1>3
    <2>2. Reports!TotalRow(row) = TotalOf(row, Months)
        BY <2>1, PageTotal
    <2>3. TotalOf(row, Months) = FigureOf(Reports!AllPeriods, Bank)
        BY <1>4, BankIs, MonthsCover
    <2> QED
        BY <2>2, <2>3
<1>6. Reports!RankingAllCasesPage(Reports!Periods) = FigureOf(Reports!AllPeriods, Bank)
    BY <1>2, <1>3, <1>5 DEF Reports!RankingAllCasesPage, Months
<1> QED
    BY <1>1, <1>2, <1>6

\* The monthly summary and the history of that month
LEMMA SummariesAgree ==
    ASSUME ReportsInv, NEW p \in Reports!Pickable
    PROVE  /\ p # Reports!AllPeriods \/ Reports!NeverRewound(Reports!Registered)
                => Reports!MonthlySummaryPage(p).scored = Reports!DistrictHistoryPage(p)
           /\ Reports!MonthlySummaryPage(p).notDispatched = Reports!Cardinality(Reports!UncoveredBranchesPage(p))
<1>1. ASSUME p # Reports!AllPeriods \/ Reports!NeverRewound(Reports!Registered)
      PROVE  Reports!MonthlySummaryPage(p).scored = Reports!DistrictHistoryPage(p)
    <2>1. PICK line : line = [d \in Reports!ReportDistricts |-> Reports!Scored(p, d)]
        OBVIOUS
    <2>2. Reports!MonthlySummaryPage(p).scored = Reports!TotalRow(line)
        BY <2>1 DEF Reports!MonthlySummaryPage
    <2>3. PICK P : P = IF p = Reports!AllPeriods THEN Reports!Periods ELSE {p}
        OBVIOUS
    <2>4. \A d : Reports!SumOverPeriods(P, d) = Reports!Scored(p, d)
        BY <1>1, <2>3, HistoryLine
    <2>5. [d \in Reports!ReportDistricts |-> Reports!SumOverPeriods(P, d)] = line
        BY <2>1, <2>4
    <2>6. Reports!DistrictHistoryPage(p) = Reports!TotalRow(line)
        BY <2>3, <2>5 DEF Reports!DistrictHistoryPage
    <2> QED
        BY <2>2, <2>6
<1>2. {d \in Reports!ActiveDistricts : Reports!Dispatched(p, d) = 0} = Reports!UncoveredBranchesPage(p)
    BY DEF Reports!Dispatched, Reports!UncoveredBranchesPage
<1>3. Reports!MonthlySummaryPage(p).notDispatched = Reports!Cardinality(Reports!UncoveredBranchesPage(p))
    BY <1>2 DEF Reports!MonthlySummaryPage
<1> QED
    BY <1>1, <1>3

\* The grid, of the active categories only, shows no more than the summary.
LEMMA GridFits ==
    ASSUME ReportsInv, NEW p \in Reports!Pickable, Reports!NeverRewound(Reports!Registered)
    PROVE  Reports!CategoryDetailPage(p).cases <= Reports!MonthlySummaryPage(p).cases
<1>1. PICK C : C = Reports!ActiveCategories
    OBVIOUS
<1>2. PICK row : row = [c \in C |-> FigureOf(p, Keyed(Bank, CategoryOf, c))]
    OBVIOUS
<1>3. Reports!CategoryDetailPage(p) = TotalOf(row, C)
    BY <1>1, <1>2, GridAre, PerformanceAre DEF Reports!CategoryDetailPage
<1>4. PICK S : S = {f \in Bank : CategoryOf[f] \in C}
    OBVIOUS
<1>5. S \in SUBSET Bank /\ S \in SUBSET Findings
    BY <1>4, BankIs
<1>6. TotalOf(row, C) = FigureOf(p, S)
    <2>1. \A c \in C : row[c] = FigureOf(p, Keyed(S, CategoryOf, c))
        <3>1. \A c \in C : Keyed(S, CategoryOf, c) = Keyed(Bank, CategoryOf, c)
            BY <1>4 DEF Keyed
        <3> QED
            BY <1>2, <3>1
    <2>2. \A f \in S : CategoryOf[f] \in C
        BY <1>4
    <2>3. IsFiniteSet(C)
        BY <1>1, UnitsListed
    <2> QED
        BY <1>5, <2>1, <2>2, <2>3, UnitsCover
<1>7. FigureOf(p, S).cases <= FigureOf(p, Bank).cases
    BY <1>5, BankIs, PartsUnrewound, FewerFindings
<1>8. Reports!MonthlySummaryPage(p).cases = FigureOf(p, Bank).cases
    BY AllCasesAre DEF Reports!MonthlySummaryPage
<1> QED
    BY <1>3, <1>6, <1>7, <1>8

\* The snapshot of today shows no more than the summary of that month.
LEMMA SnapshotFits ==
    ASSUME ReportsInv, liveRule # Reports!NoRule, NEW p \in Months,
           Reports!NeverRewound(Reports!Registered)
    PROVE  Reports!SnapshotPage(p, today).cases <= Reports!MonthlySummaryPage(p).scored.cases
<1>1. p \in Reports!Pickable
    BY DEF Reports!Pickable, Months
<1>2. PICK K : K = Reports!ReportDistricts
    OBVIOUS
<1>3. PICK shot : shot = [d \in K |-> Reports!SnapshotRow(p, d, today)]
    OBVIOUS
<1>4. PICK line : line = [d \in K |-> Reports!Scored(p, d)]
    OBVIOUS
<1>5. PICK a : a = [d \in K |-> shot[d].cases]
    OBVIOUS
<1>6. PICK b : b = [d \in K |-> line[d].cases]
    OBVIOUS
<1>7. Reports!SnapshotPage(p, today).cases = SumFunctionOnSet(a, K)
    <2>1. DOMAIN shot = K
        BY <1>3
    <2>2. Reports!SnapshotPage(p, today) = TotalOf(shot, K)
        BY <1>2, <1>3, <2>1, PageTotal DEF Reports!SnapshotPage
    <2> QED
        BY <1>5, <2>2 DEF TotalOf
<1>8. Reports!MonthlySummaryPage(p).scored.cases = SumFunctionOnSet(b, K)
    <2>1. DOMAIN line = K
        BY <1>4
    <2>2. Reports!MonthlySummaryPage(p).scored = Reports!TotalRow(line)
        BY <1>2, <1>4 DEF Reports!MonthlySummaryPage
    <2>3. Reports!TotalRow(line) = TotalOf(line, K)
        BY <2>1, PageTotal
    <2> QED
        BY <1>6, <2>2, <2>3 DEF TotalOf
<1>9. ASSUME NEW d \in K PROVE a[d] \in Int /\ b[d] \in Int /\ a[d] <= b[d]
    <2>1. shot[d] = FigureOf(p, DatedAt(d))
        BY <1>3, <1>9, SnapshotIs
    <2>2. line[d] = FigureOf(p, ScoredAt(d))
        BY <1>1, <1>4, <1>9, PartsUnrewound, DistrictCounts DEF Reports!Scored
    <2>3. /\ DatedAt(d) \in SUBSET ScoredAt(d) /\ DatedAt(d) \in SUBSET Findings
          /\ ScoredAt(d) \in SUBSET Findings
          /\ Unrewound(p, ScoredAt(d))
        BY ScoredAtIs, PartsUnrewound DEF DatedAt
    <2>4. FigureOf(p, DatedAt(d)).cases \in Int /\ FigureOf(p, ScoredAt(d)).cases \in Int
        BY <1>1, <2>3, FigureIs
    <2>5. FigureOf(p, DatedAt(d)).cases <= FigureOf(p, ScoredAt(d)).cases
        BY <1>1, <2>3, FewerFindings
    <2>6. a[d] = FigureOf(p, DatedAt(d)).cases /\ b[d] = FigureOf(p, ScoredAt(d)).cases
        BY <1>5, <1>6, <2>1, <2>2
    <2> QED
        BY <2>4, <2>5, <2>6
<1>10. SumFunctionOnSet(a, K) <= SumFunctionOnSet(b, K)
    BY <1>2, <1>9, UnitsListed, SumOnMonotone
<1> QED
    BY <1>7, <1>8, <1>10

\* A column of a week's section
LEMMA WeeklyColumn ==
    ASSUME ReportsInv, NEW c, NEW last \in Nat, NEW this \in Nat,
           NEW k \in {"previousBalance", "additional", "rectified", "currentBalance"},
           NEW a, a = [d \in Reports!ReportDistricts |-> Reports!WeeklyRow(c, d, last, this)[k]]
    PROVE  /\ Reports!WeeklyPage(c, last, this)[k] = SumFunctionOnSet(a, Reports!ReportDistricts)
           /\ SumFunctionOnSet(a, Reports!ReportDistricts) \in Int
           /\ \A d \in Reports!ReportDistricts : a[d] \in Int
<1>1. PICK K : K = Reports!ReportDistricts
    OBVIOUS
<1>2. PICK rows : rows = [d \in K |-> Reports!WeeklyRow(c, d, last, this)]
    OBVIOUS
<1>3. [d \in K |-> rows[d][k]] = a
    BY <1>1, <1>2
<1>4. Reports!WeeklyPage(c, last, this) =
        [j \in {"previousBalance", "additional", "rectified", "currentBalance"} |->
            Reports!SumFunction([d \in K |-> rows[d][j]])]
    BY <1>1, <1>2 DEF Reports!WeeklyPage
<1>5. Reports!WeeklyPage(c, last, this)[k] = Reports!SumFunction(a)
    BY <1>3, <1>4
<1>6. DOMAIN a = K
    BY <1>1
<1>7. Reports!SumFunction(a) = SumFunctionOnSet(a, K)
    BY <1>6, SameSums
<1>8. ASSUME NEW d \in K PROVE a[d] \in Int
    <2>1. PICK row : row = Reports!WeeklyRow(c, d, last, this)
        OBVIOUS
    <2>2. /\ row.previousBalance \in Int /\ row.additional \in Int
          /\ row.currentBalance \in Int /\ row.rectified \in Int
        BY <2>1, WeeklyRowIs
    <2>3. a[d] = row[k]
        BY <1>1, <1>8, <2>1
    <2> QED
        BY <2>2, <2>3
<1>9. SumFunctionOnSet(a, K) \in Int
    BY <1>1, <1>8, UnitsListed, SumOnInt
<1> QED
    BY <1>1, <1>5, <1>7, <1>8, <1>9

\* A week's balances, taken column by column
LEMMA WeekAddsUp ==
    ASSUME ReportsInv, NEW c, NEW last \in Nat, NEW this \in Nat, NEW week, week = Reports!WeeklyPage(c, last, this)
    PROVE  week.previousBalance + week.additional - week.rectified = week.currentBalance
<1>1. PICK K : K = Reports!ReportDistricts
    OBVIOUS
<1>2. PICK a1 : a1 = [d \in K |-> Reports!WeeklyRow(c, d, last, this)["previousBalance"]]
    OBVIOUS
<1>3. PICK a2 : a2 = [d \in K |-> Reports!WeeklyRow(c, d, last, this)["additional"]]
    OBVIOUS
<1>4. PICK a3 : a3 = [d \in K |-> Reports!WeeklyRow(c, d, last, this)["rectified"]]
    OBVIOUS
<1>5. PICK a4 : a4 = [d \in K |-> Reports!WeeklyRow(c, d, last, this)["currentBalance"]]
    OBVIOUS
<1>6. PICK s : s = [d \in K |-> a1[d] + a2[d]]
    OBVIOUS
<1>7. week["previousBalance"] = SumFunctionOnSet(a1, K) /\ SumFunctionOnSet(a1, K) \in Int /\ \A d \in K : a1[d] \in Int
    BY <1>1, <1>2, WeeklyColumn
<1>8. week["additional"] = SumFunctionOnSet(a2, K) /\ SumFunctionOnSet(a2, K) \in Int /\ \A d \in K : a2[d] \in Int
    BY <1>1, <1>3, WeeklyColumn
<1>9. week["rectified"] = SumFunctionOnSet(a3, K) /\ SumFunctionOnSet(a3, K) \in Int /\ \A d \in K : a3[d] \in Int
    BY <1>1, <1>4, WeeklyColumn
<1>10. week["currentBalance"] = SumFunctionOnSet(a4, K) /\ SumFunctionOnSet(a4, K) \in Int /\ \A d \in K : a4[d] \in Int
    BY <1>1, <1>5, WeeklyColumn
<1>11. IsFiniteSet(K)
    BY <1>1, UnitsListed
<1>12. \A d \in K : s[d] = a1[d] + a2[d]
    BY <1>6
<1>13. \A d \in K : s[d] = a3[d] + a4[d]
    <2> SUFFICES ASSUME NEW d \in K PROVE s[d] = a3[d] + a4[d]
        OBVIOUS
    <2>1. PICK row : row = Reports!WeeklyRow(c, d, last, this)
        OBVIOUS
    <2>2. row.previousBalance + row.additional = row.rectified + row.currentBalance
        BY <2>1, WeeklyRowIs
    <2>3. a1[d] = row.previousBalance /\ a2[d] = row.additional /\ a3[d] = row.rectified /\ a4[d] = row.currentBalance
        BY <1>2, <1>3, <1>4, <1>5, <2>1
    <2> QED
        BY <1>12, <2>2, <2>3
<1>14. SumFunctionOnSet(s, K) = SumFunctionOnSet(a1, K) + SumFunctionOnSet(a2, K)
    BY <1>7, <1>8, <1>11, <1>12, SumOnPlus
<1>15. SumFunctionOnSet(s, K) = SumFunctionOnSet(a3, K) + SumFunctionOnSet(a4, K)
    BY <1>9, <1>10, <1>11, <1>13, SumOnPlus
<1>16. PICK v1, v2, v3, v4 \in Int : /\ v1 = week["previousBalance"] /\ v2 = week["additional"]
                                     /\ v3 = week["rectified"] /\ v4 = week["currentBalance"]
    BY <1>7, <1>8, <1>9, <1>10
<1>17. v1 + v2 = v3 + v4
    BY <1>7, <1>8, <1>9, <1>10, <1>14, <1>15, <1>16
<1>18. v1 + v2 - v3 = v4
    BY <1>17
<1> QED
    BY <1>16, <1>18

\* Pages that answer the same question show the same total.
LEMMA TemplatesAgreeHere == ReportsInv => Reports!TemplatesAgree
<1> SUFFICES ASSUME ReportsInv PROVE Reports!TemplatesAgree
    OBVIOUS
<1>1. ASSUME NEW p \in Reports!Pickable, p # Reports!AllPeriods, liveRule # Reports!NoRule,
             Reports!NeverRewound(Reports!Registered)
      PROVE  Reports!SnapshotPage(p, today).cases <= Reports!MonthlySummaryPage(p).scored.cases
    BY <1>1, SnapshotFits DEF Reports!Pickable, Months
<1>2. 1 \in Nat /\ today \in Nat
    BY DEF ReportsInv
<1>3. \A c : Reports!WeeklyPage(c, 1, today).previousBalance + Reports!WeeklyPage(c, 1, today).additional
               - Reports!WeeklyPage(c, 1, today).rectified = Reports!WeeklyPage(c, 1, today).currentBalance
    BY <1>2, WeekAddsUp
<1> QED
    BY <1>1, <1>3, RankingsAgree, SummariesAgree, GridFits DEF Reports!TemplatesAgree

\* The scored findings of a unit of any kind
LEMMA UnitCounts ==
    ASSUME ReportsInv, NEW p \in Reports!Pickable, Reports!NeverRewound(Reports!Registered)
    PROVE  /\ ScoredIn(Reports!Registered) \in SUBSET Findings
           /\ ScoredIn(Reports!Registered) \in SUBSET Reports!Registered
           /\ Reports!EligibleCounts(p, Reports!Registered) = FigureOf(p, ScoredIn(Reports!Registered))
           /\ \A d : Reports!EligibleCounts(p, Reports!OfDistrict(Reports!Registered, d))
                        = FigureOf(p, Keyed(ScoredIn(Reports!Registered), DistrictOf, d))
           /\ \A s : Reports!EligibleCounts(p, {f \in Reports!Registered : ledger[f].source = s})
                        = FigureOf(p, Keyed(ScoredIn(Reports!Registered), SourceOf, s))
<1>1. PICK S : S = ScoredIn(Reports!Registered)
    OBVIOUS
<1>2. S \in SUBSET Reports!Registered /\ S \in SUBSET Findings
    BY <1>1 DEF ScoredIn, Reports!Registered
<1>3. Reports!EligibleCounts(p, Reports!Registered) = FigureOf(p, S)
    BY <1>1, PartsUnrewound, CountsAre
<1>4. \A f \in Reports!Registered : DistrictOf[f] = ledger[f].district /\ SourceOf[f] = ledger[f].source
    BY DEF DistrictOf, SourceOf, Reports!Registered
<1>5. ASSUME NEW d
      PROVE  Reports!EligibleCounts(p, Reports!OfDistrict(Reports!Registered, d)) = FigureOf(p, Keyed(S, DistrictOf, d))
    <2>1. PICK T : T = Reports!OfDistrict(Reports!Registered, d)
        OBVIOUS
    <2>2. T \in SUBSET Reports!Registered
        BY <2>1 DEF Reports!OfDistrict
    <2>3. ScoredIn(T) = Keyed(S, DistrictOf, d)
        BY <1>1, <1>4, <2>1 DEF ScoredIn, Keyed, Reports!OfDistrict
    <2> QED
        BY <2>1, <2>2, <2>3, PartsUnrewound, CountsAre
<1>6. ASSUME NEW s
      PROVE  Reports!EligibleCounts(p, {f \in Reports!Registered : ledger[f].source = s})
                = FigureOf(p, Keyed(S, SourceOf, s))
    <2>1. PICK T : T = {f \in Reports!Registered : ledger[f].source = s}
        OBVIOUS
    <2>2. T \in SUBSET Reports!Registered
        BY <2>1
    <2>3. ScoredIn(T) = Keyed(S, SourceOf, s)
        BY <1>1, <1>4, <2>1 DEF ScoredIn, Keyed
    <2> QED
        BY <2>1, <2>2, <2>3, PartsUnrewound, CountsAre
<1> QED
    BY <1>1, <1>2, <1>3, <1>5, <1>6

\* The rows of the units and those of the sources add up to the official count.
LEMMA TablesAgree ==
    ASSUME ReportsInv, NEW p \in Reports!Pickable, Reports!NeverRewound(Reports!Registered)
    PROVE  /\ Reports!TotalRow([d \in Districts |-> Reports!PerformanceTable(p)[d].row])
                = Reports!EligibleCounts(p, Reports!Registered)
           /\ Reports!CombinedSources(p, Reports!Registered) = Reports!EligibleCounts(p, Reports!Registered)
           /\ Reports!CaseBars(p, Reports!Registered).outstanding >= 0
<1>1. PICK S : S = ScoredIn(Reports!Registered)
    OBVIOUS
<1>2. S \in SUBSET Findings /\ S \in SUBSET Reports!Registered
    BY <1>1, UnitCounts
<1>3. IsFiniteSet(Districts) /\ IsFiniteSet(Sources)
    BY ReportsAssumption
<1>4. Reports!TotalRow([d \in Districts |-> Reports!PerformanceTable(p)[d].row]) = FigureOf(p, S)
    <2>1. PICK line : line = [d \in Districts |-> Reports!EligibleCounts(p, Reports!OfDistrict(Reports!Registered, d))]
        OBVIOUS
    <2>2. [d \in Districts |-> Reports!PerformanceTable(p)[d].row] = line
        BY <2>1 DEF Reports!PerformanceTable
    <2>3. Reports!TotalRow(line) = TotalOf(line, Districts)
        <3>1. DOMAIN line = Districts
            BY <2>1
        <3> QED
            BY <3>1, PageTotal
    <2>4. \A d \in Districts : line[d] = FigureOf(p, Keyed(S, DistrictOf, d))
        BY <1>1, <2>1, UnitCounts
    <2>5. \A f \in S : DistrictOf[f] \in Districts
        BY <1>2, UnitsListed
    <2>6. TotalOf(line, Districts) = FigureOf(p, S)
        BY <1>2, <1>3, <2>4, <2>5, UnitsCover
    <2> QED
        BY <2>2, <2>3, <2>6
<1>5. Reports!CombinedSources(p, Reports!Registered) = FigureOf(p, S)
    <2>1. PICK line : line = [s \in Sources |->
                                Reports!EligibleCounts(p, {f \in Reports!Registered : ledger[f].source = s})]
        OBVIOUS
    <2>2. Reports!CombinedSources(p, Reports!Registered) = Reports!TotalRow(line)
        BY <2>1 DEF Reports!CombinedSources
    <2>3. Reports!TotalRow(line) = TotalOf(line, Sources)
        <3>1. DOMAIN line = Sources
            BY <2>1
        <3> QED
            BY <3>1, PageTotal
    <2>4. \A s \in Sources : line[s] = FigureOf(p, Keyed(S, SourceOf, s))
        BY <1>1, <2>1, UnitCounts
    <2>5. \A f \in S : SourceOf[f] \in Sources
        BY <1>2, UnitsListed
    <2>6. TotalOf(line, Sources) = FigureOf(p, S)
        BY <1>2, <1>3, <2>4, <2>5, UnitsCover
    <2> QED
        BY <2>2, <2>3, <2>6
<1>6. Reports!CaseBars(p, Reports!Registered).outstanding >= 0
    <2>1. PICK n, k \in Nat : n = FigureOf(p, S).cases /\ k = FigureOf(p, S).closed /\ k <= n
        BY <1>2, FigureIs, FigureFits, PartsUnrewound
    <2>2. Reports!CaseBars(p, Reports!Registered).outstanding = n - k
        BY <1>1, <2>1, UnitCounts DEF Reports!CaseBars
    <2> QED
        BY <2>1, <2>2
<1> QED
    BY <1>1, <1>4, <1>5, <1>6, UnitCounts

\* The dashboards' tables tell one story.
LEMMA DashboardsAgreeHere == ReportsInv => Reports!DashboardsAgree
<1> SUFFICES ASSUME ReportsInv, Reports!NeverRewound(Reports!Registered) PROVE Reports!DashboardsAgree
    BY DEF Reports!DashboardsAgree
<1>1. Reports!AllPeriods \in Reports!Pickable
    BY DEF Reports!Pickable
<1>2. Reports!TotalRow(Reports!TrendLine(Reports!Registered))
        = Reports!EligibleCounts(Reports!AllPeriods, Reports!Registered)
    <2>1. PICK S : S = ScoredIn(Reports!Registered)
        OBVIOUS
    <2>2. PICK line : line = Reports!TrendLine(Reports!Registered)
        OBVIOUS
    <2>3. DOMAIN line = Months
        BY <2>2 DEF Reports!TrendLine, Months
    <2>4. \A p \in Months : line[p] = FigureOf(p, S)
        BY <2>1, <2>2, UnitCounts DEF Reports!TrendLine, Reports!Pickable, Months
    <2>5. S \in SUBSET Findings
        BY <1>1, <2>1, UnitCounts
    <2>6. TotalOf(line, Months) = FigureOf(Reports!AllPeriods, S)
        BY <2>4, <2>5, MonthsCover
    <2>7. Reports!EligibleCounts(Reports!AllPeriods, Reports!Registered) = FigureOf(Reports!AllPeriods, S)
        BY <1>1, <2>1, UnitCounts
    <2> QED
        BY <2>2, <2>3, <2>6, <2>7, PageTotal
<1>3. PICK official : official = [p \in Reports!Pickable |-> Reports!EligibleCounts(p, Reports!Registered)]
    OBVIOUS
<1>4. /\ \A p \in Reports!Pickable : official[p] = Reports!EligibleCounts(p, Reports!Registered)
      /\ official[Reports!AllPeriods] = Reports!EligibleCounts(Reports!AllPeriods, Reports!Registered)
    BY <1>1, <1>3
<1>5. \A p \in Reports!Pickable :
        /\ Reports!TotalRow([d \in Districts |-> Reports!PerformanceTable(p)[d].row]) = official[p]
        /\ Reports!CombinedSources(p, Reports!Registered) = official[p]
        /\ Reports!CaseBars(p, Reports!Registered).outstanding >= 0
    BY <1>4, TablesAgree
<1>6. Reports!TotalRow(Reports!TrendLine(Reports!Registered)) = official[Reports!AllPeriods]
    BY <1>2, <1>4
<1> QED
    BY <1>3, <1>5, <1>6, Zenon DEF Reports!DashboardsAgree

-----------------------------------------------------------------------------
(* The register of transfers. *)

\* A transfer leaves a month the finding was in, with no more than it has.
LEMMA LeavesWhereItWas ==
    ASSUME NEW r \in Filed, LeadsOn(r), NEW i \in 1..Len(r.moves), NEW p, r.moves[i].from = p
    PROVE  /\ StaysIn(r.moves, r.home, r.total, p) # {}
           /\ r.moves[i].qty["cases"] \in Nat /\ r.moves[i].qty["cases"] <= r.total["cases"]
<1>1. PICK moves, home, total : moves = r.moves /\ home = r.home /\ total = r.total
    OBVIOUS
<1>2. moves \in Seq(Moving(Months, Counted)) /\ home \in Months /\ total \in Amounts(Counted)
    BY <1>1, LedgersRead
<1>3. PICK stays : stays = Stays(moves, home, total)
    OBVIOUS
<1>4. PICK n \in Nat : n = Len(moves) /\ DOMAIN stays = 1..(n + 1)
    BY <1>2, <1>3, StaysFollow
<1>5. \A j \in 1..n : stays[j + 1].period = moves[j].to
    BY <1>2, <1>3, <1>4, StaysFollow
<1>6. i \in 1..n /\ moves # <<>>
    BY <1>1, <1>4
<1>7. stays[i].period = p
    <2>1. CASE i = 1
        BY <1>1, <1>2, <1>3, <1>6, <2>1, FirstStay
    <2>2. CASE i # 1
        <3>1. PICK j \in 1..n : i = j + 1
            BY <1>6, <2>2
        <3>2. moves[i].from = moves[j].to
            BY <1>1, <1>4, <1>6, <3>1 DEF LeadsOn
        <3> QED
            BY <1>1, <1>5, <3>1, <3>2
    <2> QED
        BY <2>1, <2>2
<1>8. i \in StaysIn(moves, home, total, p)
    BY <1>3, <1>4, <1>6, <1>7 DEF StaysIn
<1>9. moves[i].qty["cases"] \in Nat
    <2>1. moves[i] \in Moving(Months, Counted)
        BY <1>2, <1>4, <1>6
    <2> QED
        BY <2>1 DEF Moving, Amounts, Counted
<1> QED
    BY <1>1, <1>8, <1>9 DEF LeadsOn

\* One finding leaves a month at most once.
LEMMA HopsOfMonth ==
    ASSUME ReportsInv, NEW p \in Months, NEW H, H = Reports!Hops(p, Reports!AllPeriods)
    PROVE  /\ \A h \in H : LET amount == ledger[h.finding].moves[h.number].qty["cases"]
                           IN  /\ h.finding \in {g \in Reports!Registered : Reports!ResidentIn(g, p)}
                               /\ amount \in Nat /\ amount <= CasesOf(Reports!AllPeriods)[h.finding]
           /\ \A h, k \in H : h.finding = k.finding => h = k
<1>1. p # Reports!AllPeriods
    BY MonthsAre DEF Reports!AllPeriods
<1>2. ASSUME NEW h \in H
      PROVE  /\ h.finding \in Reports!Registered /\ h.number \in DOMAIN ledger[h.finding].moves
             /\ ledger[h.finding].moves[h.number].from = p
             /\ h = [finding |-> h.finding, number |-> h.number]
    <2>1. PICK f \in Reports!Registered : \E i \in DOMAIN ledger[f].moves : h = [finding |-> f, number |-> i]
        BY DEF Reports!Hops
    <2>2. PICK i \in DOMAIN ledger[f].moves : h = [finding |-> f, number |-> i]
        BY <2>1
    <2>3. h.finding = f /\ h.number = i
        BY <2>2
    <2>4. ledger[h.finding].moves[h.number].from = p
        BY <1>1 DEF Reports!Hops
    <2> QED
        BY <2>2, <2>3, <2>4
<1>3. ASSUME NEW f \in Reports!Registered
      PROVE  /\ f \in Findings /\ ledger[f] # Reports!NoRecord /\ ledger[f] \in Filed
             /\ LeadsOn(ledger[f]) /\ DOMAIN ledger[f].moves = 1..Len(ledger[f].moves)
             /\ Len(ledger[f].moves) \in Nat
    <2>1. f \in Findings /\ ledger[f] # Reports!NoRecord
        BY DEF Reports!Registered
    <2>2. ledger[f] \in Filed /\ LeadsOn(ledger[f])
        BY <2>1, FiledThere DEF InOrder
    <2>3. ledger[f].moves \in Seq(Moving(Months, Counted))
        BY <2>2, LedgersRead
    <2> QED
        BY <2>1, <2>2, <2>3
<1>4. ASSUME NEW h \in H
      PROVE  /\ h.finding \in {g \in Reports!Registered : Reports!ResidentIn(g, p)}
             /\ ledger[h.finding].moves[h.number].qty["cases"] \in Nat
             /\ ledger[h.finding].moves[h.number].qty["cases"] <= CasesOf(Reports!AllPeriods)[h.finding]
    <2>1. PICK f, i : /\ f \in Reports!Registered /\ i \in 1..Len(ledger[f].moves)
                      /\ f = h.finding /\ i = h.number /\ ledger[f].moves[i].from = p
        BY <1>2, <1>3
    <2>2. PICK r : r = ledger[f] /\ r \in Filed /\ LeadsOn(r)
        BY <1>3, <2>1
    <2>3. /\ StaysIn(r.moves, r.home, r.total, p) # {}
          /\ r.moves[i].qty["cases"] \in Nat /\ r.moves[i].qty["cases"] <= r.total["cases"]
        BY <2>1, <2>2, LeavesWhereItWas
    <2>4. Reports!ResidentIn(f, p)
        BY <2>2, <2>3, FiguresAre
    <2>5. CasesOf(Reports!AllPeriods)[f] = r.total["cases"]
        BY <1>3, <2>1, <2>2, FiguresAre DEF CasesOf
    <2> QED
        BY <2>1, <2>2, <2>3, <2>4, <2>5
<1>5. ASSUME NEW h \in H, NEW k \in H, h.finding = k.finding PROVE h = k
    <2>1. PICK f, i, j :
            /\ f \in Reports!Registered /\ i \in 1..Len(ledger[f].moves) /\ j \in 1..Len(ledger[f].moves)
            /\ f = h.finding /\ f = k.finding /\ i = h.number /\ j = k.number
            /\ ledger[f].moves[i].from = p /\ ledger[f].moves[j].from = p
        BY <1>2, <1>3, <1>5
    <2>2. p \in Nat /\ Len(ledger[f].moves) \in Nat
        BY <1>3, MonthsAre
    <2>3. \A a, b \in 1..Len(ledger[f].moves) :
            a < b => ledger[f].moves[a].from < ledger[f].moves[b].from
        BY <1>3, <2>1 DEF LeadsOn
    <2>4. i = j
        <3>1. i \in Nat /\ j \in Nat
            BY <2>1, <2>2
        <3>2. ASSUME i < j PROVE FALSE
            <4>1. ledger[f].moves[i].from < ledger[f].moves[j].from
                BY <2>1, <2>3, <3>2
            <4>2. p < p
                BY <2>1, <4>1
            <4> QED
                BY <2>2, <4>2
        <3>3. ASSUME j < i PROVE FALSE
            <4>1. ledger[f].moves[j].from < ledger[f].moves[i].from
                BY <2>1, <2>3, <3>3
            <4>2. p < p
                BY <2>1, <4>1
            <4> QED
                BY <2>2, <4>2
        <3> QED
            BY <3>1, <3>2, <3>3
    <2> QED
        BY <1>2, <2>1, <2>4
<1> QED
    BY <1>4, <1>5

\* A hop's cases were in the month it left.
LEMMA RegisterFits == ReportsInv => Reports!RegisterAddsUp
<1> SUFFICES ASSUME ReportsInv, NEW p \in Months
             PROVE  Reports!TransferredPage(p, Reports!AllPeriods).cases
                      <= Reports!SumFunction([f \in {g \in Reports!Registered : Reports!ResidentIn(g, p)} |->
                                                  Reports!Total(f).cases])
    BY DEF Reports!RegisterAddsUp, Months
<1>1. PICK H : H = Reports!Hops(p, Reports!AllPeriods)
    OBVIOUS
<1>2. PICK R : R = {g \in Reports!Registered : Reports!ResidentIn(g, p)}
    OBVIOUS
<1>3. R \in SUBSET Findings /\ IsFiniteSet(R) /\ \A f \in R : ledger[f] # Reports!NoRecord
    <2>1. R \in SUBSET Findings /\ \A f \in R : ledger[f] # Reports!NoRecord
        BY <1>2 DEF Reports!Registered
    <2> QED
        BY <2>1, ReportsAssumption, FS_Subset
<1>4. PICK key : key = [h \in H |-> h.finding]
    OBVIOUS
<1>5. PICK g : g = [h \in H |-> ledger[h.finding].moves[h.number].qty.cases]
    OBVIOUS
<1>6. \A h \in H : key[h] \in R /\ g[h] \in Nat /\ g[h] <= CasesOf(Reports!AllPeriods)[key[h]]
    BY <1>1, <1>2, <1>4, <1>5, HopsOfMonth
<1>7. \A h, k \in H : key[h] = key[k] => h = k
    BY <1>1, <1>4, HopsOfMonth
<1>8. IsFiniteSet(H)
    <2>1. key \in Injection(H, R)
        BY <1>4, <1>6, <1>7 DEF Injection, IsInjective
    <2> QED
        BY <1>3, <2>1, FS_Injection
<1>9. PICK T : T = {f \in R : \E h \in H : key[h] = f}
    OBVIOUS
<1>10. T \in SUBSET R /\ IsFiniteSet(T)
    BY <1>3, <1>9, FS_Subset
<1>11. PICK amount : amount = [f \in T |-> g[CHOOSE h \in H : key[h] = f]]
    OBVIOUS
<1>12. \A h \in H : key[h] \in T /\ amount[key[h]] = g[h]
    BY <1>6, <1>7, <1>9, <1>11
<1>13. \A f \in T : amount[f] \in Nat /\ amount[f] <= CasesOf(Reports!AllPeriods)[f]
    BY <1>6, <1>9, <1>12
<1>14. SumFunctionOnSet(g, H) = SumFunctionOnSet(amount, T)
    <2>1. \A f \in T : \E h \in H : key[h] = f
        BY <1>9
    <2>2. \A f \in T : amount[f] \in Int
        BY <1>13
    <2>3. \A h \in H : g[h] = amount[key[h]]
        BY <1>12
    <2>4. \A h \in H : key[h] \in T
        BY <1>12
    <2> QED
        BY <1>7, <1>8, <1>10, <2>1, <2>2, <2>3, <2>4, SumOnRenamed
<1>15. \A f \in R : CasesOf(Reports!AllPeriods)[f] \in Nat
    BY <1>3, FiguresFit DEF Reports!Pickable
<1>16. SumFunctionOnSet(amount, T) <= SumFunctionOnSet(CasesOf(Reports!AllPeriods), T)
    <2>1. \A f \in T : amount[f] \in Int
        BY <1>13
    <2>2. \A f \in T : CasesOf(Reports!AllPeriods)[f] \in Int
        BY <1>10, <1>15
    <2>3. \A f \in T : amount[f] <= CasesOf(Reports!AllPeriods)[f]
        BY <1>13
    <2> QED
        BY <1>10, <2>1, <2>2, <2>3, SumOnMonotone
<1>17. SumFunctionOnSet(CasesOf(Reports!AllPeriods), T) <= SumFunctionOnSet(CasesOf(Reports!AllPeriods), R)
    BY <1>3, <1>10, <1>15, SumOfPart
<1>18. Reports!TransferredPage(p, Reports!AllPeriods).cases = SumFunctionOnSet(g, H)
    <2>1. DOMAIN g = H
        BY <1>5
    <2>2. Reports!TransferredPage(p, Reports!AllPeriods).cases = Reports!SumFunction(g)
        BY <1>1, <1>5 DEF Reports!TransferredPage
    <2> QED
        BY <2>1, <2>2, SameSums
<1>19. PICK all : all = [f \in R |-> Reports!Total(f).cases]
    OBVIOUS
<1>20. Reports!SumFunction(all) = SumFunctionOnSet(CasesOf(Reports!AllPeriods), R)
    <2>1. DOMAIN all = R
        BY <1>19
    <2>2. \A f \in R : all[f] = CasesOf(Reports!AllPeriods)[f]
        BY <1>3, <1>19 DEF CasesOf
    <2>3. \A f \in R : CasesOf(Reports!AllPeriods)[f] \in Int
        BY <1>15
    <2>4. SumFunctionOnSet(all, R) = SumFunctionOnSet(CasesOf(Reports!AllPeriods), R)
        BY <1>3, <2>2, <2>3, SumOnSame
    <2> QED
        BY <2>1, <2>4, SameSums
<1>21. /\ SumFunctionOnSet(g, H) \in Nat /\ SumFunctionOnSet(CasesOf(Reports!AllPeriods), T) \in Nat
       /\ SumFunctionOnSet(CasesOf(Reports!AllPeriods), R) \in Nat
    <2>1. \A h \in H : g[h] \in Nat
        BY <1>6
    <2>2. SumFunctionOnSet(g, H) \in Nat
        BY <1>8, <2>1, SumOnNat
    <2>3. SumFunctionOnSet(CasesOf(Reports!AllPeriods), R) \in Nat
        BY <1>3, <1>15, SumOnNat
    <2>4. \A f \in T : CasesOf(Reports!AllPeriods)[f] \in Nat
        BY <1>10, <1>15
    <2>5. SumFunctionOnSet(CasesOf(Reports!AllPeriods), T) \in Nat
        BY <1>10, <2>4, SumOnNat
    <2> QED
        BY <2>2, <2>3, <2>5
<1>22. SumFunctionOnSet(g, H) <= SumFunctionOnSet(CasesOf(Reports!AllPeriods), R)
    BY <1>14, <1>16, <1>17, <1>21
<1> QED
    BY <1>2, <1>18, <1>19, <1>20, <1>22

\* Reports: in every reachable state rows and weeks add up, and the pages that
\* show the same figure show the same number; months add up and close no more
\* than they answer for wherever no finding was reopened after a transfer.
THEOREM ReportsAlwaysAddUp == Spec => []ReportsAddUp
<1>1. Init => ReportsInv
    BY ReportsStart
<1>2. ReportsInv /\ [Next]_vars => ReportsInv'
    BY ReportsStayInOrder
<1>3. ReportsInv => ReportsAddUp
    BY DistrictsCoverBank, HistoriesAddUp, PercentagesFit, SnapshotsMatch, WeeksBalance, TemplatesAgreeHere,
       DashboardsAgreeHere, RegisterFits DEF ReportsAddUp, Reports!PagesAgree
<1> QED
    BY <1>1, <1>2, <1>3, PTL DEF Spec

-----------------------------------------------------------------------------
(* What was reported stands. *)

\* What the rows of a ledger had closed by a day
ClosedThen(rows, day) ==
    SumOf([i \in DOMAIN rows |-> IF rows[i].day <= day THEN rows[i].qty["cases"] ELSE 0])

\* What is registered of a finding, and on whose behalf
SameFile(r, s) ==
    /\ s.district = r.district /\ s.category = r.category /\ s.source = r.source
    /\ s.date = r.date /\ s.total = r.total
    /\ s.bankScope = r.bankScope /\ s.imported = r.imported

\* A finding that was in a period has been there ever since.
StaysKnown(r, s) ==
    \A p \in Months : StaysIn(r.moves, r.home, r.total, p) # {} => StaysIn(s.moves, s.home, s.total, p) # {}

\* A closure of a later day changes nothing of an earlier one.
LEMMA ClosedThenStands ==
    ASSUME NEW rows \in Seq(Closing), NEW c \in Closing, NEW day \in Nat, day < c.day
    PROVE  ClosedThen(Append(rows, c), day) = ClosedThen(rows, day)
<1>1. PICK n \in Nat : n = Len(rows) /\ DOMAIN rows = 1..n
    OBVIOUS
<1>2. PICK more : more = Append(rows, c)
    OBVIOUS
<1>3. /\ DOMAIN more = 1..(n + 1) /\ more[n + 1] = c
      /\ \A i \in 1..n : more[i] = rows[i]
    BY <1>1, <1>2
<1>4. \A i \in 1..n : rows[i].day \in Nat /\ rows[i].qty["cases"] \in Nat
    <2>1. \A i \in 1..n : rows[i] \in Closing
        BY <1>1
    <2> QED
        BY <2>1 DEF Closing, Amounts, Counted
<1>5. c.day \in Nat
    BY DEF Closing
<1>6. PICK w : w = [i \in 1..n |-> IF rows[i].day <= day THEN rows[i].qty["cases"] ELSE 0]
    OBVIOUS
<1>7. PICK v : v = [i \in 1..(n + 1) |-> IF more[i].day <= day THEN more[i].qty["cases"] ELSE 0]
    OBVIOUS
<1>8. w \in Seq(Int) /\ Len(w) = n
    <2>1. w \in [1..n -> Int]
        BY <1>4, <1>6
    <2> QED
        BY <2>1, IntsInOrder
<1>9. v = Append(w, 0)
    <2>1. PICK one : one = Append(w, 0)
        OBVIOUS
    <2>2. /\ one \in Seq(Int) /\ Len(one) = n + 1
          /\ \A i \in 1..(n + 1) : one[i] = IF i = n + 1 THEN 0 ELSE w[i]
        BY <1>8, <2>1, IntAppended
    <2>3. one = [i \in 1..(n + 1) |-> one[i]]
        BY <2>2
    <2>4. \A i \in 1..n : i \in 1..(n + 1) /\ i # n + 1
        OBVIOUS
    <2>5. \A i \in 1..n : one[i] = v[i]
        BY <1>3, <1>6, <1>7, <2>2, <2>4
    <2>6. one[n + 1] = 0 /\ v[n + 1] = 0
        BY <1>3, <1>5, <1>7, <2>2
    <2>7. \A i \in 1..(n + 1) : i = n + 1 \/ i \in 1..n
        OBVIOUS
    <2>8. \A i \in 1..(n + 1) : one[i] = v[i]
        BY <2>5, <2>6, <2>7
    <2> QED
        BY <1>7, <2>1, <2>3, <2>8
<1>10. SumOf(v) = SumOf(w) + 0
    BY <1>8, <1>9, SumOfAppend
<1>11. SumOf(w) \in Nat
    <2>1. w \in Seq(Nat)
        BY <1>4, <1>6
    <2> QED
        BY <2>1, SumOfNats
<1>12. SumOf(v) = SumOf(w)
    BY <1>10, <1>11
<1>13. ClosedThen(rows, day) = SumOf(w)
    BY <1>1, <1>6 DEF ClosedThen
<1>14. ClosedThen(more, day) = SumOf(v)
    BY <1>3, <1>7 DEF ClosedThen
<1> QED
    BY <1>2, <1>12, <1>13, <1>14

\* What a closure, a transfer or a reopening keeps of an official finding: what is
\* registered, where it was, and what was closed before today unless it takes it all back
OfficialKept(r, s) ==
    /\ r.stage = "official" /\ s.stage = "official" /\ SameFile(r, s) /\ StaysKnown(r, s)
    /\ \/ \A day \in 1..(today - 1) : ClosedThen(s.closures, day) = ClosedThen(r.closures, day)
       \/ r.closures # <<>> /\ s.closures = <<>>

\* A finding goes on covering its branch,
CoverKept(r, s) ==
    /\ s # Reports!NoRecord /\ StaysKnown(r, s)
    /\ s.district = r.district /\ s.source = r.source
    /\ s.bankScope = r.bankScope /\ s.imported = r.imported

\* or is withdrawn from it before its approval.
Uncovered(r, s) ==
    /\ r.stage \in Reports!EditableStages \cup {"rejected"}
    /\ \/ s = Reports!NoRecord
       \/ <<r.district, r.source, r.home>> # <<s.district, s.source, s.home>>
       \/ s.bankScope

\* A step writes one official finding, one that is not official or not there, or none but
\* those of an import it reverses.
OfficialWritten ==
    \E f \in Findings, r, s \in Filed :
        r = ledger[f] /\ ledger' = [ledger EXCEPT ![f] = s] /\ OfficialKept(r, s)

UnofficialWritten ==
    \E f \in Findings : \E s \in {Reports!NoRecord} \cup Filed :
        /\ ledger' = [ledger EXCEPT ![f] = s]
        /\ \/ ledger[f] = Reports!NoRecord
           \/ /\ ledger[f].stage # "official"
              /\ CoverKept(ledger[f], s) \/ Uncovered(ledger[f], s) \/ ledger[f].bankScope

ImportedGone ==
    \A f \in Findings : ledger'[f] = ledger[f] \/ (ledger[f].imported /\ ledger'[f] = Reports!NoRecord)

\* Where nothing was transferred, a finding was in its own period only.
LEMMA NeverMoved ==
    ASSUME NEW r, NEW s, r.moves = <<>>, s.moves = <<>>, r.home = s.home
    PROVE  StaysKnown(r, s)
<1>1. ASSUME NEW x, x.moves = <<>>
      PROVE  \A p : StaysIn(x.moves, x.home, x.total, p) # {} <=> x.home = p
    <2>1. PICK stays : stays = Stays(x.moves, x.home, x.total)
        OBVIOUS
    <2>2. stays = << [period |-> x.home, arrived |-> x.total] >>
        BY <1>1, <2>1 DEF Stays
    <2>3. DOMAIN stays = {1} /\ stays[1].period = x.home
        BY <2>2
    <2>4. \A p : StaysIn(x.moves, x.home, x.total, p) = {i \in DOMAIN stays : stays[i].period = p}
        BY <2>1 DEF StaysIn
    <2> QED
        BY <2>3, <2>4
<1> QED
    BY <1>1 DEF StaysKnown

\* A finding keeps its own stays.
LEMMA OwnStays == \A r : StaysKnown(r, r)
BY DEF StaysKnown

\* Filing: what is registered, imported or edited is not official yet;
LEMMA FiledAnew ==
    ASSUME ReportsInv, NEW f \in Findings, NEW d \in Districts, NEW c \in Categories, NEW s \in Sources,
           NEW p \in Months, NEW date \in Nat, NEW n \in Nat,
           \/ Reports!Register(f, d, c, s, p, date, n)
           \/ Reports!Edit(f, d, c, s, p, date, n)
           \/ \E done \in Nat, q \in Months : done <= n /\ Reports!Import(f, d, c, s, p, date, n, done, q)
    PROVE  UnofficialWritten
<1>1. CASE Reports!Register(f, d, c, s, p, date, n)
    BY <1>1, RegisterWrites DEF UnofficialWritten
<1>2. CASE \E done \in Nat, q \in Months : done <= n /\ Reports!Import(f, d, c, s, p, date, n, done, q)
    BY <1>2, ImportWrites DEF UnofficialWritten
<1>3. CASE Reports!Edit(f, d, c, s, p, date, n)
    <2>1. PICK was, is \in Filed :
            /\ was = ledger[f] /\ was.stage \in Reports!EditableStages /\ was.moves = <<>>
            /\ is.moves = <<>> /\ is.closures = <<>>
            /\ is.bankScope = was.bankScope /\ is.imported = was.imported
            /\ ledger' = [ledger EXCEPT ![f] = is] /\ today' = today
        BY <1>3, EditWrites
    <2>2. CASE is.district = was.district /\ is.source = was.source /\ is.home = was.home
        <3>1. StaysKnown(was, is)
            BY <2>1, <2>2, NeverMoved
        <3> QED
            BY <2>1, <2>2, <3>1, NoRecordIsNotFiled DEF UnofficialWritten, CoverKept, Reports!EditableStages
    <2>3. CASE ~(is.district = was.district /\ is.source = was.source /\ is.home = was.home)
        BY <2>1, <2>3 DEF UnofficialWritten, Uncovered, Reports!EditableStages
    <2> QED
        BY <2>2, <2>3
<1> QED
    BY <1>1, <1>2, <1>3

\* nor is what is submitted, reviewed or deleted.
LEMMA StageWritten ==
    ASSUME ReportsInv, NEW f \in Findings,
           \/ Reports!Submit(f) \/ Reports!Delete(f)
           \/ \E to \in {"official", "returned", "rejected"} : Reports!Review(f, to)
    PROVE  UnofficialWritten
<1>1. ASSUME NEW was, NEW is, SameLedger(was, is), is \in Filed, is.bankScope = was.bankScope
      PROVE  CoverKept(was, is)
    <2>1. StaysKnown(was, is)
        BY <1>1, OwnStays DEF SameLedger, StaysKnown
    <2> QED
        BY <1>1, <2>1, NoRecordIsNotFiled DEF SameLedger, CoverKept
<1>2. CASE Reports!Submit(f)
    <2>1. PICK was, is \in Filed :
            /\ was = ledger[f] /\ was.stage \in Reports!EditableStages /\ SameLedger(was, is)
            /\ is.moves = <<>> /\ is.closures = <<>>
            /\ ledger' = [ledger EXCEPT ![f] = is] /\ today' = today
        BY <1>2, SubmitWrites
    <2>2. CASE is.bankScope
        BY <2>1, <2>2 DEF UnofficialWritten, Uncovered, Reports!EditableStages
    <2>3. CASE was.bankScope
        BY <2>1, <2>3 DEF UnofficialWritten, Reports!EditableStages
    <2>4. CASE is.bankScope = was.bankScope
        BY <1>1, <2>1, <2>4 DEF UnofficialWritten, Reports!EditableStages
    <2> QED
        BY <2>1, <2>2, <2>3, <2>4 DEF Filed
<1>3. CASE Reports!Delete(f)
    <2>1. /\ ledger[f] # Reports!NoRecord /\ ledger[f].stage \in {"draft", "rejected"}
          /\ ledger' = [ledger EXCEPT ![f] = Reports!NoRecord]
        BY <1>3 DEF Reports!Delete, Reports!Registered
    <2> QED
        BY <2>1 DEF UnofficialWritten, Uncovered, Reports!EditableStages
<1>4. CASE \E to \in {"official", "returned", "rejected"} : Reports!Review(f, to)
    <2>1. PICK was, is \in Filed :
            /\ was = ledger[f] /\ was.stage = "reviewing" /\ SameLedger(was, is) /\ is.bankScope = was.bankScope
            /\ is.moves = <<>> /\ is.closures = <<>>
            /\ ledger' = [ledger EXCEPT ![f] = is] /\ today' = today
        BY <1>4, ReviewWrites
    <2> QED
        BY <1>1, <2>1 DEF UnofficialWritten
<1> QED
    BY <1>2, <1>3, <1>4

\* Closing, transferring and reopening write an official finding.
LEMMA LedgerWritten ==
    ASSUME ReportsInv, NEW f \in Findings,
           \/ \E n \in Nat : Reports!Close(f, n)
           \/ \E q \in Months : Reports!Transfer(f, q)
           \/ Reports!Reopen(f)
    PROVE  OfficialWritten
<1>1. CASE \E n \in Nat : Reports!Close(f, n)
    <2>1. PICK n \in Nat : Reports!Close(f, n)
        BY <1>1
    <2>2. PICK r, s \in Filed, c \in Closing : ClosureWritten(f, n, r, s, c)
        BY <2>1, CloseWrites
    <2>3. /\ r = ledger[f] /\ r.stage = "official" /\ c.day = today
          /\ ledger' = [ledger EXCEPT ![f] = s]
        BY <2>2 DEF ClosureWritten
    <2>4. /\ SameFile(r, s) /\ s.stage = r.stage /\ s.closures = Append(r.closures, c)
          /\ s.moves = r.moves /\ s.home = r.home /\ s.total = r.total
        BY <2>2 DEF ClosureWritten, SameFile, Filed
    <2>5. StaysKnown(r, s)
        BY <2>4, OwnStays DEF StaysKnown
    <2>6. r.closures \in Seq(Closing)
        BY <2>2 DEF Filed
    <2>7. \A day \in 1..(today - 1) : day \in Nat /\ day < today
        BY DEF ReportsInv
    <2>8. \A day \in 1..(today - 1) : ClosedThen(s.closures, day) = ClosedThen(r.closures, day)
        BY <2>3, <2>4, <2>6, <2>7, ClosedThenStands
    <2>9. OfficialKept(r, s)
        BY <2>3, <2>4, <2>5, <2>8 DEF OfficialKept
    <2> QED
        BY <2>3, <2>9 DEF OfficialWritten
<1>2. CASE \E q \in Months : Reports!Transfer(f, q)
    <2>1. PICK q \in Months : Reports!Transfer(f, q)
        BY <1>2
    <2>2. PICK r, s \in Filed, m \in Moving(Months, Counted) : TransferWritten(f, q, r, s, m)
        BY <2>1, TransferWrites
    <2>3. /\ r = ledger[f] /\ r.stage = "official" /\ m.from = r.home /\ m.to = q
          /\ ledger' = [ledger EXCEPT ![f] = s]
        BY <2>2 DEF TransferWritten
    <2>4. /\ SameFile(r, s) /\ s.stage = r.stage /\ s.closures = r.closures
          /\ s.moves = Append(r.moves, m) /\ s.home = q /\ s.total = r.total
        BY <2>2 DEF TransferWritten, SameFile, Filed
    <2>5. StaysKnown(r, s)
        BY <2>3, <2>4, TransferKeepsStays DEF StaysKnown
    <2>6. OfficialKept(r, s)
        BY <2>3, <2>4, <2>5 DEF OfficialKept
    <2> QED
        BY <2>3, <2>6 DEF OfficialWritten
<1>3. CASE Reports!Reopen(f)
    <2>1. PICK r, s \in Filed :
            /\ r = ledger[f] /\ InOrder(r, today) /\ r.stage = "official" /\ r.closures # <<>>
            /\ s = [r EXCEPT !.closures = <<>>, !.rewound = r.rewound \/ r.moves # <<>>]
            /\ ledger' = [ledger EXCEPT ![f] = s] /\ today' = today
        BY <1>3, ReopenWrites
    <2>2. /\ SameFile(r, s) /\ s.stage = r.stage /\ s.closures = <<>>
          /\ s.moves = r.moves /\ s.home = r.home /\ s.total = r.total
        BY <2>1 DEF SameFile, Filed
    <2>3. StaysKnown(r, s)
        BY <2>2, OwnStays DEF StaysKnown
    <2>4. OfficialKept(r, s)
        BY <2>1, <2>2, <2>3 DEF OfficialKept
    <2> QED
        BY <2>1, <2>4 DEF OfficialWritten
<1> QED
    BY <1>1, <1>2, <1>3

\* So every step writes one or the other, reverses an import, or writes nothing;
LEMMA StepKeeps ==
    ASSUME ReportsInv, Reports!Next
    PROVE  OfficialWritten \/ UnofficialWritten \/ ImportedGone
<1>1. /\ \A date \in Reports!Days : date \in Nat
      /\ \A n \in 1..MaxCases : n \in Nat /\ \A done \in 0..n : done \in Nat /\ done <= n
    BY ReportsAssumption DEF Reports!Days
<1>2. CASE Filings
    BY <1>1, <1>2, FiledAnew DEF Filings, Months
<1>3. CASE Importings
    <2>1. PICK f \in Findings, d \in Districts, c \in Categories, s \in Sources, p \in Months,
               date \in Reports!Days, n \in 1..MaxCases : \E done \in 0..n, q \in Months :
               Reports!Import(f, d, c, s, p, date, n, done, q)
        BY <1>3, Zenon DEF Importings, Months
    <2>2. n \in Nat /\ date \in Nat /\ \E done \in Nat, q \in Months : done <= n /\ Reports!Import(f, d, c, s, p, date, n, done, q)
        BY <1>1, <2>1
    <2> QED
        BY <2>2, FiledAnew
<1>4. CASE \E f \in Findings : Reports!Submit(f) \/ Reports!Delete(f) \/ Reports!Reopen(f)
    BY <1>4, StageWritten, LedgerWritten
<1>5. CASE \E f \in Findings, to \in {"official", "returned", "rejected"} : Reports!Review(f, to)
    BY <1>5, StageWritten
<1>6. CASE \E S \in SUBSET Findings : Reports!ReverseImport(S)
    BY <1>6 DEF Reports!ReverseImport, ImportedGone
<1>7. CASE \E f \in Findings, n \in 1..MaxCases : Reports!Close(f, n)
    BY <1>1, <1>7, LedgerWritten
<1>8. CASE \E f \in Findings, q \in Reports!Periods : Reports!Transfer(f, q)
    BY <1>8, LedgerWritten DEF Months
<1>9. CASE ledger' = ledger /\ today' \in {today, today + 1} /\ filter' = filter
    BY <1>9 DEF ImportedGone
<1> QED
    BY <1>2, <1>3, <1>4, <1>5, <1>6, <1>7, <1>8, <1>9, ReportsSteps

\* and none changes the template's filter.
LEMMA FilterStands == ASSUME Reports!Next PROVE filter' = filter
<1>1. CASE Filings
    BY <1>1 DEF Filings, Reports!Register, Reports!Edit
<1>2. CASE Importings
    BY <1>2 DEF Importings, Reports!Import
<1>3. CASE \E f \in Findings : Reports!Submit(f) \/ Reports!Delete(f) \/ Reports!Reopen(f)
    BY <1>3 DEF Reports!Submit, Reports!Delete, Reports!Reopen
<1>4. CASE \E f \in Findings, to \in {"official", "returned", "rejected"} : Reports!Review(f, to)
    BY <1>4 DEF Reports!Review
<1>5. CASE \E S \in SUBSET Findings : Reports!ReverseImport(S)
    BY <1>5 DEF Reports!ReverseImport
<1>6. CASE \E f \in Findings, n \in 1..MaxCases : Reports!Close(f, n)
    BY <1>6 DEF Reports!Close
<1>7. CASE \E f \in Findings, q \in Reports!Periods : Reports!Transfer(f, q)
    BY <1>7 DEF Reports!Transfer
<1> QED
    BY <1>1, <1>2, <1>3, <1>4, <1>5, <1>6, <1>7, ReportsSteps

\* A step that writes an official finding leaves the others as they were.
LEMMA OthersStand ==
    ASSUME ReportsInv, Reports!Next, NEW g \in Reports!Official, ledger'[g] # Reports!NoRecord, ledger'[g] # ledger[g]
    PROVE  \E f \in Reports!Official, r, s \in Filed :
              r = ledger[f] /\ ledger' = [ledger EXCEPT ![f] = s] /\ OfficialKept(r, s)
<1>1. g \in Findings /\ ledger[g] # Reports!NoRecord /\ ledger[g].stage = "official"
    BY DEF Reports!Official, Reports!Registered
<1>2. ledger \in [Findings -> {Reports!NoRecord} \cup Filed]
    BY DEF ReportsInv
<1>3. ~UnofficialWritten
    BY <1>1, <1>2 DEF UnofficialWritten
<1>4. ~ImportedGone
    BY <1>1 DEF ImportedGone
<1>5. PICK f \in Findings, r, s \in Filed : r = ledger[f] /\ ledger' = [ledger EXCEPT ![f] = s] /\ OfficialKept(r, s)
    BY <1>3, <1>4, StepKeeps DEF OfficialWritten
<1>6. f \in Reports!Official
    BY <1>5, NoRecordIsNotFiled DEF OfficialKept, Reports!Official, Reports!Registered
<1> QED
    BY <1>5, <1>6

\* The headline of a day stays, its closed figure provided that the record written keeps
\* what it had closed until then.
AsOfHolds(r, s, c, d, day) ==
    /\ Reports!AsOf(c, d, day)'.cases = Reports!AsOf(c, d, day).cases
    /\ ClosedThen(s.closures, day) = ClosedThen(r.closures, day)
         => Reports!AsOf(c, d, day)'.closed = Reports!AsOf(c, d, day).closed

\* The cases of an earlier day are as they were when an official finding is written, and
\* so is what was closed when it keeps its closures of until then.
LEMMA AsOfStands ==
    ASSUME ReportsInv, filter' = filter, NEW f \in Reports!Official, NEW r \in Filed, NEW s \in Filed,
           r = ledger[f], ledger' = [ledger EXCEPT ![f] = s], OfficialKept(r, s),
           NEW day, NEW c, NEW d
    PROVE  AsOfHolds(r, s, c, d, day)
<1>1. PICK S : S = {g \in Reports!OfCategory(Reports!OfDistrict(Reports!Official, d), c) :
                        Reports!PassesFilter(g) /\ ledger[g].date <= day}
    OBVIOUS
<1>2. f \in Findings /\ \A g \in Findings : ledger'[g] = IF g = f THEN s ELSE ledger[g]
    BY DEF ReportsInv, Reports!Official, Reports!Registered
<1>3. r # Reports!NoRecord /\ s # Reports!NoRecord
    BY NoRecordIsNotFiled
<1>4. \A g \in Findings : /\ ledger'[g] = Reports!NoRecord <=> ledger[g] = Reports!NoRecord
                          /\ ledger'[g].district = ledger[g].district /\ ledger'[g].category = ledger[g].category
                          /\ ledger'[g].source = ledger[g].source /\ ledger'[g].date = ledger[g].date
                          /\ ledger'[g].stage = ledger[g].stage /\ ledger'[g].total = ledger[g].total
    BY <1>2, <1>3 DEF OfficialKept, SameFile
<1>5. S = {g \in Reports!OfCategory(Reports!OfDistrict(Reports!Official, d), c) :
                Reports!PassesFilter(g) /\ ledger[g].date <= day}'
    <2>1. Reports!Registered' = Reports!Registered
        BY <1>4 DEF Reports!Registered
    <2>2. \A g \in Reports!Registered : g \in Findings
        BY DEF Reports!Registered
    <2> QED
        BY <1>1, <1>4, <2>1, <2>2
           DEF Reports!OfCategory, Reports!OfDistrict, Reports!Official, Reports!PassesFilter
<1>6. \A g \in S : g \in Findings
    BY <1>1 DEF Reports!OfCategory, Reports!OfDistrict, Reports!Official, Reports!Registered
<1>7. [g \in S |-> Reports!Total(g)'.cases] = [g \in S |-> Reports!Total(g).cases]
    BY <1>4, <1>6 DEF Reports!Total
<1>8. ASSUME ClosedThen(s.closures, day) = ClosedThen(r.closures, day)
      PROVE  [g \in S |-> Reports!ClosedBy(g, day)'] = [g \in S |-> Reports!ClosedBy(g, day)]
    <2>1. \A g : Reports!ClosedBy(g, day) = ClosedThen(ledger[g].closures, day)
        BY SameSequences DEF Reports!ClosedBy, ClosedThen
    <2>2. \A g : Reports!ClosedBy(g, day)' = ClosedThen(ledger'[g].closures, day)
        BY SameSequences DEF Reports!ClosedBy, ClosedThen
    <2> QED
        BY <1>2, <1>6, <1>8, <2>1, <2>2
<1>9. Reports!AsOf(c, d, day) = [cases  |-> Reports!SumFunction([g \in S |-> Reports!Total(g).cases]),
                                 closed |-> Reports!SumFunction([g \in S |-> Reports!ClosedBy(g, day)])]
    BY <1>1 DEF Reports!AsOf
<1>10. Reports!AsOf(c, d, day)' = [cases  |-> Reports!SumFunction([g \in S |-> Reports!Total(g)'.cases]),
                                   closed |-> Reports!SumFunction([g \in S |-> Reports!ClosedBy(g, day)'])]
    BY <1>5 DEF Reports!AsOf
<1> QED
    BY <1>7, <1>8, <1>9, <1>10 DEF AsOfHolds

\* A finding that covers its branch goes on doing so, or is withdrawn before its approval.
LEMMA CoverageKept ==
    ASSUME ReportsInv, Reports!Next, NEW f \in Reports!Registered, ~ledger[f].bankScope, ~ledger[f].imported
    PROVE  CoverKept(ledger[f], ledger'[f]) \/ Uncovered(ledger[f], ledger'[f])
<1>1. ledger \in [Findings -> {Reports!NoRecord} \cup Filed]
    BY DEF ReportsInv
<1>2. f \in Findings /\ ledger[f] # Reports!NoRecord
    BY DEF Reports!Registered
<1>3. CASE ledger'[f] = ledger[f]
    BY <1>2, <1>3, OwnStays DEF CoverKept
<1>4. CASE OfficialWritten
    <2>1. PICK g \in Findings, r, s \in Filed : r = ledger[g] /\ ledger' = [ledger EXCEPT ![g] = s] /\ OfficialKept(r, s)
        BY <1>4 DEF OfficialWritten
    <2>2. CASE g = f
        <3>1. ledger'[f] = s /\ ledger[f] = r
            BY <1>1, <2>1, <2>2
        <3> QED
            BY <2>1, <3>1, NoRecordIsNotFiled DEF OfficialKept, SameFile, CoverKept
    <2>3. CASE g # f
        BY <1>1, <1>2, <1>3, <2>1, <2>3
    <2> QED
        BY <2>2, <2>3
<1>5. CASE UnofficialWritten
    BY <1>1, <1>2, <1>3, <1>5 DEF UnofficialWritten
<1>6. CASE ImportedGone
    BY <1>2, <1>3, <1>6 DEF ImportedGone
<1> QED
    BY <1>4, <1>5, <1>6, StepKeeps

\* Reports: what was reported of a past day stands but for what a reopening takes back,
\* and a finding that covers its branch in a period goes on covering it, for good once it
\* is approved.
THEOREM WhatWasReportedStands == Spec => PastStandsStill
<1> DEFINE Past ==
        (\E f \in Reports!Official : ledger'[f] # Reports!NoRecord
            /\ <<ledger'[f].closures, ledger'[f].moves>> # <<ledger[f].closures, ledger[f].moves>>)
        => \A c \in Categories, d \in Districts : \A day \in 1..(today - 1) :
              /\ Reports!AsOf(c, d, day)'.cases = Reports!AsOf(c, d, day).cases
              /\ \/ Reports!AsOf(c, d, day)'.closed = Reports!AsOf(c, d, day).closed
                 \/ \E f \in Reports!Official : ledger[f].closures # <<>> /\ ledger'[f].closures = <<>>
<1> DEFINE Covering ==
        \A p \in Reports!Periods, f \in Reports!Registered :
            Reports!Covers(f, p) =>
                \/ ledger'[f] # Reports!NoRecord /\ Reports!Covers(f, p)' /\ ledger'[f].district = ledger[f].district
                \/ /\ ledger[f].stage \in Reports!EditableStages \cup {"rejected"}
                   /\ ledger'[f] = Reports!NoRecord \/ Reports!Refiled(f) \/ ledger'[f].bankScope
<1>1. ASSUME ReportsInv, Reports!Next
      PROVE  Past
    <2> SUFFICES ASSUME NEW g \in Reports!Official, ledger'[g] # Reports!NoRecord, ledger'[g] # ledger[g],
                        NEW c \in Categories, NEW d \in Districts, NEW day \in 1..(today - 1)
                 PROVE  /\ Reports!AsOf(c, d, day)'.cases = Reports!AsOf(c, d, day).cases
                        /\ \/ Reports!AsOf(c, d, day)'.closed = Reports!AsOf(c, d, day).closed
                           \/ \E f \in Reports!Official : ledger[f].closures # <<>> /\ ledger'[f].closures = <<>>
        OBVIOUS
    <2>1. PICK f \in Reports!Official, r, s \in Filed :
            r = ledger[f] /\ ledger' = [ledger EXCEPT ![f] = s] /\ OfficialKept(r, s)
        BY <1>1, OthersStand
    <2>2. filter' = filter
        BY <1>1, FilterStands
    <2>3. AsOfHolds(r, s, c, d, day)
        <3>1. r = ledger[f] /\ ledger' = [ledger EXCEPT ![f] = s] /\ OfficialKept(r, s)
            BY <2>1
        <3> QED
            BY ONLY <1>1, ReportsInv, <2>2, <3>1, AsOfStands
    <2>4. ledger'[f] = s
        BY <1>1, <2>1 DEF ReportsInv, Reports!Official, Reports!Registered
    <2>5. ClosedThen(s.closures, day) = ClosedThen(r.closures, day) \/ (r.closures # <<>> /\ s.closures = <<>>)
        BY <2>1 DEF OfficialKept
    <2> QED
        BY <2>1, <2>3, <2>4, <2>5 DEF AsOfHolds
<1>2. ASSUME ReportsInv, Reports!Next
      PROVE  Covering
    <2> SUFFICES ASSUME NEW p \in Reports!Periods, NEW f \in Reports!Registered, Reports!Covers(f, p)
                 PROVE  \/ /\ ledger'[f] # Reports!NoRecord /\ Reports!Covers(f, p)'
                           /\ ledger'[f].district = ledger[f].district
                        \/ /\ ledger[f].stage \in Reports!EditableStages \cup {"rejected"}
                           /\ ledger'[f] = Reports!NoRecord \/ Reports!Refiled(f) \/ ledger'[f].bankScope
        OBVIOUS
    <2>1. p \in Months /\ p # Reports!AllPeriods
        BY MonthsAre DEF Months, Reports!AllPeriods
    <2>2. PICK r, s : r = ledger[f] /\ s = ledger'[f]
        OBVIOUS
    <2>3. /\ ~r.bankScope /\ ~r.imported /\ (filter = {} \/ r.source \in filter)
          /\ StaysIn(r.moves, r.home, r.total, p) # {}
        BY <2>1, <2>2, FiguresAre DEF Reports!Covers, Reports!PassesFilter, Reports!Reported
    <2>4. CoverKept(r, s) \/ Uncovered(r, s)
        BY <1>2, <2>2, <2>3, CoverageKept
    <2>5. CASE CoverKept(r, s)
        <3>1. /\ s # Reports!NoRecord /\ s.district = r.district /\ s.source = r.source
              /\ ~s.bankScope /\ ~s.imported /\ StaysIn(s.moves, s.home, s.total, p) # {}
            BY <2>1, <2>3, <2>5 DEF CoverKept, StaysKnown
        <3>2. Reports!ResidentIn(f, p)'
            BY <2>2, <3>1, SameStays DEF Reports!ResidentIn
        <3>3. filter' = filter
            BY <1>2, FilterStands
        <3>4. Reports!Covers(f, p)'
            BY <2>2, <2>3, <3>1, <3>2, <3>3 DEF Reports!Covers, Reports!PassesFilter, Reports!Reported
        <3> QED
            BY <2>2, <3>1, <3>4
    <2>6. CASE Uncovered(r, s)
        BY <2>2, <2>6 DEF Uncovered, Reports!Refiled
    <2> QED
        BY <2>4, <2>5, <2>6
<1>3. ReportsInv /\ [Next]_vars => [Past]_Reports!vars /\ [Covering]_Reports!vars
    <2> SUFFICES ASSUME ReportsInv, [Next]_vars PROVE [Past]_Reports!vars /\ [Covering]_Reports!vars
        OBVIOUS
    <2>1. CASE Reports!Next
        BY <1>1, <1>2, <2>1
    <2>2. CASE UNCHANGED reportVars
        BY <2>2 DEF reportVars, Reports!vars
    <2> QED
        BY <2>1, <2>2 DEF Next, vars
<1> QED
    BY <1>3, ReportsStart, ReportsStayInOrder, PTL
       DEF Spec, PastStandsStill, Reports!PastStandsStill, Reports!CoverageStands
=============================================================================
