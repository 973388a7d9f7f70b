------------------------------- MODULE Access -------------------------------
(***************************************************************************)
(* Who may act: accounts, roles, session cookies and password reset links. *)
(*                                                                         *)
(* A session is a sealed cookie.  It carries what the login route read -   *)
(* role, permissions, branch and the account's sessionVersion - and is     *)
(* honoured while the account is active and still at that version.         *)
(* Here requests are handled one at a time; OverlappingAccess lets them    *)
(* overlap.  For each route, Can... is what it checks and Do... what it    *)
(* writes, from the values it took along from its first read.              *)
(*                                                                         *)
(* Districts behave as branches without a singleton rule and are left out; *)
(* so are departments, contact details and units that are deactivated.     *)
(***************************************************************************)
EXTENDS Naturals, FiniteSets

CONSTANTS
    Users, Roles, Branches, Devices, Links,
    Admin,         \* the role whose code is ADMIN
    System,        \* the built-in roles
    ScopeOf,       \* a role's orgScope, fixed when it is made
    Staff,         \* the seeded accounts: a function to [role, branch]
    Unreferenced,  \* the accounts no record of the workflow refers to
    GrantChoices,  \* permission sets a role may be given
    PatchFields,   \* bound: the fields one PATCH changes (role and branch count as one)
    MaxVersion,    \* bound: the highest sessionVersion
    MaxPassword    \* bound: the highest password number

Permissions == {"users.create", "users.edit", "users.toggle-status", "users.delete", "roles.manage"}

ASSUME AccessAssumption ==
    /\ Devices # {}
    /\ System \subseteq Roles /\ Admin \in System
    /\ ScopeOf \in [Roles -> {"BANK", "BRANCH"}] /\ ScopeOf[Admin] = "BANK"
    /\ Unreferenced \subseteq Users
    /\ GrantChoices \subseteq SUBSET Permissions
    /\ PatchFields \in Nat /\ MaxVersion \in Nat /\ MaxPassword \in Nat

NoBranch == "no branch"

ASSUME StaffAssumption ==
    /\ DOMAIN Staff \subseteq Users
    /\ \A u \in DOMAIN Staff : Staff[u] \in [role : System, branch : Branches \cup {NoBranch}]
    /\ \E u \in DOMAIN Staff : Staff[u].role = Admin

VARIABLES
    account,  \* account[u]: the row of users, NoAccount before, Removed after
    role,     \* role[r]: the row of roles, or NoRole
    cookie,   \* cookie[d]: the session sealed in device d's cookie
    link      \* link[l]: a password reset link

accessVars == <<account, role, cookie, link>>

NoAccount == [status |-> "unborn"]
Removed == [status |-> "removed"]
NoRole == [status |-> "unborn"]
NoCookie == [user |-> "nobody"]
NoLink == [state |-> "unborn"]

Statuses == {"ACTIVE", "INACTIVE"}
UserRow == [status : Statuses, role : Roles, branch : Branches \cup {NoBranch},
            password : 0..MaxPassword, temporary : {"no", "valid", "expired"}, version : 1..MaxVersion]
RoleRow == [status : Statuses, grants : SUBSET Permissions, singleton : BOOLEAN]
Cookie == [user : Users, version : 1..MaxVersion, role : Roles, grants : SUBSET Permissions,
           branch : Branches \cup {NoBranch}, password : 0..MaxPassword]
LinkRow == [state : {"unused", "used", "expired"}, user : Users, uses : Nat]

Exists(u) == account[u].status \in Statuses
Defined(r) == role[r].status \in Statuses

-----------------------------------------------------------------------------
(* Sessions. *)

\* getCurrentUser; that a session times out is an action of its own
Live(d) ==
    /\ cookie[d] # NoCookie
    /\ LET row == account[cookie[d].user]
       IN  row.status = "ACTIVE" /\ row.version = cookie[d].version

May(d, key) == Live(d) /\ key \in cookie[d].grants

\* The session a device is given.  password is not in the cookie: it records
\* under which password the session was obtained.
Session(u, version, password) ==
    [user |-> u, version |-> version, role |-> account[u].role,
     grants |-> role[account[u].role].grants, branch |-> account[u].branch, password |-> password]

-----------------------------------------------------------------------------
(* Rules about accounts and roles. *)

Keepers == {"users.toggle-status", "roles.manage"}

ActiveHolders(accounts, roles, key) ==
    {u \in Users : /\ accounts[u].status = "ACTIVE"
                   /\ roles[accounts[u].role].status = "ACTIVE"
                   /\ key \in roles[accounts[u].role].grants}

LocksOutByAccounts(accounts, roles) ==
    \E key \in Keepers :
        ActiveHolders(account, role, key) # {} /\ ActiveHolders(accounts, role, key) = {}

\* lockoutError: the change takes a keeper permission from its last holder
LocksOut(accounts, roles) ==
    \E key \in Keepers :
        ActiveHolders(account, role, key) # {} /\ ActiveHolders(accounts, roles, key) = {}

BranchHolders(r, b) ==
    {u \in Users : account[u].status = "ACTIVE" /\ account[u].role = r /\ account[u].branch = b}

\* assertBranchRoleAvailable: the holder it compares with is the first found
BranchRoleTaken(u, r, b) ==
    /\ role[r].singleton
    /\ BranchHolders(r, b) # {}
    /\ (CHOOSE v \in BranchHolders(r, b) : TRUE) # u

AssignableBesides(u, r, b) ==
    Defined(r) /\ role[r].status = "ACTIVE" /\ (ScopeOf[r] = "BRANCH" => b \in Branches)

AssignableToAny(u, r, b) ==
    Defined(r) /\ (ScopeOf[r] = "BRANCH" => b \in Branches /\ ~BranchRoleTaken(u, r, b))

\* resolveOrgAssignment succeeds and places the account in Placed(r, b)
Assignable(u, r, b) ==
    /\ Defined(r) /\ role[r].status = "ACTIVE"
    /\ ScopeOf[r] = "BRANCH" => b \in Branches /\ ~BranchRoleTaken(u, r, b)

Placed(r, b) == IF ScopeOf[r] = "BRANCH" THEN b ELSE NoBranch

\* An editor who is not bank-wide stays in the own branch.
InReach(d, r, b) ==
    ScopeOf[cookie[d].role] = "BANK" \/ (ScopeOf[r] # "BANK" /\ b = cookie[d].branch)

\* A field of a PATCH: sent with one of the values, or left out
Optional(values) == {{}} \cup {{v} : v \in values}
Given(field, otherwise) == IF field = {} THEN otherwise ELSE CHOOSE v \in field : TRUE

Count(conditions) == Cardinality({i \in DOMAIN conditions : conditions[i]})

UserPatches ==
    {in \in [status : Optional(Statuses), role : Optional(Roles),
             branch : Optional(Branches \cup {NoBranch}), password : BOOLEAN] :
        Count(<<in.status # {}, in.role \cup in.branch # {}, in.password>>) <= PatchFields}
RolePatches ==
    {in \in [status : Optional(Statuses), grants : Optional(GrantChoices), singleton : Optional(BOOLEAN)] :
        Count(<<in.status # {}, in.grants # {}, in.singleton # {}>>) <= PatchFields}

TogglesOnly(in) == in.status # {} /\ in.role = {} /\ in.branch = {} /\ ~in.password

-----------------------------------------------------------------------------
(* Passwords and sessions. *)

CanLogin(u) ==
    /\ Exists(u) /\ account[u].status = "ACTIVE"
    /\ account[u].temporary # "expired"
    /\ role[account[u].role].status = "ACTIVE"

SameSession(u) == Session(u, account[u].version, account[u].password)

\* The session the route prepares: the version it read, and one.
NextSession(u) == Session(u, account[u].version + 1, account[u].password)

\* The response, and the cookie in it, may be lost.
DoLogin(u, d, session) ==
    /\ account' = IF Exists(u) THEN [account EXCEPT ![u].version = session.version] ELSE account
    /\ cookie' \in {cookie, [cookie EXCEPT ![d] = session]}
    /\ UNCHANGED <<role, link>>

SetPasswordOnly(row, version, temporary) ==
    [row EXCEPT !.password = row.password + 1, !.temporary = temporary]

SetPasswordAfresh(row, version, temporary) ==
    [row EXCEPT !.password = row.password + 1, !.version = 1, !.temporary = temporary]

\* passwordHash, with the version its sessions will carry
SetPassword(row, version, temporary) ==
    [row EXCEPT !.password = row.password + 1, !.version = version, !.temporary = temporary]

DoChangePassword(u, d, session) ==
    LET row == SetPassword(account[u], session.version, "no")
    IN  /\ Exists(u)
        /\ account' = [account EXCEPT ![u] = row]
        /\ cookie' = [cookie EXCEPT ![d] = [session EXCEPT !.password = row.password]]
        /\ UNCHANGED <<role, link>>

CanForgot(u, l) == Exists(u) /\ account[u].status = "ACTIVE" /\ link[l] = NoLink

\* The links the transaction of forgot-password puts out of use
UnusedLinks(u) == {l \in Links : link[l].state = "unused" /\ link[l].user = u}

DoForgot(u, l, marked) ==
    /\ Exists(u) /\ link[l] = NoLink
    /\ link' = [k \in Links |->
                  IF k = l THEN [state |-> "unused", user |-> u, uses |-> 0]
                  ELSE IF k \in marked /\ link[k] # NoLink THEN [link[k] EXCEPT !.state = "used"]
                  ELSE link[k]]
    /\ UNCHANGED <<account, role, cookie>>

CanReset(l) == link[l].state = "unused" /\ account[link[l].user].status = "ACTIVE"

\* reset-password marks the link in a transaction of its own ...
DoConsume(l) ==
    /\ link[l] # NoLink
    /\ link' = [link EXCEPT ![l].state = "used"]
    /\ UNCHANGED <<account, role, cookie>>

DoResetUnmarked(u, l, version) ==
    /\ Exists(u)
    /\ account' = [account EXCEPT ![u] = SetPassword(@, version, "no")]
    /\ link' = [link EXCEPT ![l].uses = @ + 1]
    /\ UNCHANGED <<role, cookie>>

\* ... before it sets the password.  uses counts the passwords a link set.
DoReset(u, l, version) ==
    /\ Exists(u)
    /\ account' = [account EXCEPT ![u] = SetPassword(@, version, "no")]
    /\ link' = [link EXCEPT ![l] = [link[l] EXCEPT !.state = "used", !.uses = @ + 1]]
    /\ UNCHANGED <<role, cookie>>

-----------------------------------------------------------------------------
(* Administration of accounts. *)

CanCreateUser(d, u, r, b) ==
    /\ May(d, "users.create")
    /\ account[u] = NoAccount
    /\ Assignable(u, r, b) /\ InReach(d, r, b)

DoCreateUserUnversioned(u, r, b) ==
    /\ account[u] = NoAccount /\ Defined(r)
    /\ account' = [account EXCEPT ![u] = [status |-> "ACTIVE", role |-> r, branch |-> b,
                                          password |-> 0, temporary |-> "valid", version |-> 0]]
    /\ UNCHANGED <<role, cookie, link>>

DoCreateUser(u, r, b) ==
    /\ account[u] = NoAccount /\ Defined(r)
    /\ account' = [account EXCEPT ![u] = [status |-> "ACTIVE", role |-> r, branch |-> b,
                                          password |-> 0, temporary |-> "valid", version |-> 1]]
    /\ UNCHANGED <<role, cookie, link>>

Moves(in) == in.role \cup in.branch # {}
NextRole(u, in) == Given(in.role, account[u].role)
NextBranch(u, in) ==
    IF Moves(in) THEN Placed(NextRole(u, in), Given(in.branch, account[u].branch))
                 ELSE account[u].branch

CanPatchUser(d, u, in) ==
    LET r == NextRole(u, in)
        status == Given(in.status, account[u].status)
    IN  /\ Exists(u)
        /\ May(d, IF TogglesOnly(in) THEN "users.toggle-status" ELSE "users.edit")
        /\ ~(status = "INACTIVE" /\ account[u].status = "ACTIVE" /\ cookie[d].user = u)
        /\ status # account[u].status \/ r # account[u].role =>
             ~LocksOut([account EXCEPT ![u].status = status, ![u].role = r], role)
        /\ InReach(d, r, account[u].branch)
        /\ Moves(in) => /\ Assignable(u, r, Given(in.branch, account[u].branch))
                        /\ InReach(d, r, NextBranch(u, in))

\* Role and branch are written whether they were sent or not; status only if.
DoPatchUser(u, in, r, b) ==
    LET row == account[u]
        moved == [row EXCEPT !.status = Given(in.status, row.status), !.role = r, !.branch = b]
    IN  /\ Exists(u) /\ Defined(r)
        /\ account' = [account EXCEPT ![u] =
              IF in.password THEN SetPassword(moved, row.version + 1, "valid") ELSE moved]
        /\ UNCHANGED <<role, cookie, link>>

CanDeleteUser(d, u) ==
    /\ May(d, "users.delete")
    /\ Exists(u) /\ cookie[d].user # u
    /\ ~LocksOut([account EXCEPT ![u] = Removed], role)
    /\ u \in Unreferenced

\* The links of a user go with the row.
DoDeleteUser(u) ==
    /\ Exists(u)
    /\ account' = [account EXCEPT ![u] = Removed]
    /\ link' = [l \in Links |-> IF link[l] # NoLink /\ link[l].user = u THEN NoLink ELSE link[l]]
    /\ UNCHANGED <<role, cookie>>

-----------------------------------------------------------------------------
(* Administration of roles. *)

CanCreateRole(d, r) == May(d, "roles.manage") /\ role[r] = NoRole

DoCreateRole(r, grants, singleton) ==
    /\ role[r] = NoRole
    /\ role' = [role EXCEPT ![r] = [status |-> "ACTIVE", grants |-> grants,
                                    singleton |-> singleton /\ ScopeOf[r] = "BRANCH"]]
    /\ UNCHANGED <<account, cookie, link>>

CanPatchRole(d, r, in) ==
    LET status == Given(in.status, role[r].status)
        grants == Given(in.grants, role[r].grants)
    IN  /\ May(d, "roles.manage") /\ Defined(r)
        /\ r = Admin => "roles.manage" \in grants /\ in.status # {"INACTIVE"}
        /\ ~LocksOut(account, [role EXCEPT ![r].status = status, ![r].grants = grants])
        /\ ScopeOf[r] = "BANK" => in.singleton # {TRUE}

Deactivates(r, in) == in.status = {"INACTIVE"} /\ role[r].status = "ACTIVE"

\* Deactivating a role signs out everyone who holds it.
DoPatchRole(r, in, signsOut) ==
    LET row == role[r]
    IN  /\ Defined(r)
        /\ role' = [role EXCEPT ![r] = [status |-> Given(in.status, row.status),
                                        grants |-> Given(in.grants, row.grants),
                                        singleton |-> Given(in.singleton, row.singleton)]]
        /\ account' = [u \in Users |->
              IF signsOut /\ Exists(u) /\ account[u].role = r
                THEN [account[u] EXCEPT !.version = @ + 1] ELSE account[u]]
        /\ UNCHANGED <<cookie, link>>

NobodyActiveHolds(r) == \A u \in Users : Exists(u) /\ account[u].status = "ACTIVE" => account[u].role # r

NobodyHolds(r) == \A u \in Users : Exists(u) => account[u].role # r

CanDeleteRole(d, r) ==
    May(d, "roles.manage") /\ Defined(r) /\ r \notin System /\ NobodyHolds(r)

\* The foreign key users.role -> roles.code refuses what was just assigned.
DoDeleteRole(r) ==
    /\ Defined(r) /\ NobodyHolds(r)
    /\ role' = [role EXCEPT ![r] = NoRole]
    /\ UNCHANGED <<account, cookie, link>>

-----------------------------------------------------------------------------
(* One action per route. *)

Login(u, d) == CanLogin(u) /\ DoLogin(u, d, NextSession(u))

ChangePassword(d) ==
    Live(d) /\ DoChangePassword(cookie[d].user, d, NextSession(cookie[d].user))

ForgotPassword(u, l) == CanForgot(u, l) /\ DoForgot(u, l, UnusedLinks(u))

ResetPassword(l) ==
    CanReset(l) /\ DoReset(link[l].user, l, account[link[l].user].version + 1)

\* The process dies between the two writes of reset-password.
ResetCutShort(l) == CanReset(l) /\ DoConsume(l)

CreateUser(d, u) ==
    \E r \in Roles, b \in Branches \cup {NoBranch} :
        CanCreateUser(d, u, r, b) /\ DoCreateUser(u, r, Placed(r, b))

PatchUser(d, u) ==
    /\ Live(d) /\ Exists(u)
    /\ \E in \in UserPatches :
          CanPatchUser(d, u, in) /\ DoPatchUser(u, in, NextRole(u, in), NextBranch(u, in))

DeleteUser(d, u) == CanDeleteUser(d, u) /\ DoDeleteUser(u)

CreateRole(d, r) ==
    \E grants \in GrantChoices, singleton \in BOOLEAN :
        CanCreateRole(d, r) /\ DoCreateRole(r, grants, singleton)

PatchRole(d, r) ==
    /\ Live(d) /\ Defined(r)
    /\ \E in \in RolePatches : CanPatchRole(d, r, in) /\ DoPatchRole(r, in, Deactivates(r, in))

DeleteRole(d, r) == CanDeleteRole(d, r) /\ DoDeleteRole(r)

\* Logging out destroys the cookie and leaves the version as it is.
Logout(d) ==
    /\ cookie[d] # NoCookie
    /\ cookie' = [cookie EXCEPT ![d] = NoCookie]
    /\ UNCHANGED <<account, role, link>>

\* A request with a session that is over - revoked, or timed out, which may
\* be at any time here - has its cookie destroyed.
SessionOver(d) == Logout(d)

ExpireTemporary(u) ==
    /\ Exists(u) /\ account[u].temporary = "valid"
    /\ account' = [account EXCEPT ![u].temporary = "expired"]
    /\ UNCHANGED <<role, cookie, link>>

ExpireLink(l) ==
    /\ link[l].state = "unused"
    /\ link' = [link EXCEPT ![l].state = "expired"]
    /\ UNCHANGED <<account, role, cookie>>

Init ==
    /\ account = [u \in Users |->
          IF u \in DOMAIN Staff
            THEN [status |-> "ACTIVE", role |-> Staff[u].role, branch |-> Staff[u].branch,
                  password |-> 0, temporary |-> "no", version |-> 1]
            ELSE NoAccount]
    /\ role = [r \in Roles |->
          IF r \in System
            THEN [status |-> "ACTIVE", grants |-> IF r = Admin THEN Permissions ELSE {},
                  singleton |-> ScopeOf[r] = "BRANCH"]
            ELSE NoRole]
    /\ cookie = [d \in Devices |-> NoCookie]
    /\ link = [l \in Links |-> NoLink]

InBounds ==
    \A u \in Users : Exists(u) => account[u].version <= MaxVersion /\ account[u].password <= MaxPassword

Passing ==
    \/ \E d \in Devices : Logout(d) \/ SessionOver(d)
    \/ \E u \in Users : ExpireTemporary(u)
    \/ \E l \in Links : ExpireLink(l)

AccountStep(d, u) == CreateUser(d, u) \/ PatchUser(d, u) \/ DeleteUser(d, u)
RoleStep(d, r) == CreateRole(d, r) \/ PatchRole(d, r) \/ DeleteRole(d, r)

Next ==
    /\ \/ \E u \in Users, d \in Devices : Login(u, d) \/ AccountStep(d, u)
       \/ \E d \in Devices : ChangePassword(d)
       \/ \E u \in Users, l \in Links : ForgotPassword(u, l)
       \/ \E l \in Links : ResetPassword(l) \/ ResetCutShort(l)
       \/ \E d \in Devices, r \in Roles : RoleStep(d, r)
       \/ Passing
    /\ InBounds'

Spec == Init /\ [][Next]_accessVars

-----------------------------------------------------------------------------
(* Properties. *)

\* Rows, cookies and links keep their shape; a version is never below 1.
TypeOK ==
    /\ account \in [Users -> UserRow \cup {NoAccount, Removed}]
    /\ role \in [Roles -> RoleRow \cup {NoRole}]
    /\ cookie \in [Devices -> Cookie \cup {NoCookie}]
    /\ link \in [Links -> LinkRow \cup {NoLink}]

\* A user's role is always one there is: deleting a role looks for its users,
\* and the foreign key has the last word.
RoleNeverDangles == \A u \in Users : Exists(u) => Defined(account[u].role)

\* What permissions/lockout.ts is for: whatever accounts and roles go
\* through, somebody active can reactivate an account and somebody active can
\* give permissions back.
KeepersRemain == \A key \in Keepers : ActiveHolders(account, role, key) # {}

\* Single session per user, as the login route has it: of all the devices a
\* user ever logged in on, at most one is still honoured.
SingleSession ==
    \A d, e \in Devices : Live(d) /\ Live(e) /\ cookie[d].user = cookie[e].user => d = e

\* A session outlives no password: whichever of the four routes set the new
\* one, sessions obtained under the old one are over.
SessionsUnderCurrentPassword ==
    \A d \in Devices : Live(d) => cookie[d].password = account[cookie[d].user].password

\* Nobody works in a role that has been deactivated: neither by staying
\* logged in, nor by being moved into it, nor through an account reactivated
\* after the role was not.
LiveRoleActive ==
    \A d \in Devices : Live(d) => role[account[cookie[d].user].role].status = "ACTIVE"

\* A session signed out by a version is signed out for good: no later write
\* brings the account back to the version a revoked cookie carries.
RevokedStaysRevoked ==
    [][\A d \in Devices :
          LET u == cookie[d].user
          IN  /\ cookie[d] # NoCookie /\ cookie'[d] = cookie[d]
              /\ Exists(u) /\ cookie[d].version # account[u].version
              => ~(Exists(u)' /\ cookie[d].version = account'[u].version)]_accessVars

\* The reset mail: a link works once.
LinkUsedOnce == \A l \in Links : link[l] # NoLink => link[l].uses <= 1

\* Asking for a new link puts the earlier ones out of use.
OneLinkAtATime ==
    \A k, l \in Links :
        link[k].state = "unused" /\ link[l].state = "unused" /\ link[k].user = link[l].user => k = l

\* org.ts: at most one active user per branch in a singleton role
OneHolderPerBranch ==
    \A r \in Roles, b \in Branches :
        Defined(r) /\ role[r].singleton => Cardinality(BranchHolders(r, b)) <= 1

\* What there is of it: no move, new account or role change puts a second
\* active holder beside the one a singleton role has in a branch.
NoSecondHolderMovesIn ==
    [][\A u \in Users :
          LET r == account'[u].role
              home == account'[u].branch
          IN  /\ Exists(u)' /\ account'[u].status = "ACTIVE"
              /\ Exists(u) => <<r, home>> # <<account[u].role, account[u].branch>>
              /\ role[r].singleton /\ ScopeOf[r] = "BRANCH"
              => BranchHolders(r, home) \ {u} = {}]_accessVars
=============================================================================
