---------------------------- MODULE Access_proofs ----------------------------
(***************************************************************************)
(* Sessions and keepers, for any number of users, roles, devices and       *)
(* links: the five properties of Access that its run checks.               *)
(***************************************************************************)
EXTENDS Access, TLAPS

Rows == [status : Statuses, role : Roles, branch : Branches \cup {NoBranch},
         password : Nat, temporary : {"no", "valid", "expired"}, version : Nat]

\* The tables' shape, as far as the proofs look
Shaped ==
    /\ account \in [Users -> Rows \cup {NoAccount, Removed}]
    /\ role \in [Roles -> RoleRow \cup {NoRole}]
    /\ cookie = [d \in Devices |-> cookie[d]]
    /\ link \in [Links -> LinkRow \cup {NoLink}]

\* A cookie in use or not: whose it is, and what it shares with the account
\* while their versions agree
CookiesFit ==
    \A d \in Devices : cookie[d] # NoCookie =>
        LET u == cookie[d].user
        IN  /\ u \in Users /\ account[u] # NoAccount /\ cookie[d].version \in Nat
            /\ Exists(u) =>
                  /\ cookie[d].version <= account[u].version
                  /\ cookie[d].version = account[u].version =>
                        /\ cookie[d].password = account[u].password
                        /\ role[account[u].role].status = "ACTIVE"

\* No two sessions of one user were ever given the same version
VersionsDiffer ==
    \A d, e \in Devices :
        /\ cookie[d] # NoCookie /\ cookie[e] # NoCookie
        /\ cookie[d].user = cookie[e].user /\ cookie[d].version = cookie[e].version
        => d = e

AccessInv == Shaped /\ CookiesFit /\ VersionsDiffer /\ KeepersRemain

-----------------------------------------------------------------------------
(* What every step does to an account, to a role under it, to a cookie     *)

AccountKept(u) ==
    /\ account[u] # NoAccount => account'[u] # NoAccount
    /\ ~Exists(u) /\ Exists(u)' => account[u] = NoAccount
    /\ Exists(u) /\ Exists(u)' =>
          /\ account'[u].version >= account[u].version
          /\ account'[u].version = account[u].version =>
                /\ account'[u].password = account[u].password
                /\ role[account[u].role].status = "ACTIVE" => role'[account'[u].role].status = "ACTIVE"

\* The session device d is given is of a version its user had never reached
Renewed(d) ==
    LET u == cookie'[d].user
    IN  /\ u \in Users /\ Exists(u) /\ account'[u].status \in Statuses
        /\ account'[u].version = account[u].version + 1
        /\ cookie'[d].version = account'[u].version /\ cookie'[d].password = account'[u].password
        /\ role'[account'[u].role].status = "ACTIVE"
        /\ \A e \in Devices \ {d} : cookie'[e] = cookie[e]

CookieKept(d) == cookie'[d] \in {NoCookie, cookie[d]}

StepFits ==
    /\ Shaped'
    /\ \A u \in Users : AccountKept(u)
    /\ \A d \in Devices : CookieKept(d) \/ (cookie'[d] # NoCookie /\ Renewed(d))
    /\ KeepersRemain'

LEMMA ShapeFacts ==
    ASSUME Shaped
    PROVE  /\ \A u \in Users : Exists(u) => account[u] \in Rows
           /\ \A u \in Users : Exists(u) => /\ account[u].version \in Nat /\ account[u].password \in Nat
                                            /\ account[u].role \in Roles
           /\ \A u \in Users : ~Exists(u) => account[u] \in {NoAccount, Removed}
           /\ \A r \in Roles : Defined(r) => role[r] \in RoleRow
           /\ \A r \in Roles : ~Defined(r) => role[r] = NoRole
BY DEF Shaped, Exists, Defined, Rows, RoleRow, Statuses, NoAccount, Removed, NoRole

LEMMA StepKeepsInvariant ==
    ASSUME AccessInv, StepFits
    PROVE  AccessInv'
<1>1. Shaped /\ CookiesFit /\ VersionsDiffer
    BY DEF AccessInv
<1>2. \A u \in Users : Exists(u) => account[u].version \in Nat
    BY <1>1, ShapeFacts
<1>3. \A u \in Users : Exists(u)' => account'[u].version \in Nat
    BY DEF StepFits, Shaped, Exists, Rows, Statuses, NoAccount, Removed
<1>4. CookiesFit'
  <2>1. SUFFICES ASSUME NEW d \in Devices, cookie'[d] # NoCookie, NEW u, u = cookie'[d].user
                 PROVE  /\ u \in Users /\ account'[u] # NoAccount /\ cookie'[d].version \in Nat
                        /\ Exists(u)' =>
                              /\ cookie'[d].version <= account'[u].version
                              /\ cookie'[d].version = account'[u].version =>
                                    /\ cookie'[d].password = account'[u].password
                                    /\ role'[account'[u].role].status = "ACTIVE"
    BY DEF CookiesFit, Exists
  <2>2. CASE cookie'[d] = cookie[d]
    <3>1. /\ u \in Users /\ account[u] # NoAccount /\ cookie[d].version \in Nat
          /\ Exists(u) =>
                /\ cookie[d].version <= account[u].version
                /\ cookie[d].version = account[u].version =>
                      /\ cookie[d].password = account[u].password
                      /\ role[account[u].role].status = "ACTIVE"
        BY <1>1, <2>1, <2>2 DEF CookiesFit
    <3>2. AccountKept(u)
        BY <3>1 DEF StepFits
    <3>3. account'[u] # NoAccount
        BY <3>1, <3>2 DEF AccountKept
    <3>4. ASSUME Exists(u)'
          PROVE  /\ cookie'[d].version <= account'[u].version
                 /\ cookie'[d].version = account'[u].version =>
                       /\ cookie'[d].password = account'[u].password
                       /\ role'[account'[u].role].status = "ACTIVE"
        <4>1. Exists(u)
            BY <3>1, <3>2, <3>4 DEF AccountKept
        <4>2. account[u].version \in Nat /\ account'[u].version \in Nat
            BY <1>2, <1>3, <3>1, <3>4, <4>1
        <4>3. /\ account'[u].version >= account[u].version
              /\ account'[u].version = account[u].version =>
                    /\ account'[u].password = account[u].password
                    /\ role[account[u].role].status = "ACTIVE" => role'[account'[u].role].status = "ACTIVE"
            BY <3>2, <3>4, <4>1 DEF AccountKept
        <4> QED
            BY <2>2, <3>1, <4>1, <4>2, <4>3
    <3> QED
        BY <2>2, <3>1, <3>3, <3>4
  <2>3. CASE Renewed(d)
    <3>1. /\ u \in Users /\ Exists(u)' /\ cookie'[d].version = account'[u].version
          /\ cookie'[d].password = account'[u].password
          /\ role'[account'[u].role].status = "ACTIVE"
        BY <2>1, <2>3 DEF Renewed, Exists
    <3>2. account'[u] # NoAccount
        BY <3>1 DEF Exists, NoAccount, Statuses
    <3> QED
        BY <1>3, <3>1, <3>2
  <2> QED
    BY <2>1, <2>2, <2>3 DEF StepFits, CookieKept
<1>5. VersionsDiffer'
  <2>1. SUFFICES ASSUME NEW d \in Devices, NEW e \in Devices, d # e,
                        cookie'[d] # NoCookie, cookie'[e] # NoCookie, cookie'[d].user = cookie'[e].user
                 PROVE  cookie'[d].version # cookie'[e].version
    BY DEF VersionsDiffer
  <2>2. ASSUME NEW x \in Devices, NEW y \in Devices, x # y, Renewed(x), cookie'[y] # NoCookie,
               cookie'[x].user = cookie'[y].user
        PROVE  cookie'[x].version # cookie'[y].version
    <3> DEFINE u == cookie'[x].user
    <3>1. /\ u \in Users /\ Exists(u) /\ cookie'[x].version = account[u].version + 1 /\ cookie'[y] = cookie[y]
        BY <2>2 DEF Renewed
    <3>2. cookie[y].version \in Nat /\ cookie[y].version <= account[u].version
        BY <1>1, <2>2, <3>1 DEF CookiesFit
    <3> QED
        BY <1>2, <3>1, <3>2
  <2>3. CASE Renewed(d)
    BY <2>1, <2>2, <2>3
  <2>4. CASE Renewed(e)
    BY <2>1, <2>2, <2>4
  <2>5. CASE cookie'[d] = cookie[d] /\ cookie'[e] = cookie[e]
    BY <1>1, <2>1, <2>5 DEF VersionsDiffer
  <2> QED
    BY <2>1, <2>3, <2>4, <2>5 DEF StepFits, CookieKept
<1> QED
    BY <1>4, <1>5 DEF AccessInv, StepFits

-----------------------------------------------------------------------------
(* What the actions have in common. *)

LEMMA GivenFits ==
    ASSUME NEW S, NEW f \in Optional(S), NEW o \in S
    PROVE  Given(f, o) \in S /\ (f = {} => Given(f, o) = o) /\ (f # {} => f = {Given(f, o)})
<1>1. CASE f = {}
    BY <1>1 DEF Given
<1>2. CASE f # {}
  <2>1. PICK v \in S : f = {v}
    BY <1>2 DEF Optional
  <2>2. (CHOOSE w \in f : TRUE) = v
    BY <2>1
  <2> QED
    BY <1>2, <2>1, <2>2 DEF Given
<1> QED
    BY <1>1, <1>2

\* Whoever holds the keeper permissions goes on holding them.
LEMMA HoldersStay ==
    ASSUME NEW accounts, NEW roles,
           \A key \in Keepers : ActiveHolders(accounts, roles, key) # {},
           \A u \in Users : accounts[u].status = "ACTIVE" /\ roles[accounts[u].role].status = "ACTIVE" =>
               /\ account'[u].status = "ACTIVE" /\ account'[u].role = accounts[u].role
               /\ role'[accounts[u].role].status = "ACTIVE"
               /\ roles[accounts[u].role].grants \subseteq role'[accounts[u].role].grants
    PROVE  KeepersRemain'
<1>1. SUFFICES ASSUME NEW key \in Keepers PROVE ActiveHolders(account', role', key) # {}
    BY DEF KeepersRemain
<1>2. PICK u \in Users : u \in ActiveHolders(accounts, roles, key)
    BY DEF ActiveHolders
<1>3. u \in ActiveHolders(account', role', key)
    BY <1>2 DEF ActiveHolders
<1> QED
    BY <1>3

LEMMA NobodyLockedOut ==
    ASSUME KeepersRemain, NEW accounts, NEW roles, ~LocksOut(accounts, roles)
    PROVE  \A key \in Keepers : ActiveHolders(accounts, roles, key) # {}
BY DEF KeepersRemain, LocksOut

LEMMA KeepersStay ==
    ASSUME AccessInv,
           \A u \in Users : account[u].status = "ACTIVE" =>
               account'[u].status = "ACTIVE" /\ account'[u].role = account[u].role,
           \A r \in Roles : Defined(r) => role'[r] = role[r]
    PROVE  KeepersRemain'
<1>1. \A u \in Users : account[u].status = "ACTIVE" => account[u].role \in Roles
    BY ShapeFacts DEF AccessInv, Exists, Statuses
<1>2. \A r \in Roles : role[r].status = "ACTIVE" => role'[r] = role[r]
    BY DEF Defined, Statuses
<1>3. \A u \in Users : account[u].status = "ACTIVE" /\ role[account[u].role].status = "ACTIVE" =>
               /\ account'[u].status = "ACTIVE" /\ account'[u].role = account[u].role
               /\ role'[account[u].role].status = "ACTIVE"
               /\ role[account[u].role].grants \subseteq role'[account[u].role].grants
    BY <1>1, <1>2
<1>4. \A key \in Keepers : ActiveHolders(account, role, key) # {}
    BY DEF AccessInv, KeepersRemain
<1> QED
    BY <1>3, <1>4, HoldersStay

LEMMA PasswordSet ==
    ASSUME NEW row \in Rows, NEW v \in Nat, NEW t \in {"no", "valid", "expired"},
           NEW new, new = SetPassword(row, v, t)
    PROVE  /\ new \in Rows /\ new.status = row.status /\ new.role = row.role
           /\ new.branch = row.branch /\ new.version = v /\ new.password = row.password + 1
<1>1. PICK p \in Nat : p = row.password + 1
    BY DEF Rows
<1>2. new = [row EXCEPT !.password = p, !.version = v, !.temporary = t]
    BY <1>1 DEF SetPassword
<1>3. /\ new \in Rows /\ new.status = row.status /\ new.role = row.role
      /\ new.branch = row.branch /\ new.version = v /\ new.password = p
    BY <1>2 DEF Rows
<1> QED
    BY <1>1, <1>3

\* A password set with a version never reached before keeps to the invariant.
LEMMA SettingPassword ==
    ASSUME AccessInv, NEW u \in Users, Exists(u), NEW t \in {"no", "valid", "expired"},
           account' = [account EXCEPT ![u] = SetPassword(@, account[u].version + 1, t)],
           role' = role
    PROVE  /\ account' \in [Users -> Rows \cup {NoAccount, Removed}]
           /\ \A v \in Users : AccountKept(v)
           /\ KeepersRemain'
           /\ account'[u] = SetPassword(account[u], account[u].version + 1, t)
<1>1. Shaped /\ account[u] \in Rows /\ account[u].version \in Nat
    BY ShapeFacts DEF AccessInv
<1>2. account[u].version + 1 \in Nat
    BY <1>1
<1>3. account'[u] = SetPassword(account[u], account[u].version + 1, t)
    BY <1>1 DEF Shaped
<1>4. \A v \in Users \ {u} : account'[v] = account[v]
    BY <1>1 DEF Shaped
<1>5. /\ account'[u] \in Rows /\ account'[u].status = account[u].status /\ account'[u].role = account[u].role
      /\ account'[u].version = account[u].version + 1
  <2>1. PICK v \in Nat : v = account[u].version + 1
    BY <1>2
  <2>2. PICK row \in Rows : row = account[u]
    BY <1>1
  <2>3. PICK new : new = account'[u]
    OBVIOUS
  <2>4. new = SetPassword(row, v, t)
    BY <1>3, <2>1, <2>2, <2>3
  <2>5. new \in Rows /\ new.status = row.status /\ new.role = row.role /\ new.version = v
    BY <2>4, PasswordSet
  <2> QED
    BY <2>1, <2>2, <2>3, <2>5
<1>6. account' \in [Users -> Rows \cup {NoAccount, Removed}]
    BY <1>1, <1>5 DEF Shaped
<1>7. \A v \in Users : Exists(v) => account[v].version \in Nat
    BY <1>1, ShapeFacts
<1>8. AccountKept(u)
    BY <1>1, <1>5 DEF AccountKept, Exists, NoAccount, Statuses
<1>9. \A v \in Users \ {u} : AccountKept(v)
    BY <1>4, <1>7 DEF AccountKept, Exists
<1>10. KeepersRemain'
    BY <1>4, <1>5, KeepersStay
<1> QED
    BY <1>3, <1>6, <1>8, <1>9, <1>10

\* No account and no role is touched.
LEMMA AccountsUntouched ==
    ASSUME AccessInv, UNCHANGED <<account, role>>
    PROVE  (\A u \in Users : AccountKept(u)) /\ KeepersRemain'
<1>1. \A u \in Users : Exists(u) => account[u].version \in Nat
    BY ShapeFacts DEF AccessInv
<1>2. \A u \in Users : AccountKept(u)
    BY <1>1 DEF AccountKept, Exists
<1> QED
    BY <1>2, KeepersStay

-----------------------------------------------------------------------------
(* The actions, one by one. *)

LEMMA LoginFits ==
    ASSUME AccessInv, NEW u \in Users, NEW d \in Devices, Login(u, d)
    PROVE  StepFits
<1> DEFINE s == NextSession(u)
<1>1. /\ Shaped /\ Exists(u) /\ account[u] \in Rows /\ account[u].version \in Nat
      /\ role[account[u].role].status = "ACTIVE"
    BY ShapeFacts DEF AccessInv, Login, CanLogin
<1>2. /\ account' = [account EXCEPT ![u].version = s.version]
      /\ cookie' \in {cookie, [cookie EXCEPT ![d] = s]} /\ role' = role /\ link' = link
    BY <1>1 DEF Login, DoLogin
<1>3. s = Session(u, account[u].version + 1, account[u].password)
    BY DEF NextSession
<1>4. s.version = account[u].version + 1 /\ s.user = u /\ s.password = account[u].password
    BY <1>3 DEF Session
<1>5. account'[u] = [account[u] EXCEPT !.version = s.version] /\ \A v \in Users \ {u} : account'[v] = account[v]
    BY <1>1, <1>2 DEF Shaped
<1>6. account'[u] \in Rows /\ account'[u].status = account[u].status /\ account'[u].role = account[u].role
      /\ account'[u].version = account[u].version + 1 /\ account'[u].password = account[u].password
    BY <1>1, <1>4, <1>5 DEF Rows
<1>7. Shaped'
  <2>1. account' \in [Users -> Rows \cup {NoAccount, Removed}]
    BY <1>1, <1>2, <1>5, <1>6 DEF Shaped
  <2>2. cookie' = [e \in Devices |-> cookie'[e]]
    BY <1>1, <1>2 DEF Shaped
  <2> QED
    BY <1>1, <1>2, <2>1, <2>2 DEF Shaped
<1>8. \A v \in Users : AccountKept(v)
  <2>1. \A v \in Users : Exists(v) => account[v].version \in Nat
    BY <1>1, ShapeFacts
  <2>2. AccountKept(u)
    BY <1>1, <1>2, <1>6 DEF AccountKept, Exists, NoAccount, Statuses
  <2>3. \A v \in Users \ {u} : AccountKept(v)
    BY <1>2, <1>5, <2>1 DEF AccountKept, Exists
  <2> QED
    BY <2>2, <2>3
<1>9. \A e \in Devices : CookieKept(e) \/ (cookie'[e] # NoCookie /\ Renewed(e))
  <2>1. CASE cookie' = cookie
    BY <2>1 DEF CookieKept
  <2>2. CASE cookie' = [cookie EXCEPT ![d] = s]
    <3>1. cookie'[d] = s /\ \A e \in Devices \ {d} : cookie'[e] = cookie[e]
        BY <1>1, <2>2 DEF Shaped
    <3>2. cookie'[d] # NoCookie
        BY <1>3, <3>1 DEF Session, NoCookie
    <3>3. account'[u].status \in Statuses
        BY <1>1, <1>6 DEF Exists
    <3>4. Renewed(d)
        BY <1>1, <1>2, <1>4, <1>6, <3>1, <3>3 DEF Renewed
    <3> QED
        BY <3>1, <3>2, <3>4 DEF CookieKept
  <2> QED
    BY <1>2, <2>1, <2>2
<1>10. KeepersRemain'
    BY <1>2, <1>5, <1>6, KeepersStay
<1> QED
    BY <1>7, <1>8, <1>9, <1>10 DEF StepFits

LEMMA ChangePasswordFits ==
    ASSUME AccessInv, NEW d \in Devices, ChangePassword(d)
    PROVE  StepFits
<1>1. PICK u : u = cookie[d].user
    OBVIOUS
<1> DEFINE s == NextSession(u)
<1> DEFINE row == SetPassword(account[u], s.version, "no")
<1>2. Shaped /\ CookiesFit
    BY DEF AccessInv
<1>3. Live(d) /\ DoChangePassword(u, d, s)
    BY <1>1 DEF ChangePassword
<1>4. u \in Users /\ Exists(u)
    BY <1>1, <1>2, <1>3 DEF CookiesFit, Live, DoChangePassword
<1>5. account[u] \in Rows /\ account[u].version \in Nat
    BY <1>2, <1>4, ShapeFacts
<1>6. role[account[u].role].status = "ACTIVE"
    BY <1>1, <1>2, <1>3, <1>4 DEF CookiesFit, Live
<1>7. s.version = account[u].version + 1 /\ s.user = u
    BY DEF NextSession, Session
<1>8. /\ account' = [account EXCEPT ![u] = SetPassword(@, account[u].version + 1, "no")]
      /\ role' = role /\ link' = link /\ cookie' = [cookie EXCEPT ![d] = [s EXCEPT !.password = row.password]]
    BY <1>3, <1>7 DEF DoChangePassword
<1>9. /\ account' \in [Users -> Rows \cup {NoAccount, Removed}]
      /\ \A v \in Users : AccountKept(v)
      /\ KeepersRemain'
      /\ account'[u] = SetPassword(account[u], account[u].version + 1, "no")
    BY <1>4, <1>8, SettingPassword
<1>10. /\ account'[u].status = account[u].status /\ account'[u].role = account[u].role
       /\ account'[u].version = account[u].version + 1 /\ account'[u].password = row.password
    BY <1>5, <1>7, <1>9 DEF SetPassword, Rows
<1>11. /\ cookie'[d] = [s EXCEPT !.password = row.password]
       /\ \A e \in Devices \ {d} : cookie'[e] = cookie[e]
       /\ cookie' = [e \in Devices |-> cookie'[e]]
    BY <1>2, <1>8 DEF Shaped
<1>12. cookie'[d].user = u /\ cookie'[d].version = account[u].version + 1 /\ cookie'[d].password = row.password
       /\ cookie'[d] # NoCookie
    BY <1>11 DEF NextSession, Session, NoCookie
<1>13. Renewed(d)
    BY <1>4, <1>6, <1>8, <1>10, <1>11, <1>12 DEF Renewed, Exists
<1>14. Shaped'
    BY <1>2, <1>8, <1>9, <1>11 DEF Shaped
<1> QED
    BY <1>9, <1>11, <1>12, <1>13, <1>14 DEF StepFits, CookieKept

LEMMA LinkStepFits ==
    ASSUME AccessInv, UNCHANGED <<account, role, cookie>>, link' \in [Links -> LinkRow \cup {NoLink}]
    PROVE  StepFits
<1>1. Shaped'
    BY DEF AccessInv, Shaped
<1> QED
    BY <1>1, AccountsUntouched DEF StepFits, CookieKept

LEMMA ForgotPasswordFits ==
    ASSUME AccessInv, NEW u \in Users, NEW l \in Links, ForgotPassword(u, l)
    PROVE  StepFits
<1>1. /\ UNCHANGED <<account, role, cookie>>
      /\ link' = [k \in Links |->
                  IF k = l THEN [state |-> "unused", user |-> u, uses |-> 0]
                  ELSE IF k \in UnusedLinks(u) /\ link[k] # NoLink THEN [link[k] EXCEPT !.state = "used"]
                  ELSE link[k]]
    BY DEF ForgotPassword, DoForgot
<1>2. \A k \in Links : link[k] \in LinkRow \cup {NoLink}
    BY DEF AccessInv, Shaped
<1>3. [state |-> "unused", user |-> u, uses |-> 0] \in LinkRow
    BY DEF LinkRow
<1>4. \A k \in Links : link[k] # NoLink => [link[k] EXCEPT !.state = "used"] \in LinkRow
    BY <1>2 DEF LinkRow
<1> QED
    BY <1>1, <1>2, <1>3, <1>4, LinkStepFits

LEMMA UnusedLinkFacts ==
    ASSUME AccessInv, NEW l \in Links, link[l].state = "unused"
    PROVE  link[l] \in LinkRow /\ link[l].user \in Users /\ link[l].uses \in Nat
BY DEF AccessInv, Shaped, LinkRow, NoLink

LEMMA ResetPasswordFits ==
    ASSUME AccessInv, NEW l \in Links, ResetPassword(l)
    PROVE  StepFits
<1>1. PICK u : u = link[l].user
    OBVIOUS
<1>2. link[l].state = "unused" /\ DoReset(u, l, account[u].version + 1)
    BY <1>1 DEF ResetPassword, CanReset
<1>3. link[l] \in LinkRow /\ u \in Users /\ link[l].uses \in Nat
    BY <1>1, <1>2, UnusedLinkFacts
<1>4. /\ Exists(u) /\ UNCHANGED <<role, cookie>>
      /\ account' = [account EXCEPT ![u] = SetPassword(@, account[u].version + 1, "no")]
      /\ link' = [link EXCEPT ![l] = [link[l] EXCEPT !.state = "used", !.uses = @ + 1]]
    BY <1>2 DEF DoReset
<1>5. /\ account' \in [Users -> Rows \cup {NoAccount, Removed}]
      /\ \A v \in Users : AccountKept(v)
      /\ KeepersRemain'
    BY <1>3, <1>4, SettingPassword
<1>6. PICK n \in Nat : n = link[l].uses + 1
    BY <1>3
<1>7. link' \in [Links -> LinkRow \cup {NoLink}]
  <2>1. link \in [Links -> LinkRow \cup {NoLink}]
    BY DEF AccessInv, Shaped
  <2> DEFINE Used(row, m) == [row EXCEPT !.state = "used", !.uses = m]
  <2>2. link' = [link EXCEPT ![l] = Used(link[l], link[l].uses + 1)]
    BY <1>4
  <2>3. Used(link[l], n) \in LinkRow
    BY <1>3 DEF LinkRow
  <2> HIDE DEF Used
  <2>4. link' = [link EXCEPT ![l] = Used(link[l], n)]
    BY <1>6, <2>2
  <2> QED
    BY <2>1, <2>3, <2>4
<1>8. Shaped'
    BY <1>4, <1>5, <1>7 DEF AccessInv, Shaped
<1> QED
    BY <1>4, <1>5, <1>8 DEF StepFits, CookieKept

LEMMA ResetCutShortFits ==
    ASSUME AccessInv, NEW l \in Links, ResetCutShort(l)
    PROVE  StepFits
<1>1. link[l].state = "unused" /\ UNCHANGED <<account, role, cookie>> /\ link' = [link EXCEPT ![l].state = "used"]
    BY DEF ResetCutShort, CanReset, DoConsume
<1>2. [link[l] EXCEPT !.state = "used"] \in LinkRow
    BY <1>1, UnusedLinkFacts DEF LinkRow
<1>3. link' \in [Links -> LinkRow \cup {NoLink}]
    BY <1>1, <1>2 DEF AccessInv, Shaped
<1> QED
    BY <1>1, <1>3, LinkStepFits

LEMMA ExpireLinkFits ==
    ASSUME AccessInv, NEW l \in Links, ExpireLink(l)
    PROVE  StepFits
<1>1. link[l].state = "unused" /\ UNCHANGED <<account, role, cookie>> /\ link' = [link EXCEPT ![l].state = "expired"]
    BY DEF ExpireLink
<1>2. [link[l] EXCEPT !.state = "expired"] \in LinkRow
    BY <1>1, UnusedLinkFacts DEF LinkRow
<1>3. link' \in [Links -> LinkRow \cup {NoLink}]
    BY <1>1, <1>2 DEF AccessInv, Shaped
<1> QED
    BY <1>1, <1>3, LinkStepFits

LEMMA LogoutFits ==
    ASSUME AccessInv, NEW d \in Devices, Logout(d)
    PROVE  StepFits
<1>1. UNCHANGED <<account, role, link>> /\ cookie' = [cookie EXCEPT ![d] = NoCookie]
    BY DEF Logout
<1>2. cookie'[d] = NoCookie /\ \A e \in Devices \ {d} : cookie'[e] = cookie[e]
    BY <1>1 DEF AccessInv, Shaped
<1>3. Shaped'
    BY <1>1 DEF AccessInv, Shaped
<1> QED
    BY <1>1, <1>2, <1>3, AccountsUntouched DEF StepFits, CookieKept

LEMMA ExpireTemporaryFits ==
    ASSUME AccessInv, NEW u \in Users, ExpireTemporary(u)
    PROVE  StepFits
<1>1. Exists(u) /\ account' = [account EXCEPT ![u].temporary = "expired"] /\ UNCHANGED <<role, cookie, link>>
    BY DEF ExpireTemporary
<1>2. Shaped /\ account[u] \in Rows
    BY <1>1, ShapeFacts DEF AccessInv
<1>3. account'[u] = [account[u] EXCEPT !.temporary = "expired"] /\ \A v \in Users \ {u} : account'[v] = account[v]
    BY <1>1, <1>2 DEF Shaped
<1>4. /\ account'[u] \in Rows /\ account'[u].status = account[u].status /\ account'[u].role = account[u].role
      /\ account'[u].version = account[u].version /\ account'[u].password = account[u].password
    BY <1>2, <1>3 DEF Rows
<1>5. Shaped'
    BY <1>1, <1>2, <1>4 DEF Shaped
<1>6. \A v \in Users : Exists(v) => account[v].version \in Nat
    BY <1>2, ShapeFacts
<1>7. \A v \in Users : AccountKept(v)
  <2>1. AccountKept(u)
    BY <1>1, <1>4, <1>6 DEF AccountKept, Exists, NoAccount, Statuses
  <2>2. \A v \in Users \ {u} : AccountKept(v)
    BY <1>1, <1>3, <1>6 DEF AccountKept, Exists
  <2> QED
    BY <2>1, <2>2
<1>8. KeepersRemain'
    BY <1>1, <1>3, <1>4, KeepersStay
<1> QED
    BY <1>1, <1>5, <1>7, <1>8 DEF StepFits, CookieKept

LEMMA CreateUserFits ==
    ASSUME AccessInv, NEW d \in Devices, NEW u \in Users, CreateUser(d, u)
    PROVE  StepFits
<1>1. PICK r \in Roles, b \in Branches \cup {NoBranch} : DoCreateUser(u, r, Placed(r, b))
    BY DEF CreateUser
<1>2. PICK new : new = [status |-> "ACTIVE", role |-> r, branch |-> Placed(r, b),
                        password |-> 0, temporary |-> "valid", version |-> 1]
    OBVIOUS
<1>3. account[u] = NoAccount /\ account' = [account EXCEPT ![u] = new] /\ UNCHANGED <<role, cookie, link>>
    BY <1>1, <1>2 DEF DoCreateUser
<1>4. Placed(r, b) \in Branches \cup {NoBranch}
    BY DEF Placed
<1>5. new \in Rows
    BY <1>2, <1>4 DEF Rows, Statuses
<1>6. Shaped /\ account'[u] = new /\ \A v \in Users \ {u} : account'[v] = account[v]
    BY <1>3 DEF AccessInv, Shaped
<1>7. Shaped'
    BY <1>3, <1>5, <1>6 DEF Shaped
<1>8. \A v \in Users : Exists(v) => account[v].version \in Nat
    BY <1>6, ShapeFacts
<1>9. \A v \in Users : AccountKept(v)
  <2>1. AccountKept(u)
    BY <1>3 DEF AccountKept, Exists, NoAccount, Statuses
  <2>2. \A v \in Users \ {u} : AccountKept(v)
    BY <1>3, <1>6, <1>8 DEF AccountKept, Exists
  <2> QED
    BY <2>1, <2>2
<1>10. account[u].status # "ACTIVE"
    BY <1>3 DEF NoAccount
<1>11. KeepersRemain'
    BY <1>3, <1>6, <1>10, KeepersStay
<1> QED
    BY <1>3, <1>7, <1>9, <1>11 DEF StepFits, CookieKept

LEMMA DeleteUserFits ==
    ASSUME AccessInv, NEW d \in Devices, NEW u \in Users, DeleteUser(d, u)
    PROVE  StepFits
<1>1. /\ Exists(u) /\ account' = [account EXCEPT ![u] = Removed] /\ UNCHANGED <<role, cookie>>
      /\ link' = [l \in Links |-> IF link[l] # NoLink /\ link[l].user = u THEN NoLink ELSE link[l]]
    BY DEF DeleteUser, DoDeleteUser
<1>2. ~LocksOut([account EXCEPT ![u] = Removed], role)
    BY DEF DeleteUser, CanDeleteUser
<1>3. Shaped /\ account'[u] = Removed /\ \A v \in Users \ {u} : account'[v] = account[v]
    BY <1>1 DEF AccessInv, Shaped
<1>4. Shaped'
    BY <1>1, <1>3 DEF Shaped
<1>5. \A v \in Users : Exists(v) => account[v].version \in Nat
    BY <1>3, ShapeFacts
<1>6. \A v \in Users : AccountKept(v)
  <2>1. AccountKept(u)
    BY <1>3 DEF AccountKept, Exists, NoAccount, Removed, Statuses
  <2>2. \A v \in Users \ {u} : AccountKept(v)
    BY <1>1, <1>3, <1>5 DEF AccountKept, Exists
  <2> QED
    BY <2>1, <2>2
<1>7. KeepersRemain'
  <2>1. ~LocksOut(account', role')
    BY <1>1, <1>2
  <2>2. \A key \in Keepers : ActiveHolders(account', role', key) # {}
    BY <2>1, NobodyLockedOut DEF AccessInv
  <2> QED
    BY <2>2 DEF KeepersRemain
<1> QED
    BY <1>1, <1>4, <1>6, <1>7 DEF StepFits, CookieKept

LEMMA CreateRoleFits ==
    ASSUME AccessInv, NEW d \in Devices, NEW r \in Roles, CreateRole(d, r)
    PROVE  StepFits
<1>1. PICK grants \in GrantChoices, singleton \in BOOLEAN : DoCreateRole(r, grants, singleton)
    BY DEF CreateRole
<1>2. PICK flag : flag = (singleton /\ ScopeOf[r] = "BRANCH")
    OBVIOUS
<1>3. flag \in BOOLEAN
    BY <1>2
<1>4. PICK new : new = [status |-> "ACTIVE", grants |-> grants, singleton |-> flag]
    OBVIOUS
<1>5. role[r] = NoRole /\ role' = [role EXCEPT ![r] = new] /\ UNCHANGED <<account, cookie, link>>
    BY <1>1, <1>2, <1>4 DEF DoCreateRole
<1>6. new \in RoleRow
    BY <1>3, <1>4, AccessAssumption DEF RoleRow, Statuses
<1>7. Shaped /\ role'[r] = new /\ \A q \in Roles \ {r} : role'[q] = role[q]
    BY <1>5 DEF AccessInv, Shaped
<1>8. Shaped'
    BY <1>5, <1>6, <1>7 DEF Shaped
<1>9. new.status = "ACTIVE"
    BY <1>4
<1>10. \A v \in Users : Exists(v) => account[v].version \in Nat /\ account[v].role \in Roles
    BY <1>7, ShapeFacts
<1>11. \A v \in Users : AccountKept(v)
    BY <1>5, <1>7, <1>9, <1>10 DEF AccountKept, Exists
<1>12. \A q \in Roles : Defined(q) => role'[q] = role[q]
    BY <1>5, <1>7 DEF Defined, NoRole, Statuses
<1>13. KeepersRemain'
    BY <1>5, <1>12, KeepersStay
<1> QED
    BY <1>5, <1>8, <1>11, <1>13 DEF StepFits, CookieKept

LEMMA DeleteRoleFits ==
    ASSUME AccessInv, NEW d \in Devices, NEW r \in Roles, DeleteRole(d, r)
    PROVE  StepFits
<1>1. NobodyHolds(r) /\ role' = [role EXCEPT ![r] = NoRole] /\ UNCHANGED <<account, cookie, link>>
    BY DEF DeleteRole, DoDeleteRole
<1>2. Shaped /\ role'[r] = NoRole /\ \A q \in Roles \ {r} : role'[q] = role[q]
    BY <1>1 DEF AccessInv, Shaped
<1>3. Shaped'
    BY <1>1, <1>2 DEF Shaped
<1>4. \A v \in Users : Exists(v) => account[v].version \in Nat /\ account[v].role \in Roles \ {r}
    BY <1>1, <1>2, ShapeFacts DEF NobodyHolds
<1>5. \A v \in Users : AccountKept(v)
    BY <1>1, <1>2, <1>4 DEF AccountKept, Exists
<1>6. KeepersRemain'
  <2>1. \A v \in Users : account[v].status = "ACTIVE" => account[v].role \in Roles \ {r}
    BY <1>4 DEF Exists, Statuses
  <2>2. \A v \in Users : account[v].status = "ACTIVE" /\ role[account[v].role].status = "ACTIVE" =>
               /\ account'[v].status = "ACTIVE" /\ account'[v].role = account[v].role
               /\ role'[account[v].role].status = "ACTIVE"
               /\ role[account[v].role].grants \subseteq role'[account[v].role].grants
    BY <1>1, <1>2, <2>1
  <2>3. \A key \in Keepers : ActiveHolders(account, role, key) # {}
    BY DEF AccessInv, KeepersRemain
  <2> QED
    BY <2>2, <2>3, HoldersStay
<1> QED
    BY <1>1, <1>3, <1>5, <1>6 DEF StepFits, CookieKept

LEMMA PatchUserFits ==
    ASSUME AccessInv, NEW d \in Devices, NEW u \in Users, PatchUser(d, u)
    PROVE  StepFits
<1>1. PICK in \in UserPatches :
          CanPatchUser(d, u, in) /\ DoPatchUser(u, in, NextRole(u, in), NextBranch(u, in))
    BY DEF PatchUser
<1>2. PICK row : row = account[u]
    OBVIOUS
<1>3. PICK r : r = NextRole(u, in)
    OBVIOUS
<1>4. PICK b : b = NextBranch(u, in)
    OBVIOUS
<1>5. PICK s : s = Given(in.status, row.status)
    OBVIOUS
<1>6. Shaped /\ Exists(u) /\ row \in Rows /\ row.version \in Nat
    BY <1>1, <1>2, ShapeFacts DEF AccessInv, CanPatchUser
<1>7. in.status \in Optional(Statuses) /\ in.role \in Optional(Roles) /\ in.branch \in Optional(Branches \cup {NoBranch})
    BY DEF UserPatches
<1>8. s \in Statuses
    BY <1>2, <1>5, <1>6, <1>7, GivenFits DEF Exists
<1>9. row.role \in Roles /\ row.branch \in Branches \cup {NoBranch}
    BY <1>6 DEF Rows
<1>10. r \in Roles
    BY <1>2, <1>3, <1>7, <1>9, GivenFits DEF NextRole
<1>11. b \in Branches \cup {NoBranch}
  <2>1. Given(in.branch, row.branch) \in Branches \cup {NoBranch}
    BY <1>7, <1>9, GivenFits
  <2> QED
    BY <1>2, <1>4, <1>9, <2>1 DEF NextBranch, Placed
<1>12. PICK moved : moved = [row EXCEPT !.status = s, !.role = r, !.branch = b]
    OBVIOUS
<1>13. /\ moved \in Rows /\ moved.status = s /\ moved.role = r
       /\ moved.version = row.version /\ moved.password = row.password
    BY <1>6, <1>8, <1>10, <1>11, <1>12 DEF Rows
<1>14. PICK v \in Nat : v = row.version + 1
    BY <1>6
<1>15. PICK new : new = IF in.password THEN SetPassword(moved, v, "valid") ELSE moved
    OBVIOUS
<1>16. account' = [account EXCEPT ![u] = new] /\ UNCHANGED <<role, cookie, link>>
    BY <1>1, <1>2, <1>3, <1>4, <1>5, <1>12, <1>14, <1>15 DEF DoPatchUser
<1>17. /\ new \in Rows /\ new.status = s /\ new.role = r /\ new.version >= row.version /\ new.version \in Nat
       /\ new.version = row.version => new.password = row.password
  <2>1. CASE in.password
    <3>1. PICK m \in Rows : m = moved /\ new = SetPassword(m, v, "valid")
        BY <1>13, <1>15, <2>1
    <3>2. new \in Rows /\ new.status = m.status /\ new.role = m.role /\ new.version = v
        BY <3>1, PasswordSet
    <3> QED
        BY <1>6, <1>13, <1>14, <3>1, <3>2
  <2>2. CASE ~in.password
    BY <1>6, <1>13, <1>15, <2>2
  <2> QED
    BY <2>1, <2>2
<1>18. account'[u] = new /\ \A w \in Users \ {u} : account'[w] = account[w]
    BY <1>6, <1>16 DEF Shaped
<1>19. Shaped'
    BY <1>6, <1>16, <1>17, <1>18 DEF Shaped
<1>20. r = row.role \/ role[r].status = "ACTIVE"
  <2>1. CASE in.role = {}
    BY <1>2, <1>3, <1>7, <1>9, <2>1, GivenFits DEF NextRole
  <2>2. CASE in.role # {}
    <3>1. Moves(in)
        BY <2>2 DEF Moves
    <3> QED
        BY <1>1, <1>3, <3>1 DEF CanPatchUser, Assignable
  <2> QED
    BY <2>1, <2>2
<1>21. \A w \in Users : Exists(w) => account[w].version \in Nat
    BY <1>6, ShapeFacts
<1>22. \A w \in Users : AccountKept(w)
  <2>1. account[u] # NoAccount /\ account'[u] # NoAccount
    BY <1>6, <1>8, <1>17, <1>18 DEF Exists, NoAccount, Statuses
  <2>2. AccountKept(u)
    BY <1>2, <1>6, <1>16, <1>17, <1>18, <1>20, <2>1 DEF AccountKept
  <2>3. \A w \in Users \ {u} : AccountKept(w)
    BY <1>16, <1>18, <1>21 DEF AccountKept, Exists
  <2> QED
    BY <2>2, <2>3
<1>23. KeepersRemain'
  <2>1. CASE s = row.status /\ r = row.role
    BY <1>2, <1>16, <1>17, <1>18, <2>1, KeepersStay
  <2>2. CASE s # row.status \/ r # row.role
    <3>1. PICK accounts : accounts = [account EXCEPT ![u].status = s, ![u].role = r]
        OBVIOUS
    <3>2. ~LocksOut(accounts, role)
        BY <1>1, <1>2, <1>3, <1>5, <2>2, <3>1 DEF CanPatchUser
    <3>3. \A key \in Keepers : ActiveHolders(accounts, role, key) # {}
        BY <3>2, NobodyLockedOut DEF AccessInv
    <3>4. accounts[u].status = s /\ accounts[u].role = r /\ \A w \in Users \ {u} : accounts[w] = account[w]
      <4>1. accounts[u] = [row EXCEPT !.status = s, !.role = r] /\ \A w \in Users \ {u} : accounts[w] = account[w]
        BY <1>2, <1>6, <3>1 DEF Shaped
      <4> QED
        BY <1>6, <4>1 DEF Rows
    <3>5. \A w \in Users : accounts[w].status = account'[w].status /\ accounts[w].role = account'[w].role
        BY <1>17, <1>18, <3>4
    <3>6. \A w \in Users : accounts[w].status = "ACTIVE" /\ role[accounts[w].role].status = "ACTIVE" =>
               /\ account'[w].status = "ACTIVE" /\ account'[w].role = accounts[w].role
               /\ role'[accounts[w].role].status = "ACTIVE"
               /\ role[accounts[w].role].grants \subseteq role'[accounts[w].role].grants
        BY <1>16, <3>5
    <3> QED
        BY <3>3, <3>6, HoldersStay
  <2> QED
    BY <2>1, <2>2
<1> QED
    BY <1>16, <1>19, <1>22, <1>23 DEF StepFits, CookieKept

LEMMA PatchRoleFits ==
    ASSUME AccessInv, NEW d \in Devices, NEW r \in Roles, PatchRole(d, r)
    PROVE  StepFits
<1>1. PICK in \in RolePatches : CanPatchRole(d, r, in) /\ DoPatchRole(r, in, Deactivates(r, in))
    BY DEF PatchRole
<1>2. PICK row : row = role[r]
    OBVIOUS
<1>3. PICK s : s = Given(in.status, row.status)
    OBVIOUS
<1>4. PICK g : g = Given(in.grants, row.grants)
    OBVIOUS
<1>5. PICK f : f = Given(in.singleton, row.singleton)
    OBVIOUS
<1>6. Shaped /\ Defined(r) /\ row \in RoleRow
    BY <1>1, <1>2, ShapeFacts DEF AccessInv, CanPatchRole
<1>7. in.status \in Optional(Statuses) /\ in.grants \in Optional(GrantChoices) /\ in.singleton \in Optional(BOOLEAN)
    BY DEF RolePatches
<1>8. row.status \in Statuses /\ row.grants \in SUBSET Permissions /\ row.singleton \in BOOLEAN
    BY <1>6 DEF RoleRow
<1>9. s \in Statuses /\ f \in BOOLEAN
    BY <1>3, <1>5, <1>7, <1>8, GivenFits
<1>10. in.grants \in Optional(SUBSET Permissions)
    BY <1>7, AccessAssumption DEF Optional
<1>11. g \in SUBSET Permissions
    BY <1>4, <1>8, <1>10, GivenFits
<1>12. PICK new : new = [status |-> s, grants |-> g, singleton |-> f]
    OBVIOUS
<1>13. new \in RoleRow /\ new.status = s /\ new.grants = g
    BY <1>9, <1>11, <1>12 DEF RoleRow
<1>14. /\ role' = [role EXCEPT ![r] = new] /\ UNCHANGED <<cookie, link>>
       /\ account' = [u \in Users |->
              IF Deactivates(r, in) /\ Exists(u) /\ account[u].role = r
                THEN [account[u] EXCEPT !.version = @ + 1] ELSE account[u]]
    BY <1>1, <1>2, <1>3, <1>4, <1>5, <1>12 DEF DoPatchRole
<1>15. role'[r] = new /\ \A q \in Roles \ {r} : role'[q] = role[q]
    BY <1>6, <1>14 DEF Shaped
<1>16. ASSUME NEW u \in Users, Exists(u)
       PROVE  /\ account'[u] \in Rows /\ account[u] \in Rows
              /\ account'[u].status = account[u].status /\ account'[u].role = account[u].role
              /\ account'[u].password = account[u].password
              /\ account[u].version \in Nat
              /\ account'[u].version = IF Deactivates(r, in) /\ account[u].role = r
                                         THEN account[u].version + 1 ELSE account[u].version
  <2>1. account[u] \in Rows /\ account[u].version \in Nat
    BY <1>6, <1>16, ShapeFacts
  <2>2. CASE Deactivates(r, in) /\ account[u].role = r
    <3>1. account'[u] = [account[u] EXCEPT !.version = account[u].version + 1]
        BY <1>14, <1>16, <2>2
    <3>2. PICK v \in Nat : v = account[u].version + 1
        BY <2>1
    <3>3. account'[u] = [account[u] EXCEPT !.version = v]
        BY <3>1, <3>2
    <3>4. /\ account'[u] \in Rows /\ account'[u].version = v
          /\ account'[u].status = account[u].status /\ account'[u].role = account[u].role
          /\ account'[u].password = account[u].password
        BY <2>1, <3>3 DEF Rows
    <3> QED
        BY <2>1, <2>2, <3>2, <3>4
  <2>3. CASE ~(Deactivates(r, in) /\ account[u].role = r)
    BY <1>14, <2>1, <2>3
  <2> QED
    BY <2>2, <2>3
<1>17. \A u \in Users : ~Exists(u) => account'[u] = account[u]
    BY <1>14
<1>18. Shaped'
  <2>1. \A u \in Users : account'[u] \in Rows \cup {NoAccount, Removed}
    BY <1>6, <1>16, <1>17, ShapeFacts
  <2>2. account' \in [Users -> Rows \cup {NoAccount, Removed}]
    BY <1>14, <2>1
  <2> QED
    BY <1>6, <1>13, <1>14, <2>2 DEF Shaped
<1>19. role[r].status = "ACTIVE" => role'[r].status = "ACTIVE" \/ Deactivates(r, in)
  <2>1. CASE in.status = {}
    BY <1>2, <1>3, <1>7, <1>8, <1>13, <1>15, <2>1, GivenFits
  <2>2. CASE in.status # {}
    <3>1. in.status = {s}
        BY <1>3, <1>7, <1>8, <2>2, GivenFits
    <3> QED
        BY <1>9, <1>13, <1>15, <3>1 DEF Deactivates, Statuses
  <2> QED
    BY <2>1, <2>2
<1>20. ASSUME NEW u \in Users
       PROVE  AccountKept(u)
  <2>1. CASE ~Exists(u)
    BY <1>17, <2>1 DEF AccountKept, Exists
  <2>2. CASE Exists(u)
    <3>1. account'[u] # NoAccount
        BY <1>16, <2>2 DEF Exists, NoAccount, Statuses
    <3>2. account'[u].version >= account[u].version
        BY <1>16, <2>2
    <3>3. account[u].role \in Roles
        BY <1>6, <2>2, ShapeFacts
    <3>4. account'[u].version = account[u].version =>
            (role[account[u].role].status = "ACTIVE" => role'[account'[u].role].status = "ACTIVE")
        BY <1>15, <1>16, <1>19, <2>2, <3>3
    <3> QED
        BY <1>16, <2>2, <3>1, <3>2, <3>4 DEF AccountKept
  <2> QED
    BY <2>1, <2>2
<1>21. KeepersRemain'
  <2>1. PICK roles : roles = [role EXCEPT ![r].status = s, ![r].grants = g]
    OBVIOUS
  <2>2. ~LocksOut(account, roles)
    BY <1>1, <1>2, <1>3, <1>4, <2>1 DEF CanPatchRole
  <2>3. \A key \in Keepers : ActiveHolders(account, roles, key) # {}
    BY <2>2, NobodyLockedOut DEF AccessInv
  <2>4. roles[r].status = s /\ roles[r].grants = g /\ \A q \in Roles \ {r} : roles[q] = role[q]
    <3>1. roles[r] = [row EXCEPT !.status = s, !.grants = g] /\ \A q \in Roles \ {r} : roles[q] = role[q]
        BY <1>2, <1>6, <2>1 DEF Shaped
    <3> QED
        BY <1>6, <3>1 DEF RoleRow
  <2>5. \A q \in Roles : roles[q].status = role'[q].status /\ roles[q].grants = role'[q].grants
    BY <1>13, <1>15, <2>4
  <2>6. \A u \in Users : account[u].status = "ACTIVE" =>
            Exists(u) /\ account[u].role \in Roles
    BY <1>6, ShapeFacts DEF Exists, Statuses
  <2>7. \A u \in Users : account[u].status = "ACTIVE" /\ roles[account[u].role].status = "ACTIVE" =>
               /\ account'[u].status = "ACTIVE" /\ account'[u].role = account[u].role
               /\ role'[account[u].role].status = "ACTIVE"
               /\ roles[account[u].role].grants \subseteq role'[account[u].role].grants
    BY <1>16, <2>5, <2>6
  <2> QED
    BY <2>3, <2>7, HoldersStay
<1> QED
    BY <1>14, <1>18, <1>20, <1>21 DEF StepFits, CookieKept

-----------------------------------------------------------------------------
(* The properties. *)

LEMMA InitialAccess == Init => AccessInv
<1> SUFFICES ASSUME Init PROVE AccessInv
    OBVIOUS
<1>1. \A u \in Users : account[u] \in Rows \cup {NoAccount}
  <2>1. SUFFICES ASSUME NEW u \in Users, u \in DOMAIN Staff PROVE account[u] \in Rows
    BY DEF Init
  <2>2. Staff[u].role \in Roles /\ Staff[u].branch \in Branches \cup {NoBranch}
    BY <2>1, AccessAssumption, StaffAssumption
  <2> QED
    BY <2>1, <2>2 DEF Init, Rows, Statuses
<1>2. \A r \in Roles : role[r] \in RoleRow \cup {NoRole}
  <2>1. SUFFICES ASSUME NEW r \in Roles, r \in System PROVE role[r] \in RoleRow
    BY DEF Init
  <2>2. (IF r = Admin THEN Permissions ELSE {}) \in SUBSET Permissions /\ (ScopeOf[r] = "BRANCH") \in BOOLEAN
    OBVIOUS
  <2>3. role[r] = [status |-> "ACTIVE", grants |-> IF r = Admin THEN Permissions ELSE {},
                   singleton |-> ScopeOf[r] = "BRANCH"]
    BY <2>1 DEF Init
  <2> QED
    BY <2>2, <2>3 DEF RoleRow, Statuses
<1>3. Shaped
    BY <1>1, <1>2 DEF Init, Shaped
<1>4. \A d \in Devices : cookie[d] = NoCookie
    BY DEF Init
<1>5. CookiesFit /\ VersionsDiffer
    BY <1>4 DEF CookiesFit, VersionsDiffer
<1>6. KeepersRemain
  <2>1. PICK u \in Users : u \in DOMAIN Staff /\ Staff[u].role = Admin
    BY StaffAssumption
  <2>2. account[u].status = "ACTIVE" /\ account[u].role = Admin
    BY <2>1 DEF Init
  <2>3. Admin \in Roles /\ role[Admin].status = "ACTIVE" /\ role[Admin].grants = Permissions
    BY AccessAssumption DEF Init
  <2>4. \A key \in Keepers : u \in ActiveHolders(account, role, key)
    BY <2>2, <2>3 DEF ActiveHolders, Keepers, Permissions
  <2> QED
    BY <2>4 DEF KeepersRemain
<1> QED
    BY <1>3, <1>5, <1>6 DEF AccessInv

LEMMA EveryStepFits ==
    ASSUME AccessInv, Next
    PROVE  StepFits
<1>1. CASE \E u \in Users, d \in Devices : Login(u, d) \/ AccountStep(d, u)
    BY <1>1, LoginFits, CreateUserFits, PatchUserFits, DeleteUserFits DEF AccountStep
<1>2. CASE \E d \in Devices : ChangePassword(d)
    BY <1>2, ChangePasswordFits
<1>3. CASE \E u \in Users, l \in Links : ForgotPassword(u, l)
    BY <1>3, ForgotPasswordFits
<1>4. CASE \E l \in Links : ResetPassword(l) \/ ResetCutShort(l)
    BY <1>4, ResetPasswordFits, ResetCutShortFits
<1>5. CASE \E d \in Devices, r \in Roles : RoleStep(d, r)
    BY <1>5, CreateRoleFits, PatchRoleFits, DeleteRoleFits DEF RoleStep
<1>6. CASE Passing
    BY <1>6, LogoutFits, ExpireTemporaryFits, ExpireLinkFits DEF Passing, SessionOver
<1> QED
    BY <1>1, <1>2, <1>3, <1>4, <1>5, <1>6 DEF Next

LEMMA InvariantStep == AccessInv /\ [Next]_accessVars => AccessInv'
<1>1. ASSUME AccessInv, Next PROVE AccessInv'
    BY <1>1, EveryStepFits, StepKeepsInvariant
<1>2. ASSUME AccessInv, UNCHANGED accessVars PROVE AccessInv'
    BY <1>2 DEF AccessInv, Shaped, CookiesFit, VersionsDiffer, KeepersRemain, accessVars, Exists, ActiveHolders
<1> QED
    BY <1>1, <1>2

LEMMA AlwaysInv == Spec => []AccessInv
BY InitialAccess, InvariantStep, PTL DEF Spec

\* Whatever accounts and roles go through - any number of them - somebody
\* active holds each of the two keeper permissions.
THEOREM KeepersAlwaysRemain == Spec => []KeepersRemain
<1>1. AccessInv => KeepersRemain
    BY DEF AccessInv
<1> QED
    BY <1>1, AlwaysInv, PTL

\* Of all the devices a user ever logged in on, at most one is honoured.
THEOREM OneSessionPerUser == Spec => []SingleSession
<1>1. AccessInv => SingleSession
    BY DEF AccessInv, VersionsDiffer, SingleSession, Live
<1> QED
    BY <1>1, AlwaysInv, PTL

LEMMA LiveFacts ==
    ASSUME AccessInv, NEW d \in Devices, Live(d)
    PROVE  /\ cookie[d].password = account[cookie[d].user].password
           /\ role[account[cookie[d].user].role].status = "ACTIVE"
BY DEF AccessInv, CookiesFit, Live, Exists, Statuses

\* No session outlives the password it was obtained under.
THEOREM NoSessionOutlivesPassword == Spec => []SessionsUnderCurrentPassword
<1>1. AccessInv => SessionsUnderCurrentPassword
    BY LiveFacts DEF SessionsUnderCurrentPassword
<1> QED
    BY <1>1, AlwaysInv, PTL

\* Nobody works in a role that is not active.
THEOREM NobodyWorksInDeadRole == Spec => []LiveRoleActive
<1>1. AccessInv => LiveRoleActive
    BY LiveFacts DEF LiveRoleActive
<1> QED
    BY <1>1, AlwaysInv, PTL

\* A session that was signed out is signed out for good.
THEOREM SignedOutForGood == Spec => RevokedStaysRevoked
<1> DEFINE Kept == \A d \in Devices :
          LET u == cookie[d].user
          IN  /\ cookie[d] # NoCookie /\ cookie'[d] = cookie[d]
              /\ Exists(u) /\ cookie[d].version # account[u].version
              => ~(Exists(u)' /\ cookie[d].version = account'[u].version)
<1>1. ASSUME AccessInv, Next PROVE Kept
  <2>1. SUFFICES ASSUME NEW d \in Devices, NEW u, u = cookie[d].user,
                        cookie[d] # NoCookie, Exists(u), cookie[d].version # account[u].version, Exists(u)'
                 PROVE  cookie[d].version # account'[u].version
    OBVIOUS
  <2>2. u \in Users /\ cookie[d].version \in Nat /\ cookie[d].version <= account[u].version
    BY <1>1, <2>1 DEF AccessInv, CookiesFit
  <2>3. AccountKept(u) /\ Shaped'
    BY <1>1, <2>2, EveryStepFits DEF StepFits
  <2>4. account[u].version \in Nat
    BY <1>1, <2>1, <2>2, ShapeFacts DEF AccessInv
  <2>5. account'[u].version \in Nat
    BY <2>1, <2>2, <2>3 DEF Shaped, Exists, Rows, Statuses, NoAccount, Removed
  <2>6. account'[u].version >= account[u].version
    BY <2>1, <2>3 DEF AccountKept
  <2> QED
    BY <2>1, <2>2, <2>4, <2>5, <2>6
<1>2. AccessInv /\ [Next]_accessVars => [Kept]_accessVars
    BY <1>1
<1> QED
    BY <1>2, AlwaysInv, PTL DEF Spec, RevokedStaysRevoked
=============================================================================
