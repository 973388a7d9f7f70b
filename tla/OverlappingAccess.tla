-------------------------- MODULE OverlappingAccess --------------------------
(***************************************************************************)
(* The routes of Access when requests overlap: each checks on its first    *)
(* read and writes, later, the values it took from it.                     *)
(***************************************************************************)
EXTENDS Access

CONSTANT Workers   \* requests in progress at a time, at most

VARIABLE pending   \* pending[w]: the request w decided on and has not written

vars == <<accessVars, pending>>

Idle == [op |-> "none"]

Asks(op, x, arg) == [op |-> op, of |-> x, arg |-> arg]

-----------------------------------------------------------------------------
(* The first half. *)

Begins(w, request) ==
    /\ pending[w] = Idle
    /\ pending' = [pending EXCEPT ![w] = request]
    /\ UNCHANGED accessVars

BeginLogin(w, u, d) ==
    CanLogin(u) /\ Begins(w, Asks("login", u, [device |-> d, session |-> NextSession(u)]))

BeginChangePassword(w, d) ==
    /\ Live(d)
    /\ Begins(w, Asks("change-password", cookie[d].user,
                      [device |-> d, session |-> NextSession(cookie[d].user)]))

\* The links the transaction sees are the ones it puts out of use.
BeginForgot(w, u, l) ==
    CanForgot(u, l) /\ Begins(w, Asks("forgot", l, [user |-> u, marked |-> UnusedLinks(u)]))

BeginReset(w, l) ==
    /\ CanReset(l)
    /\ Begins(w, Asks("reset", l, [user |-> link[l].user, version |-> account[link[l].user].version + 1]))

BeginAccount(w, d, u) ==
    \/ \E r \in Roles, b \in Branches \cup {NoBranch} :
          /\ CanCreateUser(d, u, r, b)
          /\ Begins(w, Asks("create-user", u, [role |-> r, branch |-> Placed(r, b)]))
    \/ \E in \in UserPatches :
          /\ CanPatchUser(d, u, in)
          /\ Begins(w, Asks("patch-user", u,
                            [in |-> in, role |-> NextRole(u, in), branch |-> NextBranch(u, in)]))
    \/ CanDeleteUser(d, u) /\ Begins(w, Asks("delete-user", u, {}))

BeginRole(w, d, r) ==
    \/ \E grants \in GrantChoices, singleton \in BOOLEAN :
          /\ CanCreateRole(d, r)
          /\ Begins(w, Asks("create-role", r, [grants |-> grants, singleton |-> singleton]))
    \/ \E in \in RolePatches :
          /\ CanPatchRole(d, r, in)
          /\ Begins(w, Asks("patch-role", r, [in |-> in, signsOut |-> Deactivates(r, in)]))
    \/ CanDeleteRole(d, r) /\ Begins(w, Asks("delete-role", r, {}))

Begin(w) ==
    \/ \E u \in Users, d \in Devices : BeginLogin(w, u, d) \/ BeginAccount(w, d, u)
    \/ \E d \in Devices : BeginChangePassword(w, d)
    \/ \E u \in Users, l \in Links : BeginForgot(w, u, l)
    \/ \E l \in Links : BeginReset(w, l)
    \/ \E d \in Devices, r \in Roles : BeginRole(w, d, r)

-----------------------------------------------------------------------------
(* The second half. *)

Asked(w, op) == pending[w].op = op

\* The first of the two writes of reset-password
Consume(w) ==
    /\ Asked(w, "reset") /\ DoConsume(pending[w].of)
    /\ pending' = [pending EXCEPT ![w].op = "consumed"]

Commit(w) ==
    LET of == pending[w].of
        arg == pending[w].arg
    IN  /\ \/ Asked(w, "login") /\ DoLogin(of, arg.device, arg.session)
           \/ Asked(w, "change-password") /\ DoChangePassword(of, arg.device, arg.session)
           \/ Asked(w, "forgot") /\ DoForgot(arg.user, of, arg.marked)
           \/ Asked(w, "consumed") /\ DoReset(arg.user, of, arg.version)
           \/ Asked(w, "create-user") /\ DoCreateUser(of, arg.role, arg.branch)
           \/ Asked(w, "patch-user") /\ DoPatchUser(of, arg.in, arg.role, arg.branch)
           \/ Asked(w, "delete-user") /\ DoDeleteUser(of)
           \/ Asked(w, "create-role") /\ DoCreateRole(of, arg.grants, arg.singleton)
           \/ Asked(w, "patch-role") /\ DoPatchRole(of, arg.in, arg.signsOut)
           \/ Asked(w, "delete-role") /\ DoDeleteRole(of)
        /\ pending' = [pending EXCEPT ![w] = Idle]

\* The write is refused, or the process dies.
Fail(w) ==
    /\ pending[w] # Idle
    /\ pending' = [pending EXCEPT ![w] = Idle]
    /\ UNCHANGED accessVars

OInit == Init /\ pending = [w \in Workers |-> Idle]

ONext ==
    /\ \/ \E w \in Workers : Begin(w) \/ Consume(w) \/ Commit(w) \/ Fail(w)
       \/ Passing /\ UNCHANGED pending
    /\ InBounds'

OverlappingSpec == OInit /\ [][ONext]_vars
=============================================================================
