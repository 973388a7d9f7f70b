------------------------------ MODULE MCAccess ------------------------------
(***************************************************************************)
(* Instances of Access.                                                    *)
(***************************************************************************)
EXTENDS Access, TLC

CONSTANTS a, b, c, admin, manager, x, d1, d2, l1, l2

MCScopeOf == admin :> "BANK" @@ manager :> "BRANCH"
OneAdmin == a :> [role |-> admin, branch |-> NoBranch]
TwoAdmins == OneAdmin @@ b :> [role |-> admin, branch |-> NoBranch]
AdminAndManager == OneAdmin @@ b :> [role |-> manager, branch |-> x]
OnlyAll == {Permissions}
None == {}
MCSymmetry == Permutations(Devices) \cup Permutations(Links)
=============================================================================
