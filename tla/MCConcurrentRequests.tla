------------------------ MODULE MCConcurrentRequests ------------------------
(***************************************************************************)
(* Instances of ConcurrentRequests: two requests at a time about one       *)
(* finding and its periods.  Head office plays every part: who asks makes  *)
(* no difference to how two requests interleave.                           *)
(***************************************************************************)
EXTENDS ConcurrentRequests, TLC

CONSTANTS ho, f1, w1, w2, p1, p2, p3

EveryGrant ==
    {"create", "edit", "delete", "delete-rejected", "submit"} \cup Stages \cup
    {"rectify", "verify-rectification", "close", "return-rectification", "reopen", "transfer",
     "reporting-periods.create", "reporting-periods.lock", "reporting-periods.delete"}

MCGrants == ho :> EveryGrant
MCScope == ho :> {f1}

MCSymmetry == Permutations(Periods) \cup Permutations(Workers)

OneCase == {[d \in Dim |-> 1]}
None == {}
=============================================================================
