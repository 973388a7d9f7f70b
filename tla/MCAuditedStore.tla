--------------------------- MODULE MCAuditedStore ---------------------------
(***************************************************************************)
(* Instances of AuditedStore: three concurrent requests, two of them on    *)
(* the same row, appending one or two audit entries each (a handler that   *)
(* queues a finding after deciding on it appends two).                     *)
(***************************************************************************)
EXTENDS AuditedStore, TLC

CONSTANTS r1, r2, r3, finding, settings

MCTouches == (r1 :> finding) @@ (r2 :> finding) @@ (r3 :> settings)
MCEntries == (r1 :> 1) @@ (r2 :> 2) @@ (r3 :> 1)
=============================================================================
