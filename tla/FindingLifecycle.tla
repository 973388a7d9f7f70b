-------------------------- MODULE FindingLifecycle --------------------------
(***************************************************************************)
(* What the finding workflow promises, seen from outside: a finding is     *)
(* registered, amended until it is submitted, reviewed, and then owed by   *)
(* the branch until every case and all the money have been formally        *)
(* settled; only a reopening takes back what was settled, and it takes     *)
(* back all of it.  A finding brought in from before the system can be     *)
(* withdrawn again at any time; one registered here cannot.  Periods,      *)
(* rectifications, verifications, corrections and transfers are how the    *)
(* workflow gets there and do not show.                                    *)
(***************************************************************************)
EXTENDS Integers

CONSTANT Findings

VARIABLES record,       \* record[f]: what is known of f
          backfilled    \* the findings of the time before the system

Dim == {"cases", "amount"}
Quantity == [Dim -> Nat]
Nothing == [d \in Dim |-> 0]
Within(q, r) == \A d \in Dim : q[d] <= r[d]

Unknown == [phase |-> "unknown"]

Known == [phase : {"registering", "reviewing", "rejected", "owing", "settled"},
          owed : Quantity, paid : Quantity]

Init == record = [f \in Findings |-> Unknown] /\ backfilled = {}

\* f alone changes, to a row of one of the phases
Becomes(f, phases) ==
    /\ record'[f] \in Known
    /\ record'[f].phase \in phases
    /\ record' = [record EXCEPT ![f] = record'[f]]

Draws(f) == record'[f].owed["cases"] > 0 /\ record'[f].paid = Nothing

Owes(f) == record'[f].owed = record[f].owed

\* A registration, submitted at once or kept as a draft
Register(f) ==
    /\ record[f] = Unknown
    /\ Becomes(f, {"registering", "reviewing", "owing"})
    /\ Draws(f)

Amend(f) ==
    /\ record[f].phase = "registering"
    /\ Becomes(f, {"registering"})
    /\ Draws(f)

\* Head office's own findings may go to the branch without a review.
Submit(f) ==
    /\ record[f].phase = "registering"
    /\ Becomes(f, {"reviewing", "owing"})
    /\ Draws(f) /\ Owes(f)

Review(f) ==
    /\ record[f].phase = "reviewing"
    /\ Becomes(f, {"reviewing", "registering", "rejected", "owing"})
    /\ Draws(f) /\ Owes(f)

Discard(f) ==
    /\ record[f].phase \in {"registering", "rejected"}
    /\ record' = [record EXCEPT ![f] = Unknown]

\* Part of what is owed is settled; the finding is, exactly when all of it is.
Settle(f) ==
    /\ record[f].phase = "owing"
    /\ Becomes(f, {"owing", "settled"})
    /\ Owes(f)
    /\ Within(record[f].paid, record'[f].paid)
    /\ Within(record'[f].paid, record[f].owed)
    /\ record'[f].phase = "settled" <=> record'[f].paid = record[f].owed

Reopen(f) ==
    /\ record[f].phase \in {"owing", "settled"}
    /\ Becomes(f, {"owing"})
    /\ Owes(f) /\ record'[f].paid = Nothing

\* A record of the time before the system, as far along as it was then
Backfill(f) ==
    /\ record[f] = Unknown
    /\ Becomes(f, {"owing", "settled"})
    /\ record'[f].owed["cases"] > 0
    /\ Within(record'[f].paid, record'[f].owed)
    /\ record'[f].phase = "settled" <=> record'[f].paid = record'[f].owed
    /\ backfilled' = backfilled \cup {f}

\* Some of those records are taken back, however far they have come.
Withdraw(S) ==
    /\ S # {} /\ S \subseteq backfilled
    /\ \A f \in S : record[f].phase \in {"owing", "settled"}
    /\ record' = [f \in Findings |-> IF f \in S THEN Unknown ELSE record[f]]
    /\ backfilled' = backfilled \ S

Next ==
    \/ \E f \in Findings :
          /\ \/ Register(f) \/ Amend(f) \/ Submit(f) \/ Review(f) \/ Discard(f)
             \/ Settle(f) \/ Reopen(f)
          /\ UNCHANGED backfilled
    \/ \E f \in Findings : Backfill(f)
    \/ \E S \in SUBSET Findings : Withdraw(S)

Spec == Init /\ [][Next]_<<record, backfilled>>
=============================================================================
