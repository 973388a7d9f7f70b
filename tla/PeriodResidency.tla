--------------------------- MODULE PeriodResidency ---------------------------
(***************************************************************************)
(* The slice of a finding that belongs to one reporting period, which every*)
(* dashboard, report and performance figure of that period is computed     *)
(* from: findingResidencyInPeriod, closedInPeriod and their callers in     *)
(* src/lib/findings.ts.  moves are the transfers of one finding (oldest    *)
(* first), home its current period, total what was registered.             *)
(***************************************************************************)
EXTENDS Integers, Sequences, FiniteSetsExt, Sums

\* The finding's stays, in order: the origin, then one per transfer.
Stays(moves, home, total) ==
    IF moves = <<>>
    THEN << [period |-> home, arrived |-> total] >>
    ELSE << [period |-> moves[1].from, arrived |-> total] >> \o
         [i \in DOMAIN moves |-> [period |-> moves[i].to, arrived |-> moves[i].qty]]

StaysIn(moves, home, total, p) ==
    LET stays == Stays(moves, home, total) IN {i \in DOMAIN stays : stays[i].period = p}

\* What arrived with the i-th stay and was not carried onward by its transfer
Kept(moves, home, total, i, d) ==
    Stays(moves, home, total)[i].arrived[d]
        - (IF i \in DOMAIN moves THEN moves[i].qty[d] ELSE 0)

\* findingResidencyInPeriod().eligibleCases / eligibleAmount
EligibleIn(moves, home, total, p, d) ==
    LET stays == Stays(moves, home, total)
    IN  SumOf([i \in DOMAIN stays |-> IF stays[i].period = p THEN Kept(moves, home, total, i, d) ELSE 0])

EnteredBefore(moves, home, total, p) ==
    LET stays == StaysIn(moves, home, total, p)
    IN  stays # {} /\ Max(stays) - 1 \notin DOMAIN moves

\* exitTransfer = null: the finding's last stay in p has not ended
StillIn(moves, home, total, p) ==
    LET stays == StaysIn(moves, home, total, p)
    IN  stays # {} /\ Max(stays) \notin DOMAIN moves

\* What the rectification or closure rows stamped with a period of S add up to
SumOfRows(rows, S, d) ==
    SumOf([i \in DOMAIN rows |-> IF rows[i].period \in S THEN rows[i].qty[d] ELSE 0])

\* closedInPeriod
ClosedIn(rows, p, d) == SumOfRows(rows, {p}, d)
=============================================================================
