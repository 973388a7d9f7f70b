----------------------------- MODULE MCServices -----------------------------
(***************************************************************************)
(* One small instance of every part of Services: two requests at a time,   *)
(* one account and one address, two polling users, two administrators, two *)
(* things to type.                                                         *)
(***************************************************************************)
EXTENDS Services

CONSTANTS f1, f2, n1, n2, u1, u2, q1, q2, i1, i2, a1, home, w1, p1, p2, s1, s2, t1, t2

MCMaxFailures == [k \in {a1, home} |-> IF k = home THEN 4 ELSE 2]
MCWindow == [k \in {a1, home} |-> IF k = home THEN 4 ELSE 2]
=============================================================================
