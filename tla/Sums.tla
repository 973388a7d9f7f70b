-------------------------------- MODULE Sums --------------------------------
(***************************************************************************)
(* The sum of a sequence of numbers: the code's reduce((a, b) => a + b, 0).*)
(* It is a recursive function rather than a fold because a proof can       *)
(* unfold it at an index.                                                  *)
(***************************************************************************)
EXTENDS Integers, Sequences

\* Sums of the first 0, 1, ... Len(w) numbers of w
PartialSums(w) ==
    LET upTo[i \in 0..Len(w)] == IF i = 0 THEN 0 ELSE upTo[i - 1] + w[i] IN upTo

SumOf(w) == PartialSums(w)[Len(w)]
=============================================================================
