---------------------------- MODULE ListFilter ----------------------------
(***************************************************************************)
(* The part of a list that stays when a loop over it takes some entries    *)
(* out, as the loops over sleep queues and station lists do.               *)
(***************************************************************************)
EXTENDS Naturals, Sequences, FiniteSets

\* The k-th of a set of positions.
Nth(I, k) == CHOOSE i \in I : Cardinality({j \in I : j <= i}) = k

\* The entries of a list at a set of positions, in their order.
Pick(q, I) == [k \in 1 .. Cardinality(I) |-> q[Nth(I, k)]]
=============================================================================
