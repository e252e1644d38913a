-------------------------------- MODULE Lists -------------------------------
(***************************************************************************)
(* The doubly linked lists of the source (struct list) are sequences.       *)
(***************************************************************************)
EXTENDS Naturals, Sequences, FiniteSets

\* The place of position k among the positions K.
Place(k, K) == Cardinality({j \in K : j <= k})

\* list_remove on the elements at the other positions: those at the positions
\* K are left, in their order.
Keep(q, K) == [i \in 1 .. Cardinality(K) |-> q[CHOOSE k \in K : Place(k, K) = i]]
=============================================================================
