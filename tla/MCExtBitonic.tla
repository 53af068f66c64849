------------------------------ MODULE MCExtBitonic -----------------------------
(* ExtBitonic with the comparators of BitonicSort, for TLC. *)
EXTENDS ExtBitonic, Bitonic

\* BitonicSort of the whole vector; TLC evaluates this once, and MCNetwork at every use.
Comparators == BitonicSort(0, N, TRUE)

MCNetwork == Comparators

\* The pairs of items that are swapped.
NetworkPairs == {<<c.l, c.r>> : c \in ToSet(Comparators)}
================================================================================
