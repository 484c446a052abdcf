------------------------------- MODULE MCHeap -------------------------------
(* Instances of Heap for TLC: a header of 4 cells, an alignment of 2, a      *)
(* static heap and chunks of a few blocks each.                              *)
EXTENDS Heap, TLC

CONSTANTS d1, d2, d3

TagSymmetry == Permutations(Tags)
==============================================================================
