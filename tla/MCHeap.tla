------------------------------- MODULE MCHeap -------------------------------
(* An instance of Heap for TLC.                                             *)
EXTENDS Heap, TLC

CONSTANTS a, b

MCSymmetry == Permutations(Thread)

=============================================================================
