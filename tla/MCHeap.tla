------------------------------- MODULE MCHeap -------------------------------
(* Instances of Heap for TLC. *)
EXTENDS Heap, TLC

(* The heap never looks at which element is which. *)
Symmetry == Permutations(Elms)

(* States that differ only in the result of the last operation, which no    *)
(* step reads, and in what an element has kept from its last stay in the    *)
(* heap, which Push overwrites, are explored once.                         *)
View == <<heap, curlen, avail, held, pc, op, i,
          [e \in held \cup Items |-> <<index[e], key[e]>>]>>
=============================================================================
