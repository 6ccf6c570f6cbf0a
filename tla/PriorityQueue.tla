--------------------------- MODULE PriorityQueue ---------------------------
(***************************************************************************)
(* What the heap of main/heap.c promises its users: a set of elements from *)
(* which they take either the element they name or one that no other       *)
(* exceeds.  When storage runs out elements are lost; as long as some that  *)
(* the user believes to be in the queue are not, nothing is promised.      *)
(***************************************************************************)
EXTENDS Integers

CONSTANTS
  Elms,   \* elements
  Keys,   \* the numbers they are compared by
  NoElm   \* NULL

VARIABLES
  items,  \* the elements in the queue
  lost,   \* whether it holds other elements than its user believes
  key,    \* the number of each element
  out     \* what the last operation was asked for and returned

vars == <<items, lost, key, out>>

Init ==
  /\ items = {}
  /\ lost = FALSE
  /\ key \in [Elms -> Keys]
  /\ out = [want |-> NoElm, elm |-> NoElm]

Push(e) ==
  /\ e \notin items
  /\ items' = items \cup {e}
  /\ \E k \in Keys : key' = [key EXCEPT ![e] = k]
  /\ out' = [want |-> NoElm, elm |-> NoElm]

Pop(e) ==
  /\ e \in items
  /\ \A d \in items : key[d] <= key[e]
  /\ items' = items \ {e}
  /\ out' = [want |-> NoElm, elm |-> e]
  /\ UNCHANGED key

Remove(e) ==
  /\ e \in items
  /\ items' = items \ {e}
  /\ out' = [want |-> e, elm |-> e]
  /\ UNCHANGED key

Next ==
  \/ lost \/ lost'
  \/ \E e \in Elms : Push(e) \/ Pop(e) \/ Remove(e)

Spec == Init /\ [][Next]_vars
=============================================================================
