-------------------------------- MODULE Heap --------------------------------
(***************************************************************************)
(* The binary max heap of main/heap.c, the scheduler's queue of events.    *)
(*                                                                         *)
(* The caller holds a lock around every operation, so operations do not    *)
(* interleave; the iterations of the loops bubble_up and max_heapify are   *)
(* nevertheless steps of their own, which makes the invariants of the      *)
(* loops invariants of the specification.                                  *)
(*                                                                         *)
(* The caller is main/sched.c: it pushes elements that it does not hold,   *)
(* removes only elements that it holds (they are in its hash table), and   *)
(* ignores the result of tris_heap_push.                                   *)
(*                                                                         *)
(* A place above cur_len is not read once the operation that vacated it    *)
(* has returned; it holds NoElm from then on.                              *)
(***************************************************************************)
EXTENDS Integers, FiniteSets

CONSTANTS
  Elms,     \* elements
  Keys,     \* the numbers that cmp_fn compares them by
  InitLen,  \* room to begin with, (1 << init_height) - 1
  MaxLen,   \* bound: room the heap may grow to
  MayFail,  \* whether tris_realloc may fail
  NoElm     \* NULL

ASSUME HeapConstants ==
  /\ Keys \subseteq Int
  /\ InitLen \in Nat
  /\ MaxLen \in Nat
  /\ InitLen <= MaxLen
  /\ MayFail \in BOOLEAN
  /\ NoElm \notin Elms

NoResult == [want |-> NoElm, elm |-> NoElm]

VARIABLES
  heap,   \* h->heap, from 1 on
  curlen, \* h->cur_len
  avail,  \* h->avail_len
  index,  \* the index field of each element
  key,    \* what cmp_fn compares
  held,   \* the elements the caller believes to be in the heap
  pc,     \* "idle", or the loop an operation is in
  op,     \* the operation
  i,      \* the loops' variable i
  out     \* what the last operation was asked for and returned

vars == <<heap, curlen, avail, index, key, held, pc, op, i, out>>

TypeOK ==
  /\ heap \in [1 .. MaxLen -> Elms \cup {NoElm}]
  /\ curlen \in 0 .. avail
  /\ avail \in 0 .. MaxLen
  /\ index \in [Elms -> 0 .. MaxLen]
  /\ key \in [Elms -> Keys]
  /\ held \in SUBSET Elms
  /\ pc \in {"idle", "up", "down"}
  /\ op \in {"push", "remove"}
  /\ i \in 1 .. MaxLen + 1
  /\ out \in [want : Elms \cup {NoElm}, elm : Elms \cup {NoElm}]

(* tris_heap_create *)
Init ==
  /\ heap = [p \in 1 .. MaxLen |-> NoElm]
  /\ curlen = 0
  /\ avail = InitLen
  /\ index = [e \in Elms |-> 0]
  /\ key \in [Elms -> Keys]
  /\ held = {}
  /\ pc = "idle"
  /\ op = "push"
  /\ i = 1
  /\ out = NoResult

-----------------------------------------------------------------------------
left_node(p)   == 2 * p
right_node(p)  == 2 * p + 1
parent_node(p) == p \div 2

(* cmp_fn(heap_get(h, p), heap_get(h, q)) < 0 *)
Less(p, q) == key[heap[p]] < key[heap[q]]

(* heap_set *)
heap_set(p, e) ==
  /\ heap' = [heap EXCEPT ![p] = e]
  /\ index' = [index EXCEPT ![e] = p]

(* mutant: only one of the two index fields is written *)
heap_swap_one(p, q) ==
  /\ heap' = [heap EXCEPT ![p] = heap[q], ![q] = heap[p]]
  /\ index' = [index EXCEPT ![heap[q]] = p]

(* heap_swap *)
heap_swap(p, q) ==
  /\ heap' = [heap EXCEPT ![p] = heap[q], ![q] = heap[p]]
  /\ index' = [index EXCEPT ![heap[q]] = p, ![heap[p]] = q]

-----------------------------------------------------------------------------
(* The room after a call of tris_heap_push that grows the heap if needed. *)
grow_heap == IF curlen < avail THEN avail ELSE 2 * avail + 1

(* tris_heap_push: into the last place, then up *)
Push(e) ==
  /\ pc = "idle"
  /\ e \notin held
  /\ grow_heap <= MaxLen
  /\ avail' = grow_heap
  /\ curlen' = curlen + 1
  /\ heap_set(curlen + 1, e)
  /\ \E k \in Keys : key' = [key EXCEPT ![e] = k]
  /\ held' = held \cup {e}
  /\ pc' = "up"
  /\ op' = "push"
  /\ i' = curlen + 1
  /\ out' = NoResult

(* tris_heap_push when there is no memory to grow: the heap is emptied.    *)
PushFails(e) ==
  /\ MayFail
  /\ pc = "idle"
  /\ e \notin held
  /\ curlen = avail
  /\ heap' = [p \in 1 .. MaxLen |-> NoElm]
  /\ curlen' = 0
  /\ avail' = 0
  /\ held' = held \cup {e}
  /\ out' = NoResult
  /\ UNCHANGED <<index, key, pc, op, i>>

(* _tris_heap_remove: the last element takes the place of the removed one. *)
(* want is what the caller asked for, and gives up if it gets an answer.   *)
Take(p, want) ==
  /\ curlen' = curlen - 1
  /\ heap_set(p, heap[curlen])
  /\ held' = held \ {IF want = NoElm THEN heap[p] ELSE want}
  /\ out' = [want |-> want, elm |-> heap[p]]
  /\ op' = "remove"
  /\ pc' = "up"
  /\ i' = p
  /\ UNCHANGED <<avail, key>>

(* tris_heap_pop *)
Pop ==
  /\ pc = "idle"
  /\ curlen > 0
  /\ Take(1, NoElm)

(* tris_heap_remove: the index field says where the element is.  An index  *)
(* that is not in the heap makes it return NULL.                           *)
Remove(e) ==
  /\ pc = "idle"
  /\ e \in held
  /\ IF index[e] \in 1 .. curlen
       THEN Take(index[e], e)
       ELSE /\ out' = [want |-> e, elm |-> NoElm]
            /\ held' = held \ {e}
            /\ UNCHANGED <<heap, curlen, avail, index, key, pc, op, i>>

-----------------------------------------------------------------------------
(* The operation returns. *)
Return ==
  /\ pc' = "idle"
  /\ i' = 1
  /\ op' = "push"
  /\ heap' = [p \in 1 .. MaxLen |-> IF p <= curlen THEN heap[p] ELSE NoElm]

(* mutant: a removed element's replacement only ever moves down *)
UpOnPush ==
  /\ pc = "up"
  /\ IF op = "push" /\ i > 1 /\ Less(parent_node(i), i)
       THEN heap_swap(i, parent_node(i)) /\ i' = parent_node(i)
            /\ UNCHANGED <<pc, op>>
       ELSE /\ IF op = "push" THEN Return
               ELSE pc' = "down" /\ UNCHANGED <<heap, op, i>>
            /\ UNCHANGED index
  /\ UNCHANGED <<curlen, avail, key, held, out>>

(* bubble_up: one iteration, or its end *)
Up ==
  /\ pc = "up"
  /\ IF i > 1 /\ Less(parent_node(i), i)
       THEN heap_swap(i, parent_node(i)) /\ i' = parent_node(i)
            /\ UNCHANGED <<pc, op>>
       ELSE /\ IF op = "push" THEN Return
               ELSE pc' = "down" /\ UNCHANGED <<heap, op, i>>
            /\ UNCHANGED index
  /\ UNCHANGED <<curlen, avail, key, held, out>>

(* The greatest of i and its children, as max_heapify chooses it *)
LeftMax == IF left_node(i) <= curlen /\ Less(i, left_node(i))
             THEN left_node(i) ELSE i
MaxNodeStale == IF right_node(i) <= curlen /\ Less(i, right_node(i))
                  THEN right_node(i) ELSE LeftMax  \* mutant: not with max
MaxNode == IF right_node(i) <= curlen /\ Less(LeftMax, right_node(i))
             THEN right_node(i) ELSE LeftMax

(* max_heapify: one iteration, or its end *)
Down ==
  /\ pc = "down"
  /\ IF MaxNode # i
       THEN heap_swap(i, MaxNode) /\ i' = MaxNode /\ UNCHANGED <<pc, op>>
       ELSE Return /\ UNCHANGED index
  /\ UNCHANGED <<curlen, avail, key, held, out>>

-----------------------------------------------------------------------------
Next ==
  \/ \E e \in Elms : Push(e) \/ PushFails(e) \/ Remove(e)
  \/ Pop
  \/ Up
  \/ Down

Spec == Init /\ [][Next]_vars

-----------------------------------------------------------------------------
(* Properties *)

(* Between operations tris_heap_verify finds nothing: no element exceeds   *)
(* the one at its parent's place.                                          *)
HeapVerified ==
  pc = "idle" =>
    \A p \in 1 .. curlen \div 2 :
      /\ left_node(p) <= curlen => ~Less(p, left_node(p))
      /\ right_node(p) <= curlen => ~Less(p, right_node(p))

(* Each element's index field says where it is, which is what              *)
(* tris_heap_remove finds it by.                                           *)
IndexExact == \A p \in 1 .. curlen : index[heap[p]] = p

(* As long as the heap holds what the caller believes to be in it, which   *)
(* ends when storage runs out, it is a priority queue: what is removed is  *)
(* what was asked for, what is popped is a greatest element, and no        *)
(* element is lost or doubled on the way up and down.                      *)
Items == {heap[p] : p \in 1 .. curlen}
Queue == INSTANCE PriorityQueue WITH items <- Items, lost <- (held # Items)
IsPriorityQueue == Queue!Spec
=============================================================================
