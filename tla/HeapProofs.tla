---------------------------- MODULE HeapProofs ----------------------------
(***************************************************************************)
(* Between operations the heap of main/heap.c is a heap, and every element *)
(* in it knows its place, for any elements, keys and sizes, and also after *)
(* tris_realloc failed.                                                    *)
(*                                                                         *)
(* The invariants of the two loops carry the argument: while an element    *)
(* moves, order may be broken only at its place, and what surrounds that   *)
(* place is in order without it.                                           *)
(***************************************************************************)
EXTENDS Heap, WellFoundedInduction, TLAPS

(* The element at p does not exceed the one at its parent's place. *)
Ord(p) == key[heap[p]] <= key[heap[p \div 2]]

Ordered == \A p \in 2 .. curlen : Ord(p)

(* The children of place i do not exceed the parent of place i. *)
Around == \A p \in 2 .. curlen :
            p \div 2 = i /\ i > 1 => key[heap[p]] <= key[heap[i \div 2]]

(* bubble_up *)
UpInv ==
  /\ i \in 1 .. curlen + 1
  /\ \A p \in 2 .. curlen : p # i /\ p \div 2 # i => Ord(p)
  /\ Around
  /\ op = "push" => /\ i <= curlen
                    /\ \A p \in 2 .. curlen : p \div 2 = i => Ord(p)
  /\ i = curlen + 1 /\ i > 1 => Ord(i)

(* max_heapify *)
DownInv ==
  /\ i \in 1 .. curlen + 1
  /\ \A p \in 2 .. curlen : p \div 2 # i => Ord(p)
  /\ Around

Types ==
  /\ heap \in [1 .. MaxLen -> Elms \cup {NoElm}]
  /\ curlen \in 0 .. avail
  /\ avail \in 0 .. MaxLen
  /\ index \in [Elms -> 0 .. MaxLen]
  /\ key \in [Elms -> Keys]
  /\ held \in SUBSET Elms

(* The places in use hold elements that the caller believes to be there.   *)
(* The place bubble_up looks at may be the one just vacated.               *)
Placed ==
  /\ \A p \in 1 .. curlen : heap[p] \in held
  /\ pc \in {"up", "down"} => i \in 1 .. MaxLen
  /\ pc = "up" => heap[i] \in Elms

HeapInv ==
  /\ Types
  /\ pc \in {"idle", "up", "down"}
  /\ Placed
  /\ IndexExact
  /\ pc = "idle" => Ordered
  /\ pc = "up" => UpInv
  /\ pc = "down" => DownInv

-----------------------------------------------------------------------------

LEMMA HeapInit == Init => HeapInv
  BY HeapConstants DEF Init, HeapInv, Types, Placed, IndexExact, Ordered

(* A place has two children and they have no other parent. *)
LEMMA Parent ==
  \A p, q \in Nat : /\ p \div 2 \in Nat
                    /\ p \div 2 = q <=> p = 2 * q \/ p = 2 * q + 1
                    /\ p > 0 => p \div 2 < p
                    /\ p > 1 => p \div 2 > 0
  BY SMT

(* Moving two elements of different places keeps every element's index     *)
(* field right.                                                            *)
LEMMA SwapIndex ==
  ASSUME HeapInv, NEW p \in 1 .. curlen, NEW q \in 1 .. curlen, p # q,
         heap_swap(p, q), UNCHANGED <<curlen, avail, key, held>>
  PROVE  /\ Types'
         /\ IndexExact'
         /\ \A r \in 1 .. curlen : heap'[r] \in held
         /\ heap'[p] = heap[q]
         /\ heap'[q] = heap[p]
         /\ \A r \in 1 .. MaxLen : r # p /\ r # q => heap'[r] = heap[r]
  <1>1. heap[p] \in Elms /\ heap[q] \in Elms
    BY DEF HeapInv, Placed, Types
  <1>2. p \in 1 .. MaxLen /\ q \in 1 .. MaxLen
    BY HeapConstants DEF HeapInv, Types
  <1>3. /\ heap'[p] = heap[q] /\ heap'[q] = heap[p]
        /\ \A r \in 1 .. MaxLen : r # p /\ r # q => heap'[r] = heap[r]
    BY <1>2 DEF heap_swap, HeapInv, Types
  <1>4. Types'
    BY <1>1, <1>2 DEF heap_swap, HeapInv, Types
  <1>5. heap[p] # heap[q]
    BY DEF HeapInv, IndexExact
  <1>6. IndexExact'
    <2> SUFFICES ASSUME NEW r \in 1 .. curlen PROVE index'[heap'[r]] = r
      BY DEF IndexExact
    <2>1. /\ index'[heap[q]] = p /\ index'[heap[p]] = q
          /\ \A e \in Elms : e # heap[p] /\ e # heap[q]
                               => index'[e] = index[e]
      BY <1>1, <1>5 DEF heap_swap, HeapInv, Types
    <2>2. CASE r = p
      BY <2>1, <2>2, <1>3
    <2>3. CASE r = q
      BY <2>1, <2>3, <1>3
    <2>4. CASE r # p /\ r # q
      <3>1. heap'[r] = heap[r]
        BY <1>3, <2>4, HeapConstants DEF HeapInv, Types
      <3>2. heap[r] \in Elms /\ index[heap[r]] = r
        BY DEF HeapInv, Placed, Types, IndexExact
      <3>3. heap[r] # heap[p] /\ heap[r] # heap[q]
        BY <2>4, <3>2 DEF HeapInv, IndexExact
      <3> QED BY <3>1, <3>2, <3>3, <2>1
    <2> QED BY <2>2, <2>3, <2>4
  <1>7. \A r \in 1 .. curlen : heap'[r] \in held
    BY <1>3, HeapConstants DEF HeapInv, Placed, Types
  <1> QED BY <1>3, <1>4, <1>6, <1>7

LEMMA PushKeeps ==
  ASSUME HeapInv, NEW e \in Elms, Push(e)
  PROVE  HeapInv'
  <1> DEFINE n == curlen + 1
  <1>1. /\ curlen \in Nat /\ MaxLen \in Nat
        /\ n \in 1 .. MaxLen /\ curlen' = n /\ n <= avail' /\ i' = n
        /\ avail' \in 0 .. MaxLen
        /\ e \notin held /\ held' = held \cup {e}
        /\ pc' = "up" /\ op' = "push"
    BY HeapConstants DEF Push, grow_heap, HeapInv, Types
  <1>2. /\ heap'[n] = e
        /\ \A p \in 1 .. curlen : heap'[p] = heap[p]
        /\ heap' \in [1 .. MaxLen -> Elms \cup {NoElm}]
    BY <1>1, HeapConstants DEF Push, heap_set, HeapInv, Types
  <1>3. /\ index'[e] = n
        /\ \A d \in Elms : d # e => index'[d] = index[d]
        /\ index' \in [Elms -> 0 .. MaxLen]
    BY <1>1 DEF Push, heap_set, HeapInv, Types
  <1>4. /\ key' \in [Elms -> Keys]
        /\ \A d \in Elms : d # e => key'[d] = key[d]
    BY DEF Push, HeapInv, Types
  <1>5. \A p \in 1 .. curlen : heap[p] \in Elms /\ heap[p] # e
    BY <1>1 DEF HeapInv, Placed, Types
  <1>6. Types'
    BY <1>1, <1>2, <1>3, <1>4 DEF HeapInv, Types
  <1>7. Placed'
    BY <1>1, <1>2 DEF HeapInv, Types, Placed
  <1>8. IndexExact'
    BY <1>1, <1>2, <1>3, <1>5 DEF HeapInv, Types, IndexExact
  <1>9. UpInv'
    <2>1. \A p \in 2 .. curlen : p \div 2 \in 1 .. curlen /\ p \div 2 < n
      BY Parent DEF HeapInv, Types
    <2>2. \A p \in 2 .. n : p # n => Ord(p)'
      BY <1>1, <1>2, <1>4, <1>5, <2>1 DEF Ord, HeapInv, Ordered, Push, Types
    <2>3. \A p \in 2 .. n : p \div 2 # n
      BY Parent DEF HeapInv, Types
    <2> QED BY <1>1, <2>2, <2>3 DEF UpInv, Around
  <1> QED BY <1>1, <1>6, <1>7, <1>8, <1>9 DEF HeapInv

LEMMA PushFailsKeeps ==
  ASSUME HeapInv, NEW e \in Elms, PushFails(e)
  PROVE  HeapInv'
  BY HeapConstants
     DEF PushFails, HeapInv, Types, Placed, IndexExact, Ordered

(* _tris_heap_remove, before its loops *)
LEMMA TakeKeeps ==
  ASSUME HeapInv, pc = "idle", NEW p \in 1 .. curlen,
         NEW want \in Elms \cup {NoElm},
         want # NoElm => want = heap[p] \/ \A q \in 1 .. curlen : want # heap[q],
         Take(p, want)
  PROVE  HeapInv'
  <1>1. /\ curlen \in 1 .. MaxLen /\ p \in 1 .. MaxLen /\ MaxLen \in Nat
        /\ curlen' = curlen - 1 /\ i' = p /\ op' = "remove" /\ pc' = "up"
        /\ avail' = avail /\ key' = key
    BY HeapConstants DEF Take, HeapInv, Types
  <1>2. \A q \in 1 .. curlen : heap[q] \in Elms /\ index[heap[q]] = q
    BY DEF HeapInv, Placed, Types, IndexExact
  <1>3. /\ heap'[p] = heap[curlen]
        /\ \A q \in 1 .. MaxLen : q # p => heap'[q] = heap[q]
        /\ heap' \in [1 .. MaxLen -> Elms \cup {NoElm}]
    BY <1>1, <1>2 DEF Take, heap_set, HeapInv, Types
  <1>4. /\ index'[heap[curlen]] = p
        /\ \A d \in Elms : d # heap[curlen] => index'[d] = index[d]
        /\ index' \in [Elms -> 0 .. MaxLen]
    BY <1>1, <1>2 DEF Take, heap_set, HeapInv, Types
  <1>5. Types'
    BY <1>1, <1>3, <1>4 DEF Take, HeapInv, Types
  <1>6. IndexExact'
    BY <1>1, <1>2, <1>3, <1>4 DEF IndexExact
  <1>7. Placed'
    <2>1. \A q \in 1 .. curlen - 1 : heap'[q] \in held'
      <3> SUFFICES ASSUME NEW q \in 1 .. curlen - 1
                   PROVE  heap'[q] \in held'
        OBVIOUS
      <3>1. PICK r \in 1 .. curlen : heap'[q] = heap[r] /\ r # p
        BY <1>1, <1>3
      <3>2. heap[r] # heap[p]
        BY <1>2, <3>1
      <3>3. heap[r] \in held
        BY DEF HeapInv, Placed
      <3> QED BY <3>1, <3>2, <3>3 DEF Take
    <2>2. heap'[p] \in Elms
      BY <1>1, <1>2, <1>3
    <2> QED BY <1>1, <2>1, <2>2 DEF Placed
  <1>8. UpInv'
    <2>1. \A q \in 2 .. curlen : /\ Ord(q) /\ q \div 2 \in 1 .. curlen - 1
                                 /\ q \div 2 # q
      BY <1>1, Parent DEF HeapInv, Ordered
    <2>2. \A q \in 1 .. curlen : key[heap[q]] \in Int
      BY <1>2, HeapConstants DEF HeapInv, Types
    <2>3. i' \in 1 .. curlen' + 1
      BY <1>1
    <2>4. \A q \in 2 .. curlen' : q # i' /\ q \div 2 # i' => Ord(q)'
      BY SMTT(30), <1>1, <1>3, <2>1 DEF Ord
    <2>5. Around'
      <3> SUFFICES ASSUME NEW q \in 2 .. curlen', q \div 2 = p, p > 1
                   PROVE  key'[heap'[q]] <= key'[heap'[p \div 2]]
        BY <1>1 DEF Around
      <3>1. q \in 2 .. curlen /\ q # p /\ p \div 2 # p /\ p \in 2 .. curlen
        BY <1>1, <2>1
      <3>2. heap'[q] = heap[q] /\ heap'[p \div 2] = heap[p \div 2]
        BY <1>1, <1>3, <2>1, <3>1
      <3>3. Ord(q) /\ Ord(p)
        BY <2>1, <3>1
      <3>4. p \div 2 \in 1 .. curlen
        BY <1>1, <2>1, <3>1
      <3> QED BY <1>1, <2>2, <3>1, <3>2, <3>3, <3>4 DEF Ord
    <2>6. i' = curlen' + 1 /\ i' > 1 => key'[heap'[i']] <= key'[heap'[i' \div 2]]
      <3> SUFFICES ASSUME p = curlen, p > 1
                   PROVE  key'[heap'[p]] <= key'[heap'[p \div 2]]
        BY <1>1
      <3>1. Ord(p) /\ p \div 2 # p /\ p \div 2 \in 1 .. MaxLen
        BY <1>1, <2>1
      <3> QED BY <1>1, <1>3, <3>1 DEF Ord
    <2>7. op' # "push"
      BY <1>1
    <2> QED BY <2>3, <2>4, <2>5, <2>6, <2>7, <1>1 DEF UpInv, Ord
  <1> QED BY <1>1, <1>5, <1>6, <1>7, <1>8 DEF HeapInv

LEMMA PopKeeps ==
  ASSUME HeapInv, Pop
  PROVE  HeapInv'
  BY TakeKeeps DEF Pop, HeapInv, Types

LEMMA RemoveKeeps ==
  ASSUME HeapInv, NEW e \in Elms, Remove(e)
  PROVE  HeapInv'
  <1>1. CASE index[e] \in 1 .. curlen
    <2>1. e = heap[index[e]] \/ \A q \in 1 .. curlen : e # heap[q]
      BY DEF HeapInv, IndexExact
    <2> QED BY <1>1, <2>1, TakeKeeps DEF Remove
  <1>2. CASE index[e] \notin 1 .. curlen
    <2>1. \A q \in 1 .. curlen : e # heap[q]
      BY <1>2 DEF HeapInv, IndexExact
    <2>2. /\ held' = held \ {e} /\ pc = "idle"
          /\ UNCHANGED <<heap, curlen, avail, index, key, pc, op, i>>
      BY <1>2 DEF Remove
    <2> QED BY <2>1, <2>2
            DEF HeapInv, Types, Placed, IndexExact, Ordered, Ord
  <1> QED BY <1>1, <1>2

(* An operation that returns leaves the places in use alone. *)
LEMMA ReturnKeeps ==
  ASSUME HeapInv, Ordered, Return,
         UNCHANGED <<index, curlen, avail, key, held>>
  PROVE  HeapInv'
  <1>1. /\ heap' \in [1 .. MaxLen -> Elms \cup {NoElm}]
        /\ \A p \in 1 .. curlen : heap'[p] = heap[p]
    BY HeapConstants DEF Return, HeapInv, Types
  <1>2. \A p \in 2 .. curlen : p \div 2 \in 1 .. curlen
    BY Parent DEF HeapInv, Types
  <1>3. Ordered'
    BY SMTT(30), <1>1, <1>2 DEF Ordered, Ord, HeapInv, Types
  <1> QED BY <1>1, <1>3 DEF Return, HeapInv, Types, Placed, IndexExact

LEMMA UpKeeps ==
  ASSUME HeapInv, Up
  PROVE  HeapInv'
  <1>0. /\ curlen \in Nat /\ MaxLen \in Nat /\ curlen <= MaxLen /\ pc = "up" /\ UpInv
        /\ i \in 1 .. MaxLen
        /\ UNCHANGED <<curlen, avail, key, held>>
    BY HeapConstants DEF Up, HeapInv, Types, Placed
  <1>1. \A q \in 1 .. curlen : heap[q] \in Elms /\ key[heap[q]] \in Int
    BY HeapConstants DEF HeapInv, Placed, Types
  <1>2. heap[i] \in Elms /\ key[heap[i]] \in Int
    BY <1>0, HeapConstants DEF HeapInv, Placed, Types
  <1>3. CASE i > 1 /\ Less(parent_node(i), i)
    <2> DEFINE j == i \div 2
    <2>1. j \in 1 .. curlen /\ j < i
      BY <1>0, <1>3, Parent DEF UpInv
    <2>2. key[heap[j]] < key[heap[i]]
      BY <1>3 DEF Less, parent_node
    <2>3. i \in 2 .. curlen
      BY <1>0, <1>1, <1>2, <1>3, <2>1, <2>2 DEF UpInv, Ord
    <2>4. heap_swap(i, j) /\ i' = j /\ pc' = pc /\ op' = op
      BY <1>3 DEF Up, parent_node
    <2>5. /\ Types' /\ IndexExact'
          /\ \A r \in 1 .. curlen : heap'[r] \in held
          /\ heap'[i] = heap[j]
          /\ heap'[j] = heap[i]
          /\ \A r \in 1 .. MaxLen : r # i /\ r # j => heap'[r] = heap[r]
      <3>1. i \in 1 .. curlen /\ j \in 1 .. curlen /\ i # j
        BY <2>1, <2>3
      <3> HIDE DEF j
      <3> QED BY <3>1, <2>4, <1>0, SwapIndex
    <2>6. UpInv'
      <3>1. \A p \in 2 .. curlen : p # j /\ p \div 2 # j => Ord(p)'
        <4> SUFFICES ASSUME NEW p \in 2 .. curlen, p # j, p \div 2 # j
                     PROVE  Ord(p)'
          OBVIOUS
        <4>1. p # i /\ p \div 2 \in 1 .. curlen
          BY <1>0, Parent
        <4>2. heap'[p] = heap[p]
          BY <2>5, <4>1, <1>0
        <4>3. CASE p \div 2 = i
          BY <1>0, <4>2, <4>3, <2>5, <1>3 DEF UpInv, Around, Ord
        <4>4. CASE p \div 2 # i
          BY <1>0, <4>1, <4>2, <4>4, <2>5 DEF UpInv, Ord
        <4> QED BY <4>3, <4>4
      <3>2. \A p \in 2 .. curlen : p \div 2 = j =>
              /\ key[heap'[p]] <= key[heap[j]]
              /\ Ord(p)'
        <4> SUFFICES ASSUME NEW p \in 2 .. curlen, p \div 2 = j
                     PROVE  /\ key[heap'[p]] <= key[heap[j]]
                            /\ Ord(p)'
          OBVIOUS
        <4>1. heap'[p \div 2] = heap[i]
          BY <2>5
        <4>2. CASE p = i
          BY <4>1, <4>2, <2>5, <2>2, <2>1, <1>0, <1>1, <1>2 DEF Ord
        <4>3. CASE p # i
          <5>1. p # j /\ heap'[p] = heap[p]
            BY <4>3, <2>5, <1>0, Parent
          <5>2. Ord(p)
            BY <4>3, <1>0, <2>1 DEF UpInv
          <5> QED BY <5>1, <5>2, <4>1, <2>1, <2>2, <1>0, <1>1, <1>2 DEF Ord
        <4> QED BY <4>2, <4>3
      <3>3. j > 1 => /\ key[heap[j]] <= key[heap[j \div 2]]
                     /\ heap'[j \div 2] = heap[j \div 2]
                     /\ j \div 2 \in 1 .. curlen
        <4> SUFFICES ASSUME j > 1
                     PROVE  /\ key[heap[j]] <= key[heap[j \div 2]]
                            /\ heap'[j \div 2] = heap[j \div 2]
                            /\ j \div 2 \in 1 .. curlen
          OBVIOUS
        <4>1. /\ j \div 2 \in 1 .. curlen /\ j \div 2 # j /\ j \div 2 # i
              /\ j \in 2 .. curlen
          BY <2>1, <1>0, Parent
        <4> QED BY <4>1, <2>1, <2>5, <1>0 DEF UpInv, Ord
      <3>4. Around'
        <4> SUFFICES ASSUME NEW p \in 2 .. curlen, p \div 2 = j, j > 1
                     PROVE  key[heap'[p]] <= key[heap'[j \div 2]]
          BY <1>0, <2>4 DEF Around
        <4>1. /\ key[heap'[p]] <= key[heap[j]]
              /\ key[heap[j]] <= key[heap'[j \div 2]]
          BY <3>2, <3>3
        <4>2. heap'[p] \in Elms
          BY <2>5, <1>0 DEF HeapInv, Types
        <4>3. key[heap'[p]] \in Int
          BY <4>2, HeapConstants DEF HeapInv, Types
        <4>4. /\ key[heap[j]] \in Int
              /\ key[heap'[j \div 2]] \in Int
          BY <3>3, <2>1, <1>1
        <4> HIDE DEF j
        <4> QED BY <4>1, <4>3, <4>4
      <3>5. j \in 1 .. curlen + 1 /\ j <= curlen
        BY <2>1, <1>0
      <3> HIDE DEF j
      <3> QED BY <3>1, <3>2, <3>4, <3>5, <2>4, <1>0 DEF UpInv
    <2>7. Placed'
      BY <2>5, <2>1, <2>4, <1>0, <1>2 DEF Placed
    <2> HIDE DEF j
    <2> QED BY <2>5, <2>6, <2>7, <2>4, <1>0 DEF HeapInv
  <1>4. CASE ~(i > 1 /\ Less(parent_node(i), i))
    <2>1. i > 1 => Ord(i)
      <3> SUFFICES ASSUME i > 1 PROVE Ord(i)
        OBVIOUS
      <3>1. i \div 2 \in 1 .. curlen
        BY <1>0, Parent DEF UpInv
      <3> QED BY <1>4, <1>1, <1>2, <3>1 DEF Less, parent_node, Ord
    <2>2. CASE op = "push"
      <3>1. Ordered
        BY <1>0, <2>1, <2>2 DEF Ordered, UpInv
      <3>2. Return /\ UNCHANGED index
        BY <1>4, <2>2 DEF Up
      <3> QED BY <3>1, <3>2, <1>0, ReturnKeeps
    <2>3. CASE op # "push"
      <3>1. pc' = "down" /\ UNCHANGED <<heap, op, i, index>>
        BY <1>4, <2>3 DEF Up
      <3>2. DownInv
        BY <1>0, <2>1 DEF UpInv, DownInv
      <3>3. DownInv'
        BY <3>1, <3>2, <1>0 DEF DownInv, Around, Ord
      <3> QED BY <3>1, <3>3, <1>0
              DEF HeapInv, Types, Placed, IndexExact
    <2> QED BY <2>2, <2>3
  <1> QED BY <1>3, <1>4

LEMMA DownKeeps ==
  ASSUME HeapInv, Down
  PROVE  HeapInv'
  <1>0. /\ curlen \in Nat /\ MaxLen \in Nat /\ curlen <= MaxLen /\ pc = "down" /\ DownInv
        /\ i \in 1 .. MaxLen
        /\ UNCHANGED <<curlen, avail, key, held>>
    BY HeapConstants DEF Down, HeapInv, Types, Placed
  <1>1. \A q \in 1 .. curlen : heap[q] \in Elms /\ key[heap[q]] \in Int
    BY HeapConstants DEF HeapInv, Placed, Types
  <1>2. \A p \in 2 .. curlen : p \div 2 = i <=> p = 2 * i \/ p = 2 * i + 1
    BY <1>0, Parent
  <1>3. CASE MaxNode # i
    <2> DEFINE m == MaxNode
    <2>1. /\ m \in 2 .. curlen /\ m \div 2 = i /\ m # i
          /\ i \in 1 .. curlen
          /\ key[heap[i]] < key[heap[m]]
          /\ \A p \in 2 .. curlen : p \div 2 = i
                                      => key[heap[p]] <= key[heap[m]]
      <3> DEFINE l == LeftMax
      <3>1. m = IF 2 * i + 1 <= curlen /\ key[heap[l]] < key[heap[2 * i + 1]]
                  THEN 2 * i + 1 ELSE l
        BY DEF MaxNode, Less, right_node
      <3>2. l = IF 2 * i <= curlen /\ key[heap[i]] < key[heap[2 * i]]
                  THEN 2 * i ELSE i
        BY DEF LeftMax, Less, left_node
      <3>3. m # i
        BY <1>3
      <3> HIDE DEF m, l
      <3>4. /\ m \in 2 .. curlen /\ i \in 1 .. curlen
            /\ m = 2 * i \/ m = 2 * i + 1
        BY <1>0, <3>1, <3>2, <3>3
      <3>5. /\ m \div 2 = i
            /\ \A p \in 2 .. curlen : p \div 2 = i => p = 2 * i \/ p = 2 * i + 1
        BY <1>2, <3>4
      <3>6. /\ key[heap[i]] < key[heap[m]]
            /\ 2 * i <= curlen => key[heap[2 * i]] <= key[heap[m]]
            /\ 2 * i + 1 <= curlen => key[heap[2 * i + 1]] <= key[heap[m]]
        <4>1. /\ key[heap[i]] \in Int /\ key[heap[m]] \in Int
              /\ 2 * i <= curlen => key[heap[2 * i]] \in Int
              /\ 2 * i + 1 <= curlen => key[heap[2 * i + 1]] \in Int
          BY <1>0, <1>1, <3>4
        <4>2. l = i \/ l = 2 * i
          BY <3>2
        <4>3. CASE m = 2 * i + 1
          <5>1. key[heap[l]] < key[heap[m]]
            BY <1>0, <3>1, <3>2, <3>3, <4>2, <4>3
          <5>2. CASE l = i
            BY <3>2, <3>4, <4>1, <4>3, <5>1, <5>2
          <5>3. CASE l = 2 * i /\ l # i
            <6>1. key[heap[i]] < key[heap[l]]
              BY <3>2, <5>3
            <6> QED
              BY <1>0, <3>4, <4>1, <4>3, <5>1, <5>3, <6>1
          <5> QED
            BY <4>2, <5>2, <5>3
        <4>4. CASE m = 2 * i /\ m # 2 * i + 1
          <5>1. m = l /\ l # i
            BY <3>1, <3>3, <4>4
          <5>2. key[heap[i]] < key[heap[m]]
            BY <3>2, <4>4, <5>1
          <5>3. 2 * i + 1 <= curlen => ~(key[heap[m]] < key[heap[2 * i + 1]])
            BY <3>1, <4>4, <5>1
          <5> QED
            BY <4>1, <4>4, <5>2, <5>3
        <4> QED
          BY <1>0, <3>4, <4>3, <4>4
      <3> QED
        BY <3>3, <3>4, <3>5, <3>6
    <2> HIDE DEF m
    <2>2. heap_swap(i, m) /\ i' = m /\ pc' = pc /\ op' = op
      BY <1>3 DEF Down, m
    <2>3. /\ Types' /\ IndexExact'
          /\ \A r \in 1 .. curlen : heap'[r] \in held
          /\ heap'[i] = heap[m]
          /\ heap'[m] = heap[i]
          /\ \A r \in 1 .. MaxLen : r # i /\ r # m => heap'[r] = heap[r]
      <3>1. m \in 1 .. curlen
        BY <2>1, <1>0
      <3> QED BY <3>1, <2>1, <2>2, <1>0, SwapIndex
    <2>4. DownInv'
      <3>1. \A p \in 2 .. curlen : p \div 2 # m => Ord(p)'
        <4> SUFFICES ASSUME NEW p \in 2 .. curlen, p \div 2 # m
                     PROVE  Ord(p)'
          OBVIOUS
        <4>1. p \div 2 \in 1 .. curlen
          BY <1>0, Parent
        <4>2. CASE p = m
          BY <4>2, <2>1, <2>3, <1>0, <1>1 DEF Ord
        <4>3. CASE p # m /\ p \div 2 = i
          <5>1. p # i /\ heap'[p] = heap[p]
            BY <4>3, <2>3, <1>0, Parent
          <5> QED BY <5>1, <4>3, <2>1, <2>3, <1>0 DEF Ord
        <4>4. CASE p = i
          <5>1. p \div 2 # i /\ heap'[p \div 2] = heap[p \div 2]
            BY <4>4, <4>1, <2>3, <1>0, Parent
          <5>2. key[heap[m]] <= key[heap[i \div 2]]
            BY <4>4, <2>1, <1>0 DEF DownInv, Around
          <5> QED BY <5>1, <5>2, <4>4, <2>3, <1>0 DEF Ord
        <4>5. CASE p # i /\ p # m /\ p \div 2 # i
          BY <4>1, <4>5, <2>3, <1>0 DEF DownInv, Ord
        <4> QED BY <4>2, <4>3, <4>4, <4>5
      <3>2. Around'
        <4> SUFFICES ASSUME NEW p \in 2 .. curlen, p \div 2 = m
                     PROVE  key[heap'[p]] <= key[heap'[m \div 2]]
          BY <1>0, <2>2 DEF Around
        <4>1. p # m /\ p # i /\ heap'[p] = heap[p]
          BY <2>1, <2>3, <1>0, Parent
        <4>2. Ord(p)
          BY <1>0, <2>1 DEF DownInv
        <4> QED BY <4>1, <4>2, <2>1, <2>3 DEF Ord
      <3> QED BY <3>1, <3>2, <2>1, <2>2, <1>0 DEF DownInv
    <2>5. Placed'
      BY <2>3, <2>1, <2>2, <1>0 DEF Placed
    <2> QED BY <2>2, <2>3, <2>4, <2>5, <1>0 DEF HeapInv
  <1>4. CASE MaxNode = i
    <2>1. \A p \in 2 .. curlen : p \div 2 = i => Ord(p)
      BY <1>0, <1>1, <1>2, <1>4
         DEF MaxNode, LeftMax, Less, left_node, right_node, Ord
    <2>2. Ordered
      BY <2>1, <1>0 DEF Ordered, DownInv
    <2>3. Return /\ UNCHANGED index
      BY <1>4 DEF Down
    <2> QED BY <2>2, <2>3, <1>0, ReturnKeeps
  <1> QED BY <1>3, <1>4

LEMMA HeapStep == HeapInv /\ [Next]_vars => HeapInv'
  <1> SUFFICES ASSUME HeapInv, [Next]_vars PROVE HeapInv'
    OBVIOUS
  <1>1. CASE UNCHANGED vars
    BY <1>1 DEF vars, HeapInv, Types, Placed, IndexExact, Ordered, UpInv,
                DownInv, Around, Ord
  <1>2. CASE Next
    BY <1>2, PushKeeps, PushFailsKeeps, PopKeeps, RemoveKeeps, UpKeeps,
       DownKeeps DEF Next
  <1> QED BY <1>1, <1>2

LEMMA HeapAlways == Spec => []HeapInv
  BY HeapInit, HeapStep, PTL DEF Spec

-----------------------------------------------------------------------------

(* The state keeps its types: no operation, and no failure to grow, takes   *)
(* cur_len past avail_len or a loop outside the storage.                   *)
THEOREM HeapTypesHold == Spec => []TypeOK
  <1>1. Init => TypeOK
    BY HeapInit, HeapConstants DEF HeapInv, Types, Init, TypeOK, NoResult
  <1>2. HeapInv /\ TypeOK /\ HeapInv' /\ [Next]_vars => TypeOK'
    <2> SUFFICES ASSUME HeapInv, TypeOK, HeapInv', [Next]_vars PROVE TypeOK'
      OBVIOUS
    <2>1. Types' /\ pc' \in {"idle", "up", "down"}
      BY DEF HeapInv
    <2>2. op' \in {"push", "remove"}
      BY DEF TypeOK, vars, Next, Push, PushFails, Remove, Take, Pop, Up, Down,
             Return
    <2>3. i' \in 1 .. MaxLen + 1
      <3>1. CASE pc' = "idle"
        <4>1. i' = 1 \/ i' = i
          BY <3>1 DEF vars, Next, Push, PushFails, Remove, Take, Pop, Up,
                      Down, Return
        <4> QED BY <4>1, HeapConstants DEF TypeOK
      <3>2. CASE pc' # "idle"
        BY <3>2, <2>1, HeapConstants DEF HeapInv, Placed
      <3> QED BY <3>1, <3>2
    <2>4. out' \in [want : Elms \cup {NoElm}, elm : Elms \cup {NoElm}]
      <3>1. \A p \in 1 .. curlen : heap[p] \in Elms
        BY DEF HeapInv, Placed, Types
      <3>2. ASSUME NEW p \in 1 .. curlen, NEW want \in Elms \cup {NoElm},
                   Take(p, want)
            PROVE  out' \in [want : Elms \cup {NoElm}, elm : Elms \cup {NoElm}]
        BY <3>1, <3>2 DEF Take
      <3>3. CASE Pop
        <4>1. 1 \in 1 .. curlen /\ Take(1, NoElm)
          BY <3>3 DEF Pop, TypeOK
        <4> QED BY <4>1, <3>2
      <3>4. ASSUME NEW e \in Elms, Remove(e)
            PROVE  out' \in [want : Elms \cup {NoElm}, elm : Elms \cup {NoElm}]
        BY <3>4, <3>2 DEF Remove
      <3>5. CASE UNCHANGED vars
        BY <3>5 DEF vars, TypeOK
      <3>6. CASE Up \/ Down
        BY <3>6 DEF Up, Down, TypeOK
      <3>7. ASSUME NEW e \in Elms, Push(e) \/ PushFails(e)
            PROVE  out' \in [want : Elms \cup {NoElm}, elm : Elms \cup {NoElm}]
        BY <3>7 DEF Push, PushFails, NoResult
      <3> QED BY <3>3, <3>4, <3>5, <3>6, <3>7 DEF Next
    <2> QED BY <2>1, <2>2, <2>3, <2>4 DEF TypeOK, Types
  <1> QED BY <1>1, <1>2, HeapAlways, PTL DEF Spec

(* Between any two operations on a heap of any size, in which removals of  *)
(* any element, pops, pushes and failures to grow have happened in any     *)
(* order, tris_heap_verify succeeds.                                       *)
THEOREM HeapAlwaysVerified == Spec => []HeapVerified
  <1>1. HeapInv => HeapVerified
    <2> SUFFICES ASSUME HeapInv, pc = "idle", NEW p \in 1 .. curlen \div 2
                 PROVE  /\ 2 * p <= curlen => ~Less(p, 2 * p)
                        /\ 2 * p + 1 <= curlen => ~Less(p, 2 * p + 1)
      BY DEF HeapVerified, left_node, right_node
    <2>1. curlen \in Nat /\ p \in 1 .. curlen
      BY Parent DEF HeapInv, Types
    <2>2. \A q \in 1 .. curlen : key[heap[q]] \in Int
      BY HeapConstants DEF HeapInv, Placed, Types
    <2>3. \A q \in 2 .. curlen : q \div 2 = p => ~Less(p, q)
      BY <2>1, <2>2 DEF HeapInv, Ordered, Ord, Less
    <2>4. (2 * p) \div 2 = p /\ (2 * p + 1) \div 2 = p
      BY <2>1
    <2> QED BY <2>1, <2>3, <2>4
  <1> QED BY <1>1, HeapAlways, PTL

(* The index field by which tris_heap_remove finds an element is right for *)
(* every element in the heap, also in the middle of an operation.          *)
THEOREM IndexAlwaysExact == Spec => []IndexExact
  <1>1. HeapInv => IndexExact
    BY DEF HeapInv
  <1> QED BY <1>1, HeapAlways, PTL

-----------------------------------------------------------------------------
(* The heap implements the priority queue. *)

LEMMA LeastPlace ==
  ASSUME NEW T \in SUBSET Nat, T # {}
  PROVE  \E x \in T : \A y \in T : x <= y
  <1>1. \E x \in T : \A y \in T : ~ (<<y, x>> \in OpToRel(<, Nat))
    BY NatLessThanWellFounded, WFMin
  <1>2. PICK x \in T : \A y \in T : ~ (<<y, x>> \in OpToRel(<, Nat))
    BY <1>1
  <1>3. \A y \in T : ~ (y < x)
    BY <1>2 DEF OpToRel
  <1>4. \A y \in T : y \in Nat
    OBVIOUS
  <1>5. \A y \in T : x <= y
    BY <1>3, <1>4
  <1> QED BY <1>2, <1>5

(* No element exceeds the one at the root: the first one that did would    *)
(* exceed its parent as well.                                              *)
LEMMA RootGreatest ==
  ASSUME HeapInv, Ordered
  PROVE  \A p \in 1 .. curlen : key[heap[p]] <= key[heap[1]]
  <1> DEFINE T == {p \in 1 .. curlen : ~ (key[heap[p]] <= key[heap[1]])}
  <1>0. curlen \in Nat /\ \A q \in 1 .. curlen : heap[q] \in Elms
    BY HeapConstants DEF HeapInv, Placed, Types
  <1>1. /\ curlen \in Nat
        /\ \A q \in 1 .. curlen : key[heap[q]] \in Int
    <2>1. \A e \in Elms : key[e] \in Int
      BY HeapConstants DEF HeapInv, Types
    <2> HIDE DEF T
    <2> QED BY <1>0, <2>1
  <1>2. T = {}
    <2> SUFFICES ASSUME T # {} PROVE FALSE
      OBVIOUS
    <2>1. T \in SUBSET Nat
      BY <1>1
    <2>2. PICK x \in T : \A y \in T : x <= y
      <3> HIDE DEF T
      <3> QED BY <2>1, LeastPlace
    <2>3. x \in 2 .. curlen
      BY <1>1, <2>2
    <2>4. x \div 2 \in 1 .. curlen /\ x \div 2 < x
      BY <2>3, <1>1, Parent
    <2>5. x \div 2 \notin T
      <3> HIDE DEF T
      <3>1. x \in Nat /\ x \div 2 \in Nat
        BY <2>3, <2>4, <1>1
      <3> QED BY <2>2, <2>4, <3>1
    <2>6. key[heap[x \div 2]] <= key[heap[1]]
      BY <2>4, <2>5
    <2>7. key[heap[x]] <= key[heap[x \div 2]]
      BY <2>3 DEF Ordered, Ord
    <2>8. 1 \in 1 .. curlen /\ x \in 1 .. curlen
      BY <2>3, <1>1
    <2>9. key[heap[x]] <= key[heap[1]]
      BY <2>4, <2>6, <2>7, <2>8, <1>1
    <2> QED BY <2>2, <2>9
  <1> QED BY <1>2

(* What the caller believes to be in the heap is there. *)
NoneLost == held = Items

LEMMA SwapItems ==
  ASSUME HeapInv, NEW p \in 1 .. curlen, NEW q \in 1 .. curlen, p # q,
         heap_swap(p, q), UNCHANGED <<curlen, avail, key, held>>
  PROVE  Items' = Items
  <1>1. /\ heap'[p] = heap[q] /\ heap'[q] = heap[p]
        /\ \A r \in 1 .. curlen : r # p /\ r # q => heap'[r] = heap[r]
    BY SwapIndex, HeapConstants DEF HeapInv, Types
  <1> QED BY <1>1 DEF Items

LEMMA UpItems ==
  ASSUME HeapInv, Up
  PROVE  UNCHANGED <<Items, key, out>>
  <1>1. HeapInv'
    BY UpKeeps
  <1>2. curlen \in Nat /\ MaxLen \in Nat /\ curlen <= MaxLen
    BY HeapConstants DEF HeapInv, Types
  <1>3. CASE i > 1 /\ Less(parent_node(i), i)
    <2>1. i \in 1 .. curlen + 1 /\ i > 1 /\ pc = "up"
      BY <1>3 DEF HeapInv, UpInv, Up
    <2>2. i \div 2 \in 1 .. curlen /\ i \div 2 # i
      BY <1>2, <2>1, Parent
    <2>3. i # curlen + 1
      <3> SUFFICES ASSUME i = curlen + 1 PROVE FALSE
        OBVIOUS
      <3>1. Ord(i)
        BY <2>1 DEF HeapInv, UpInv
      <3>2. heap[i] \in Elms /\ heap[i \div 2] \in Elms
        BY <2>1, <2>2 DEF HeapInv, Placed, Types
      <3>3. key[heap[i]] \in Int /\ key[heap[i \div 2]] \in Int
        BY <3>2, HeapConstants DEF HeapInv, Types
      <3> QED BY <3>1, <3>3, <1>3 DEF Ord, Less, parent_node
    <2>4. heap_swap(i, i \div 2) /\ UNCHANGED <<curlen, avail, key, held, out>>
      BY <1>3 DEF Up, parent_node
    <2>5. i \in 1 .. curlen
      BY <2>1, <2>3, <1>2
    <2> QED BY <2>2, <2>4, <2>5, SwapItems
  <1>4. CASE ~(i > 1 /\ Less(parent_node(i), i))
    <2>1. \A p \in 1 .. curlen : heap'[p] = heap[p]
      BY <1>4, <1>2 DEF Up, Return
    <2> QED BY <2>1 DEF Items, Up
  <1> QED BY <1>3, <1>4

LEMMA DownItems ==
  ASSUME HeapInv, Down
  PROVE  UNCHANGED <<Items, key, out>>
  <1>2. curlen \in Nat /\ MaxLen \in Nat /\ curlen <= MaxLen /\ pc = "down"
    BY HeapConstants DEF HeapInv, Types, Down
  <1>3. CASE MaxNode # i
    <2>1. i \in 1 .. curlen + 1
      BY <1>2 DEF HeapInv, DownInv
    <2>2. i \in 1 .. curlen /\ MaxNode \in 1 .. curlen
      BY <1>2, <1>3, <2>1 DEF MaxNode, LeftMax, left_node, right_node
    <2>3. heap_swap(i, MaxNode) /\ UNCHANGED <<curlen, avail, key, held, out>>
      BY <1>3 DEF Down
    <2> QED BY <1>3, <2>2, <2>3, SwapItems
  <1>4. CASE MaxNode = i
    <2>1. \A p \in 1 .. curlen : heap'[p] = heap[p]
      BY <1>4, <1>2 DEF Down, Return
    <2> QED BY <2>1, <1>4 DEF Items, Down
  <1> QED BY <1>3, <1>4

LEMMA PushItems ==
  ASSUME HeapInv, NoneLost, NEW e \in Elms, Push(e)
  PROVE  Queue!Push(e) /\ NoneLost'
  <1>1. /\ curlen \in Nat /\ MaxLen \in Nat /\ curlen + 1 \in 1 .. MaxLen
        /\ curlen' = curlen + 1
    BY HeapConstants DEF Push, grow_heap, HeapInv, Types
  <1>2. /\ heap'[curlen + 1] = e
        /\ \A p \in 1 .. curlen : heap'[p] = heap[p]
    BY <1>1 DEF Push, heap_set, HeapInv, Types
  <1>3. Items' = Items \cup {e}
    BY <1>1, <1>2 DEF Items
  <1>4. e \notin Items /\ held' = held \cup {e}
    BY DEF Push, NoneLost
  <1> QED BY <1>3, <1>4 DEF Push, Queue!Push, NoneLost, NoResult

LEMMA TakeItems ==
  ASSUME HeapInv, NoneLost, NEW p \in 1 .. curlen,
         NEW want \in Elms \cup {NoElm},
         want # NoElm => want = heap[p],
         Take(p, want)
  PROVE  /\ Items' = Items \ {heap[p]} /\ heap[p] \in Items
         /\ NoneLost'
         /\ key' = key
         /\ out' = [want |-> want, elm |-> heap[p]]
  <1>1. /\ curlen \in 1 .. MaxLen /\ p \in 1 .. MaxLen /\ MaxLen \in Nat
        /\ curlen' = curlen - 1
    BY HeapConstants DEF Take, HeapInv, Types
  <1>2. /\ heap'[p] = heap[curlen]
        /\ \A q \in 1 .. MaxLen : q # p => heap'[q] = heap[q]
    BY <1>1 DEF Take, heap_set, HeapInv, Types
  <1>3. \A q, r \in 1 .. curlen : heap[q] = heap[r] => q = r
    BY DEF HeapInv, IndexExact
  <1>4. Items' = Items \ {heap[p]}
    <2>1. \A x \in Items' : x \in Items \ {heap[p]}
      <3> SUFFICES ASSUME NEW q \in 1 .. curlen - 1
                   PROVE  heap'[q] \in Items \ {heap[p]}
        BY <1>1 DEF Items
      <3>1. CASE q = p
        BY <3>1, <1>1, <1>2, <1>3 DEF Items
      <3>2. CASE q # p
        BY <3>2, <1>1, <1>2, <1>3 DEF Items
      <3> QED BY <3>1, <3>2
    <2>2. \A x \in Items \ {heap[p]} : x \in Items'
      <3> SUFFICES ASSUME NEW q \in 1 .. curlen, heap[q] # heap[p]
                   PROVE  heap[q] \in Items'
        BY DEF Items
      <3>1. CASE q = curlen
        <4>1. p # curlen /\ p \in 1 .. curlen - 1
          BY <3>1, <1>1
        <4> QED BY <3>1, <4>1, <1>1, <1>2 DEF Items
      <3>2. CASE q # curlen
        <4>1. q \in 1 .. curlen - 1 /\ q # p /\ q \in 1 .. MaxLen
          BY <3>2, <1>1
        <4> QED BY <4>1, <1>1, <1>2 DEF Items
      <3> QED BY <3>1, <3>2
    <2> QED BY <2>1, <2>2
  <1>5. held' = held \ {heap[p]}
    BY DEF Take
  <1> QED BY <1>4, <1>5 DEF Take, NoneLost, Items

LEMMA PopItems ==
  ASSUME HeapInv, NoneLost, Pop
  PROVE  (\E e \in Elms : Queue!Pop(e)) /\ NoneLost'
  <1>1. 1 \in 1 .. curlen /\ Ordered /\ Take(1, NoElm)
    BY DEF Pop, HeapInv, Types
  <1>2. /\ Items' = Items \ {heap[1]} /\ heap[1] \in Items
        /\ NoneLost' /\ key' = key
        /\ out' = [want |-> NoElm, elm |-> heap[1]]
    BY <1>1, TakeItems
  <1>3. \A d \in Items : key[d] <= key[heap[1]]
    BY <1>1, RootGreatest DEF Items
  <1>4. heap[1] \in Elms
    BY <1>1 DEF HeapInv, Placed, Types
  <1> QED BY <1>2, <1>3, <1>4 DEF Queue!Pop

LEMMA RemoveItems ==
  ASSUME HeapInv, NoneLost, NEW e \in Elms, Remove(e)
  PROVE  Queue!Remove(e) /\ NoneLost'
  <1>1. PICK p \in 1 .. curlen : e = heap[p]
    BY DEF Remove, NoneLost, Items
  <1>2. index[e] = p
    BY <1>1 DEF HeapInv, IndexExact
  <1>3. Take(p, e)
    BY <1>2 DEF Remove
  <1>4. /\ Items' = Items \ {heap[p]} /\ heap[p] \in Items
        /\ NoneLost' /\ key' = key
        /\ out' = [want |-> e, elm |-> heap[p]]
    BY <1>1, <1>3, TakeItems
  <1> QED BY <1>1, <1>4 DEF Queue!Remove

(* The heap is a priority queue: a pop returns an element that no other     *)
(* exceeds, a removal returns the element named, and no element is lost or *)
(* doubled by the moves in between, except while some elements that the    *)
(* caller believes to be in the heap were lost by a tris_realloc.          *)
THEOREM HeapRefinesQueue == Spec => IsPriorityQueue
  <1>1. Init => Queue!Init
    BY DEF Init, Queue!Init, Items, NoResult
  <1>2. HeapInv /\ [Next]_vars => [Queue!Next]_Queue!vars
    <2> SUFFICES ASSUME HeapInv, [Next]_vars, NoneLost, NoneLost'
                 PROVE  [Queue!Next]_Queue!vars
      BY DEF Queue!Next, NoneLost
    <2>1. CASE UNCHANGED vars
      BY <2>1 DEF vars, Queue!vars, NoneLost, Items
    <2>2. ASSUME NEW e \in Elms, Push(e)
          PROVE  [Queue!Next]_Queue!vars
      BY <2>2, PushItems DEF Queue!Next
    <2>3. ASSUME NEW e \in Elms, Remove(e)
          PROVE  [Queue!Next]_Queue!vars
      BY <2>3, RemoveItems DEF Queue!Next
    <2>4. CASE Pop
      BY <2>4, PopItems DEF Queue!Next
    <2>5. CASE Up
      <3>1. UNCHANGED <<Items, key, out, held>>
        BY <2>5, UpItems DEF Up
      <3> QED BY <3>1 DEF Queue!vars
    <2>6. CASE Down
      <3>1. UNCHANGED <<Items, key, out, held>>
        BY <2>6, DownItems DEF Down
      <3> QED BY <3>1 DEF Queue!vars
    <2>7. ASSUME NEW e \in Elms, PushFails(e)
          PROVE  FALSE
      <3>1. e \in held' /\ curlen' = 0
        BY <2>7 DEF PushFails
      <3>2. Items' = {}
        BY <3>1 DEF Items
      <3> QED BY <3>1, <3>2 DEF NoneLost
    <2> QED BY <2>1, <2>2, <2>3, <2>4, <2>5, <2>6, <2>7 DEF Next
  <1> QED BY <1>1, <1>2, HeapAlways, PTL
          DEF Spec, IsPriorityQueue, Queue!Spec

=============================================================================
