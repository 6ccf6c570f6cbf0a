------------------------ MODULE TaskProcessorProofs ------------------------
(***************************************************************************)
(* Proofs about TaskProcessor, for every number of threads, instances and  *)
(* tasks.                                                                  *)
(***************************************************************************)
EXTENDS TaskProcessor, FiniteSetTheorems, SequenceTheorems, TLAPS

(* What TypeOK and RefCountExact need to be inductive: who is where, and   *)
(* that a thread in _unreference, which holds the container lock, is the   *)
(* only one that can put its instance back into the container.             *)
Shape ==
  /\ \A t \in Threads : (tpc[t] = "idle") <=> (tinst[t] = NoInst)
  /\ \A t \in Threads : tinst[t] <= nalloc
  /\ \A i \in linked : i <= nalloc
  /\ \A i \in Inst : i > nalloc => refc[i] = 0
  /\ \A t \in Threads : tpc[t] \in {"unref", "relink"} =>
                          contlock = t /\ tinst[t] \notin linked
  /\ \A i \in Inst : wpc[i] = "exec" => wtask[i] \in Task
  /\ \A t \in Threads : tpc[t] \in {"cli", "pinging", "drop"} =>
                          t \in CliThreads

RefInv == TypeOK /\ Shape /\ RefCountExact

-----------------------------------------------------------------------------
(* Lemmas on the set of owners *)

LEMMA OwnersFinite ==
  ASSUME NEW i
  PROVE  IsFiniteSet(Owners(i)) /\ Cardinality(Owners(i)) \in Nat
<1>1. IsFiniteSet(Threads)
  BY TPConstants, FS_Union DEF Threads
<1>2. Owners(i) \subseteq Threads
  BY DEF Owners
<1> QED
  BY <1>1, <1>2, FS_Subset, FS_CardinalityType

(* A step after which every thread owns what it owned before. *)
LEMMA OwnersSame ==
  ASSUME \A u \in Threads : /\ tpc'[u] \in OwnerPcs <=> tpc[u] \in OwnerPcs
                            /\ tpc[u] \in OwnerPcs => tinst'[u] = tinst[u]
  PROVE  \A i \in Inst : Owners(i)' = Owners(i)
  BY DEF Owners

(* A step by which thread t gives up its reference. *)
LEMMA OwnerLeaves ==
  ASSUME NEW t \in Threads,
         tpc[t] \in OwnerPcs, tpc'[t] \notin OwnerPcs,
         \A u \in Threads \ {t} : tpc'[u] = tpc[u] /\ tinst'[u] = tinst[u],
         NEW i \in Inst
  PROVE  /\ i # tinst[t] => Owners(i)' = Owners(i)
         /\ i = tinst[t] => /\ Cardinality(Owners(i)) >= 1
                            /\ Cardinality(Owners(i)')
                                 = Cardinality(Owners(i)) - 1
<1>1. CASE i # tinst[t]
  BY <1>1 DEF Owners
<1>2. CASE i = tinst[t]
  <2>1. t \in Owners(i) /\ Owners(i)' = Owners(i) \ {t}
    BY <1>2 DEF Owners
  <2>2. Cardinality(Owners(i)') = Cardinality(Owners(i)) - 1
    BY <2>1, OwnersFinite, FS_RemoveElement
  <2>3. Cardinality(Owners(i)) # 0
    BY <2>1, OwnersFinite, FS_EmptySet
  <2> QED
    BY <1>2, <2>2, <2>3, OwnersFinite
<1> QED
  BY <1>1, <1>2

(* A step by which thread t gets a reference of instance j. *)
LEMMA OwnerEnters ==
  ASSUME NEW t \in Threads, NEW j \in Inst,
         tpc[t] \notin OwnerPcs, tpc'[t] \in OwnerPcs, tinst'[t] = j,
         \A u \in Threads \ {t} : tpc'[u] = tpc[u] /\ tinst'[u] = tinst[u],
         NEW i \in Inst
  PROVE  /\ i # j => Owners(i)' = Owners(i)
         /\ i = j => Cardinality(Owners(i)') = Cardinality(Owners(i)) + 1
<1>1. CASE i # j
  BY <1>1 DEF Owners
<1>2. CASE i = j
  <2>1. t \notin Owners(i) /\ Owners(i)' = Owners(i) \cup {t}
    BY <1>2 DEF Owners
  <2>2. Cardinality(Owners(i) \cup {t}) = Cardinality(Owners(i)) + 1
    BY <2>1, OwnersFinite, FS_AddElement
  <2> QED
    BY <1>2, <2>1, <2>2
<1> QED
  BY <1>1, <1>2

-----------------------------------------------------------------------------
(* The invariant *)

LEMMA RefInvInit == Init => RefInv
<1> SUFFICES ASSUME Init PROVE RefInv
  OBVIOUS
<1>1. TypeOK
  BY TPConstants DEF Init, TypeOK, Threads, Inst, NoInst, WorkerPcs,
     ThreadPcs, NoTask, Task
<1>2. Shape
  BY TPConstants DEF Init, Shape, Threads, Inst, NoInst
<1>3. RefCountExact
  <2> SUFFICES ASSUME NEW i \in Inst
               PROVE  refc[i] = Cardinality(Owners(i))
                                  + (IF i \in linked THEN 1 ELSE 0)
    BY DEF RefCountExact
  <2>1. Owners(i) = {}
    BY DEF Init, Owners, OwnerPcs
  <2>2. refc[i] = 0 /\ i \notin linked
    BY DEF Init
  <2> QED
    BY <2>1, <2>2, FS_EmptySet
<1> QED
  BY <1>1, <1>2, <1>3 DEF RefInv

(* A step that moves neither a reference nor a thread. *)
LEMMA RefFrame ==
  ASSUME RefInv, TypeOK',
         UNCHANGED <<nalloc, contlock, linked, refc, tpc, tinst>>,
         \A i \in Inst : wpc'[i] = "exec" => wtask'[i] \in Task
  PROVE  RefInv'
<1>1. Shape'
  BY DEF RefInv, Shape, Inst
<1>2. RefCountExact'
  BY OwnersSame DEF RefInv, RefCountExact, Inst
<1> QED
  BY <1>1, <1>2 DEF RefInv

LEMMA WorkerRefInv ==
  ASSUME RefInv, NEW i \in Inst, WorkerStep(i)
  PROVE  RefInv'
<1>0. UNCHANGED <<nalloc, npush, contlock, linked, refc, life, run, tpc,
                  tinst, pinglock>>
  BY DEF WorkerStep, WorkerTop, WorkerCheck, WorkerSpurious, WorkerWoken,
         WorkerPop, WorkerExec, WorkerStats, WorkerDrain, WorkerUnchanged,
         instVars
<1> DEFINE Typed == /\ queue \in [Inst -> Seq(Task)]
                    /\ wpc \in [Inst -> WorkerPcs]
                    /\ wsize \in [Inst -> Nat]
                    /\ wtask \in [Inst -> Task \cup {NoTask}]
                    /\ processed \in [Inst -> Nat]
                    /\ maxq \in [Inst -> Nat]
                    /\ executed \in [Inst -> Seq(1 .. MaxTask)]
                    /\ \A j \in Inst : wpc[j] = "exec" => wtask[j] \in Task
<1>a. Typed
  BY DEF RefInv, TypeOK, Shape
<1>s. /\ Len(queue[i]) \in Nat
      /\ queue[i] # <<>> => Head(queue[i]) \in Task
      /\ queue[i] # <<>> => Tail(queue[i]) \in Seq(Task)
  <2>1. queue[i] \in Seq(Task)
    BY <1>a
  <2> HIDE DEF Typed
  <2> QED
    BY <2>1
<1>e. wtask[i] \in Task => Append(executed[i], wtask[i].id) \in Seq(1 .. MaxTask)
  <2>1. executed[i] \in Seq(1 .. MaxTask)
    BY <1>a
  <2>2. wtask[i] \in Task => wtask[i].id \in 1 .. MaxTask
    BY DEF Task
  <2> HIDE DEF Typed
  <2> QED
    BY <2>1, <2>2
<1>1. WorkerTop(i) => Typed'
  BY <1>a DEF WorkerTop, WorkerGoto, WorkerPcs
<1>2. WorkerCheck(i) => Typed'
  <2> SUFFICES ASSUME WorkerCheck(i)
               PROVE  Typed'
    OBVIOUS
  <2>1. PICK pc \in {"drain", "wait", "pop"} : wpc' = [wpc EXCEPT ![i] = pc]
    BY DEF WorkerCheck, WorkerGoto
  <2>2. wsize' = wsize \/ wsize' = [wsize EXCEPT ![i] = Len(queue[i])]
    BY DEF WorkerCheck
  <2>3. UNCHANGED <<queue, wtask, processed, maxq, executed>>
    BY DEF WorkerCheck
  <2>4. wsize' \in [Inst -> Nat]
    BY <1>a, <1>s, <2>2
  <2> QED
    BY <1>a, <2>1, <2>3, <2>4 DEF WorkerPcs
<1>3. WorkerSpurious(i) => Typed'
  BY <1>a DEF WorkerSpurious, WorkerGoto, WorkerPcs
<1>4. WorkerWoken(i) => Typed'
  BY <1>a DEF WorkerWoken, WorkerGoto, WorkerPcs
<1>5. WorkerPop(i) => Typed'
  <2> SUFFICES ASSUME WorkerPop(i)
               PROVE  Typed'
    OBVIOUS
  <2>1. UNCHANGED <<wsize, processed, maxq, executed>>
    BY DEF WorkerPop
  <2>2. CASE queue[i] = <<>>
    <3>1. wpc' = [wpc EXCEPT ![i] = "top"] /\ UNCHANGED <<queue, wtask>>
      BY <2>2 DEF WorkerPop, WorkerGoto
    <3> QED
      BY <1>a, <2>1, <3>1 DEF WorkerPcs
  <2>3. CASE queue[i] # <<>>
    <3>1. /\ wpc' = [wpc EXCEPT ![i] = "exec"]
          /\ wtask' = [wtask EXCEPT ![i] = Head(queue[i])]
          /\ queue' = [queue EXCEPT ![i] = Tail(queue[i])]
      BY <2>3 DEF WorkerPop, WorkerGoto
    <3>2. Head(queue[i]) \in Task /\ Tail(queue[i]) \in Seq(Task)
      BY <1>s, <2>3
    <3>3. /\ wpc' \in [Inst -> WorkerPcs]
          /\ \A j \in Inst : wpc'[j] = "exec" => wtask'[j] \in Task
      BY <1>a, <3>1, <3>2 DEF WorkerPcs
    <3>4. wtask' \in [Inst -> Task \cup {NoTask}]
      BY <1>a, <3>1, <3>2
    <3>5. queue' \in [Inst -> Seq(Task)]
      BY <1>a, <3>1, <3>2
    <3> QED
      BY <1>a, <2>1, <3>3, <3>4, <3>5
  <2> QED
    BY <2>2, <2>3
<1>6. WorkerExec(i) => Typed'
  BY <1>a, <1>e DEF WorkerExec, WorkerGoto, WorkerPcs
<1>7. WorkerStats(i) => Typed'
  BY <1>a DEF WorkerStats, WorkerGoto, WorkerPcs
<1>8. WorkerDrain(i) => Typed'
  BY <1>a, <1>s DEF WorkerDrain, WorkerGoto, WorkerPcs
<1>b. Typed'
  BY <1>1, <1>2, <1>3, <1>4, <1>5, <1>6, <1>7, <1>8 DEF WorkerStep
<1>c. TypeOK'
  BY <1>0, <1>b DEF RefInv, TypeOK
<1> QED
  BY <1>0, <1>b, <1>c, RefFrame

(* ao2_find and ao2_iterator_next: one more owner, one more reference. *)
LEMMA TakeRefInv ==
  ASSUME RefInv, NEW t \in Threads, NEW pc \in {"hold", "cli"},
         pc = "cli" => t \in CliThreads,
         TakeRef(t, pc)
  PROVE  RefInv'
<1> USE TPConstants
<1>1. PICK i \in linked : /\ refc' = [refc EXCEPT ![i] = @ + 1]
                          /\ tinst' = [tinst EXCEPT ![t] = i]
  BY DEF TakeRef
<1>2. i \in Inst /\ i <= nalloc /\ tpc[t] = "idle"
  BY DEF RefInv, TypeOK, Shape, TakeRef
<1>3. TypeOK'
  <2>1. /\ refc' \in [Inst -> Nat]
        /\ tinst' \in [Threads -> Inst \cup {NoInst}]
        /\ tpc' \in [Threads -> ThreadPcs]
    BY <1>1, <1>2 DEF RefInv, TypeOK, TakeRef, Goto, ThreadPcs
  <2>2. UNCHANGED <<nalloc, npush, contlock, linked, life, run, queue, wpc,
                    wsize, wtask, processed, maxq, executed, pinglock>>
    BY DEF TakeRef, workerVars
  <2> QED
    BY <2>1, <2>2 DEF RefInv, TypeOK
<1>4. Shape'
  <2>1. \A u \in Threads : /\ (tpc'[u] = "idle") <=> (tinst'[u] = NoInst)
                           /\ tinst'[u] <= nalloc'
    BY <1>1, <1>2 DEF RefInv, TypeOK, Shape, TakeRef, Goto, Inst, NoInst
  <2>a. /\ nalloc' = nalloc /\ linked' = linked
        /\ \A j \in Inst : j \in Int /\ refc'[j] = IF j = i THEN refc[j] + 1
                                                  ELSE refc[j]
    BY <1>1, <1>2 DEF RefInv, TypeOK, TakeRef, Inst
  <2>b. /\ \A j \in linked : j <= nalloc
        /\ \A j \in Inst : j > nalloc => refc[j] = 0
        /\ nalloc \in Int
    BY DEF RefInv, TypeOK, Shape
  <2>2. /\ \A j \in linked' : j <= nalloc'
        /\ \A j \in Inst : j > nalloc' => refc'[j] = 0
    BY <1>2, <2>a, <2>b
  <2>3. \A u \in Threads : tpc'[u] \in {"unref", "relink"} =>
                             contlock' = u /\ tinst'[u] \notin linked'
    BY <1>1 DEF RefInv, TypeOK, Shape, TakeRef, Goto
  <2>4. \A j \in Inst : wpc'[j] = "exec" => wtask'[j] \in Task
    BY DEF RefInv, Shape, TakeRef, workerVars
  <2>5. \A u \in Threads : tpc'[u] \in {"cli", "pinging", "drop"} =>
                             u \in CliThreads
    BY DEF RefInv, TypeOK, Shape, TakeRef, Goto
  <2> QED
    BY <2>1, <2>2, <2>3, <2>4, <2>5 DEF Shape
<1>5. RefCountExact'
  <2> SUFFICES ASSUME NEW j \in Inst
               PROVE  refc'[j] = Cardinality(Owners(j)')
                                   + (IF j \in linked THEN 1 ELSE 0)
    BY DEF RefCountExact, TakeRef
  <2>1. /\ j # i => Owners(j)' = Owners(j)
        /\ j = i => Cardinality(Owners(j)') = Cardinality(Owners(j)) + 1
    BY <1>1, <1>2, OwnerEnters DEF RefInv, TypeOK, TakeRef, Goto, OwnerPcs
  <2>2. refc'[j] = refc[j] + (IF j = i THEN 1 ELSE 0)
    BY <1>1 DEF RefInv, TypeOK
  <2> QED
    BY <2>1, <2>2, OwnersFinite DEF RefInv, RefCountExact
<1> QED
  BY <1>3, <1>4, <1>5 DEF RefInv

(* tris_taskprocessor_get creates: the caller's and the container's        *)
(* reference, or none.                                                     *)
LEMMA CreateRefInv ==
  ASSUME RefInv, NEW t \in Threads, NEW refs, NEW wstart, NEW link, NEW pc,
         Create(t, refs, wstart, link, pc),
         \/ refs = 2 /\ link = TRUE /\ pc = "hold"
         \/ refs = 0 /\ link = FALSE /\ pc = "destroy",
         wstart \in {"top", "never"}
  PROVE  RefInv'
<1> USE TPConstants
<1> DEFINE i == nalloc + 1
<1>1. /\ i \in Inst /\ nalloc' = i /\ tpc[t] = "idle" /\ linked = {}
      /\ linked' = IF link THEN {i} ELSE {}
      /\ refc' = [refc EXCEPT ![i] = refs]
      /\ tpc' = [tpc EXCEPT ![t] = pc]
      /\ tinst' = [tinst EXCEPT ![t] = i]
      /\ wpc' = [wpc EXCEPT ![i] = wstart]
      /\ UNCHANGED <<contlock, wtask>>
  BY DEF Create, RefInv, TypeOK, Inst, Goto
<1>2. TypeOK'
  <2>1. nalloc' \in 0 .. MaxInst /\ linked' \in SUBSET Inst
    BY <1>1 DEF RefInv, TypeOK, Inst
  <2>2. /\ refc' \in [Inst -> Nat]
        /\ life' \in [Inst -> {"unused", "live", "freed"}]
        /\ run' \in [Inst -> BOOLEAN]
        /\ wpc' \in [Inst -> WorkerPcs]
    BY <1>1 DEF RefInv, TypeOK, Create, WorkerPcs
  <2>3. /\ tpc' \in [Threads -> ThreadPcs]
        /\ tinst' \in [Threads -> Inst \cup {NoInst}]
    BY <1>1 DEF RefInv, TypeOK, ThreadPcs
  <2>4. UNCHANGED <<npush, contlock, queue, wsize, wtask, processed, maxq,
                    executed, pinglock>>
    BY DEF Create
  <2> QED
    BY <2>1, <2>2, <2>3, <2>4 DEF RefInv, TypeOK
<1>3. Shape'
  <2>1. \A u \in Threads : /\ (tpc'[u] = "idle") <=> (tinst'[u] = NoInst)
                           /\ tinst'[u] <= nalloc'
    <3> SUFFICES ASSUME NEW u \in Threads
                 PROVE  /\ (tpc'[u] = "idle") <=> (tinst'[u] = NoInst)
                        /\ tinst'[u] <= nalloc'
      OBVIOUS
    <3>1. CASE u = t
      <4>1. tpc'[t] = pc /\ tinst'[t] = i /\ pc # "idle"
        BY <1>1 DEF RefInv, TypeOK
      <4>2. i # NoInst /\ i <= nalloc'
        BY <1>1 DEF Inst, NoInst
      <4> QED
        BY <3>1, <4>1, <4>2
    <3>2. CASE u # t
      <4>1. tpc'[u] = tpc[u] /\ tinst'[u] = tinst[u]
        BY <1>1, <3>2 DEF RefInv, TypeOK
      <4>2. /\ (tpc[u] = "idle") <=> (tinst[u] = NoInst)
            /\ tinst[u] <= nalloc
            /\ nalloc \in Int /\ tinst[u] \in Int
        BY DEF RefInv, TypeOK, Shape, Inst, NoInst
      <4> QED
        BY <1>1, <4>1, <4>2
    <3> QED
      BY <3>1, <3>2
  <2>2. /\ \A j \in linked' : j <= nalloc'
        /\ \A j \in Inst : j > nalloc' => refc'[j] = 0
    BY <1>1 DEF RefInv, TypeOK, Shape, Inst
  <2>3. \A u \in Threads : tpc'[u] \in {"unref", "relink"} =>
                             contlock' = u /\ tinst'[u] \notin linked'
    BY DEF RefInv, TypeOK, Shape, Create, Goto, Threads
  <2>4. \A j \in Inst : wpc'[j] = "exec" => wtask'[j] \in Task
    BY <1>1 DEF RefInv, TypeOK, Shape
  <2>5. \A u \in Threads : tpc'[u] \in {"cli", "pinging", "drop"} =>
                             u \in CliThreads
    BY <1>1 DEF RefInv, TypeOK, Shape
  <2> QED
    BY <2>1, <2>2, <2>3, <2>4, <2>5 DEF Shape
<1>4. RefCountExact'
  <2> SUFFICES ASSUME NEW j \in Inst
               PROVE  refc'[j] = Cardinality(Owners(j)')
                                   + (IF j \in linked' THEN 1 ELSE 0)
    BY DEF RefCountExact
  <2>1. refc[i] = 0 /\ Cardinality(Owners(i)) = 0
    BY <1>1, OwnersFinite DEF RefInv, Shape, RefCountExact, Inst, TypeOK
  <2>2. refc[j] = Cardinality(Owners(j)) /\ Cardinality(Owners(j)) \in Nat
    BY <1>1, OwnersFinite DEF RefInv, RefCountExact
  <2>3. CASE pc = "hold"
    <3>1. /\ j # i => Owners(j)' = Owners(j)
          /\ j = i => Cardinality(Owners(j)') = Cardinality(Owners(j)) + 1
      BY <1>1, <2>3, OwnerEnters DEF RefInv, TypeOK, OwnerPcs
    <3> QED
      BY <1>1, <2>1, <2>2, <2>3, <3>1 DEF RefInv, TypeOK
  <2>4. CASE pc = "destroy"
    <3>1. Owners(j)' = Owners(j)
      BY <1>1, <2>4, OwnersSame DEF RefInv, TypeOK, OwnerPcs
    <3> QED
      BY <1>1, <2>1, <2>2, <2>4, <3>1 DEF RefInv, TypeOK
  <2> QED
    BY <2>3, <2>4
<1> QED
  BY <1>2, <1>3, <1>4 DEF RefInv

(* tris_taskprocessor_push and the push of a ping *)
LEMMA EnqueueTyped ==
  ASSUME TypeOK, NEW i \in Inst, NEW kind \in Kinds, Enqueue(i, kind)
  PROVE  /\ npush' \in 0 .. MaxTask
         /\ queue' \in [Inst -> Seq(Task)]
         /\ wpc' \in [Inst -> WorkerPcs]
         /\ \A j \in Inst : wpc'[j] = "exec" => wpc[j] = "exec"
<1> USE TPConstants
<1>1. [id |-> npush + 1, kind |-> kind] \in Task
  BY DEF TypeOK, Enqueue, Task
<1>2. queue[i] \in Seq(Task)
  BY DEF TypeOK
<1>3. Append(queue[i], [id |-> npush + 1, kind |-> kind]) \in Seq(Task)
  BY <1>1, <1>2
<1> QED
  BY <1>3 DEF TypeOK, Enqueue, SignalWorker, WorkerPcs

LEMMA PushRefInv ==
  ASSUME RefInv, NEW t \in Threads, Push(t)
  PROVE  RefInv'
<1>1. tinst[t] \in Inst
  BY DEF RefInv, TypeOK, Shape, Push
<1>2. /\ npush' \in 0 .. MaxTask
      /\ queue' \in [Inst -> Seq(Task)]
      /\ wpc' \in [Inst -> WorkerPcs]
      /\ \A j \in Inst : wpc'[j] = "exec" => wpc[j] = "exec"
  BY <1>1, EnqueueTyped DEF RefInv, Push, Kinds
<1>3. UNCHANGED <<nalloc, contlock, linked, refc, life, run, wsize, wtask,
                  processed, maxq, executed, tpc, tinst, pinglock>>
  BY DEF Push, instVars
<1>4. TypeOK'
  BY <1>2, <1>3 DEF RefInv, TypeOK
<1> QED
  BY <1>2, <1>3, <1>4, RefFrame DEF RefInv, Shape

(* ao2_unlink under the container lock *)
LEMMA UnlinkRefInv ==
  ASSUME RefInv, NEW t \in Threads, UnrefUnlink(t)
  PROVE  RefInv'
<1> DEFINE i == tinst[t]
<1>1. i \in Inst /\ tpc[t] = "hold" /\ contlock = NoThread
  BY DEF RefInv, TypeOK, Shape, UnrefUnlink
<1>2. /\ contlock' = t
      /\ linked' = linked \ {i}
      /\ refc' = [refc EXCEPT ![i] = IF i \in linked THEN @ - 1 ELSE @]
      /\ tpc' = [tpc EXCEPT ![t] = "unref"]
      /\ UNCHANGED <<nalloc, npush, life, run, queue, wpc, wsize, wtask,
                     processed, maxq, executed, tinst, pinglock>>
  BY DEF UnrefUnlink, Goto, workerVars
<1>3. \A j \in Inst : Owners(j)' = Owners(j)
  BY <1>1, <1>2, OwnersSame DEF RefInv, TypeOK, OwnerPcs
<1>4. \A j \in Inst : /\ refc'[j] = Cardinality(Owners(j))
                                       + (IF j \in linked' THEN 1 ELSE 0)
                      /\ refc'[j] \in Nat
  <2> SUFFICES ASSUME NEW j \in Inst
               PROVE  /\ refc'[j] = Cardinality(Owners(j))
                                      + (IF j \in linked' THEN 1 ELSE 0)
                      /\ refc'[j] \in Nat
    OBVIOUS
  <2>1. refc[j] = Cardinality(Owners(j)) + (IF j \in linked THEN 1 ELSE 0)
    BY DEF RefInv, RefCountExact
  <2>2. Cardinality(Owners(j)) \in Nat
    BY OwnersFinite
  <2>3. refc'[j] = IF j = i /\ i \in linked THEN refc[j] - 1 ELSE refc[j]
    BY <1>1, <1>2 DEF RefInv, TypeOK
  <2>4. j \in linked' <=> j \in linked /\ j # i
    BY <1>2
  <2> HIDE DEF i
  <2> QED
    BY <2>1, <2>2, <2>3, <2>4
<1>5. TypeOK'
  BY <1>1, <1>2, <1>4 DEF RefInv, TypeOK, ThreadPcs
<1>6. Shape'
  <2>1. \A u \in Threads : tpc'[u] \in {"unref", "relink"} =>
                             contlock' = u /\ tinst'[u] \notin linked'
    BY <1>1, <1>2, TPConstants DEF RefInv, TypeOK, Shape, Threads
  <2>2. /\ \A u \in Threads : (tpc'[u] = "idle") <=> (tinst'[u] = NoInst)
        /\ \A u \in Threads : tinst'[u] <= nalloc'
        /\ \A j \in linked' : j <= nalloc'
    BY <1>1, <1>2 DEF RefInv, TypeOK, Shape
  <2>3. \A j \in Inst : j > nalloc' => refc'[j] = 0
    <3>1. i <= nalloc /\ nalloc \in Int /\ \A j \in Inst : j \in Int
      BY DEF RefInv, TypeOK, Shape, Inst
    <3>2. \A j \in Inst : j # i => refc'[j] = refc[j]
      BY <1>2 DEF RefInv, TypeOK
    <3> QED
      BY <1>1, <1>2, <3>1, <3>2 DEF RefInv, Shape
  <2> QED
    BY <1>2, <2>1, <2>2, <2>3 DEF RefInv, Shape
<1> QED
  BY <1>3, <1>4, <1>5, <1>6 DEF RefInv, RefCountExact

(* ao2_ref(tps, -1), in _unreference and in the CLI commands *)
LEMMA DropRefInv ==
  ASSUME RefInv, NEW t \in Threads, NEW pc,
         \/ tpc[t] = "unref" /\ pc = "relink" /\ tinst' = tinst
         \/ /\ tpc[t] = "drop" /\ pc = "idle"
            /\ tinst' = IF refc[tinst[t]] = 1 THEN tinst
                        ELSE [tinst EXCEPT ![t] = NoInst],
         DropRef(t, pc),
         UNCHANGED <<nalloc, npush, contlock, linked, life, run, queue,
                     workerVars, pinglock>>
  PROVE  RefInv'
<1> DEFINE i == tinst[t]
<1>1. i \in Inst
  BY DEF RefInv, TypeOK, Shape
<1>2. /\ refc' = [refc EXCEPT ![i] = @ - 1]
      /\ tpc' = [tpc EXCEPT ![t] = IF refc[i] = 1 THEN "destroy" ELSE pc]
      /\ UNCHANGED <<nalloc, npush, contlock, linked, life, run, queue, wpc,
                     wsize, wtask, processed, maxq, executed, pinglock>>
  BY DEF DropRef, Goto, workerVars
<1>3. \A j \in Inst :
        /\ j # i => Owners(j)' = Owners(j)
        /\ j = i => /\ Cardinality(Owners(j)) >= 1
                    /\ Cardinality(Owners(j)') = Cardinality(Owners(j)) - 1
  BY <1>2, OwnerLeaves DEF RefInv, TypeOK, OwnerPcs
<1>4. \A j \in Inst : /\ refc'[j] = Cardinality(Owners(j)')
                                       + (IF j \in linked' THEN 1 ELSE 0)
                      /\ refc'[j] \in Nat
  <2> SUFFICES ASSUME NEW j \in Inst
               PROVE  /\ refc'[j] = Cardinality(Owners(j)')
                                      + (IF j \in linked' THEN 1 ELSE 0)
                      /\ refc'[j] \in Nat
    OBVIOUS
  <2>1. /\ refc[j] = Cardinality(Owners(j)) + (IF j \in linked THEN 1 ELSE 0)
        /\ Cardinality(Owners(j)) \in Nat
        /\ refc'[j] = IF j = i THEN refc[j] - 1 ELSE refc[j]
        /\ linked' = linked
    BY <1>1, <1>2, OwnersFinite DEF RefInv, TypeOK, RefCountExact
  <2>2. CASE j = i
    BY <1>3, <2>1, <2>2
  <2>3. CASE j # i
    BY <1>3, <2>1, <2>3
  <2> QED
    BY <2>2, <2>3
<1>5. TypeOK'
  BY <1>1, <1>2, <1>4 DEF RefInv, TypeOK, ThreadPcs
<1>6. Shape'
  <2>1. \A u \in Threads : /\ (tpc'[u] = "idle") <=> (tinst'[u] = NoInst)
                           /\ tinst'[u] <= nalloc'
    BY <1>1, <1>2 DEF RefInv, TypeOK, Shape, Inst, NoInst
  <2>2. \A u \in Threads : tpc'[u] \in {"unref", "relink"} =>
                             contlock' = u /\ tinst'[u] \notin linked'
    BY <1>1, <1>2 DEF RefInv, TypeOK, Shape
  <2>3. \A j \in Inst : j > nalloc' => refc'[j] = 0
    <3>1. i <= nalloc /\ nalloc \in Int /\ \A j \in Inst : j \in Int
      BY DEF RefInv, TypeOK, Shape, Inst
    <3>2. \A j \in Inst : j # i => refc'[j] = refc[j]
      BY <1>2 DEF RefInv, TypeOK
    <3> QED
      BY <1>1, <1>2, <3>1, <3>2 DEF RefInv, Shape
  <2> QED
    BY <1>2, <2>1, <2>2, <2>3 DEF RefInv, Shape
<1> QED
  BY <1>4, <1>5, <1>6 DEF RefInv, RefCountExact

(* ao2_link in _unreference: the container was without the instance. *)
LEMMA RelinkRefInv ==
  ASSUME RefInv, NEW t \in Threads, UnrefRelink(t)
  PROVE  RefInv'
<1> DEFINE i == tinst[t]
<1>1. i \in Inst /\ i \notin linked /\ tpc[t] = "relink" /\ contlock = t
  BY DEF RefInv, TypeOK, Shape, UnrefRelink
<1>2. /\ tpc' = [tpc EXCEPT ![t] = "idle"]
      /\ tinst' = [tinst EXCEPT ![t] = NoInst]
      /\ contlock' = NoThread
      /\ UNCHANGED <<nalloc, npush, life, run, queue, wpc, wsize, wtask,
                     processed, maxq, executed, pinglock>>
      /\ \/ linked' = linked \cup {i} /\ refc' = [refc EXCEPT ![i] = @ + 1]
         \/ linked' = linked /\ refc' = refc
  BY DEF UnrefRelink, Link, Goto, workerVars
<1>3. \A j \in Inst : Owners(j)' = Owners(j)
  BY <1>1, <1>2, OwnersSame DEF RefInv, TypeOK, OwnerPcs
<1>4. \A j \in Inst : /\ refc'[j] = Cardinality(Owners(j))
                                       + (IF j \in linked' THEN 1 ELSE 0)
                      /\ refc'[j] \in Nat
  <2> SUFFICES ASSUME NEW j \in Inst
               PROVE  /\ refc'[j] = Cardinality(Owners(j))
                                      + (IF j \in linked' THEN 1 ELSE 0)
                      /\ refc'[j] \in Nat
    OBVIOUS
  <2>1. /\ refc[j] = Cardinality(Owners(j)) + (IF j \in linked THEN 1 ELSE 0)
        /\ Cardinality(Owners(j)) \in Nat
    BY OwnersFinite DEF RefInv, RefCountExact
  <2>2. refc \in [Inst -> Nat]
    BY DEF RefInv, TypeOK
  <2>3. CASE linked' = linked /\ refc' = refc
    BY <2>1, <2>3
  <2>4. CASE linked' = linked \cup {i} /\ refc' = [refc EXCEPT ![i] = @ + 1]
    <3>1. CASE j = i
      BY <1>1, <2>1, <2>2, <2>4, <3>1
    <3>2. CASE j # i
      BY <1>1, <2>1, <2>2, <2>4, <3>2
    <3> QED
      BY <3>1, <3>2
  <2> QED
    BY <1>2, <2>3, <2>4
<1>5. TypeOK'
  BY <1>1, <1>2, <1>4 DEF RefInv, TypeOK, ThreadPcs
<1>6. Shape'
  <2>0. i <= nalloc /\ nalloc \in Nat /\ \A j \in Inst : j \in Int
    BY DEF RefInv, TypeOK, Shape, Inst
  <2>1. \A u \in Threads : /\ (tpc'[u] = "idle") <=> (tinst'[u] = NoInst)
                           /\ tinst'[u] <= nalloc'
    BY <1>1, <1>2, <2>0 DEF RefInv, TypeOK, Shape, NoInst
  <2>2. \A u \in Threads : tpc'[u] \notin {"unref", "relink"}
    BY <1>1, <1>2, TPConstants DEF RefInv, TypeOK, Shape, Threads
  <2>3. \A j \in Inst : j > nalloc' => refc'[j] = 0
    <3>1. \A j \in Inst : j # i => refc'[j] = refc[j]
      BY <1>2 DEF RefInv, TypeOK
    <3> QED
      BY <1>2, <2>0, <3>1 DEF RefInv, Shape
  <2>4. \A j \in linked' : j <= nalloc'
    BY <1>2, <2>0 DEF RefInv, Shape
  <2> QED
    BY <1>2, <2>1, <2>2, <2>3, <2>4 DEF RefInv, Shape
<1> QED
  BY <1>3, <1>4, <1>5, <1>6 DEF RefInv, RefCountExact

(* A step of a thread that neither gets nor gives a reference and leaves   *)
(* the container alone.                                                    *)
LEMMA MoveRefInv ==
  ASSUME RefInv, NEW t \in Threads, NEW pc \in ThreadPcs,
         pc \notin {"idle", "unref", "relink"}, tpc[t] # "idle",
         pc \in OwnerPcs <=> tpc[t] \in OwnerPcs,
         pc \in {"cli", "pinging", "drop"} => t \in CliThreads,
         tpc' = [tpc EXCEPT ![t] = pc], TypeOK',
         UNCHANGED <<nalloc, contlock, linked, refc, wtask, tinst>>,
         \A i \in Inst : wpc'[i] = "exec" => wpc[i] = "exec"
  PROVE  RefInv'
<1>1. Shape'
  BY DEF RefInv, TypeOK, Shape
<1>2. \A i \in Inst : Owners(i)' = Owners(i)
  BY OwnersSame DEF RefInv, TypeOK
<1>3. RefCountExact'
  BY <1>2 DEF RefInv, RefCountExact
<1> QED
  BY <1>1, <1>3 DEF RefInv

LEMMA CliRefInv ==
  ASSUME RefInv, NEW t \in Threads,
         CliReport(t) \/ CliPing(t) \/ CliPingFails(t) \/ CliPinged(t)
  PROVE  RefInv'
<1>0. t \in CliThreads
  BY DEF RefInv, Shape, CliReport, CliPing, CliPingFails, CliPinged
<1>1. CASE CliReport(t)
  <2>1. TypeOK'
    BY <1>1 DEF CliReport, RefInv, TypeOK, Goto, ThreadPcs, instVars,
       workerVars
  <2> QED
    BY <1>0, <1>1, <2>1, MoveRefInv DEF CliReport, Goto, instVars, workerVars,
       ThreadPcs, OwnerPcs
<1>2. CASE CliPing(t)
  <2>1. tinst[t] \in Inst
    BY <1>2 DEF RefInv, TypeOK, Shape, CliPing
  <2>2. /\ npush' \in 0 .. MaxTask
        /\ queue' \in [Inst -> Seq(Task)]
        /\ wpc' \in [Inst -> WorkerPcs]
        /\ \A j \in Inst : wpc'[j] = "exec" => wpc[j] = "exec"
    BY <1>2, <2>1, EnqueueTyped DEF RefInv, CliPing, Kinds
  <2>3. tpc' = [tpc EXCEPT ![t] = "pinging"] /\ tpc[t] = "cli"
    BY <1>2 DEF CliPing, Goto
  <2>4. UNCHANGED <<nalloc, contlock, linked, refc, life, run, wsize, wtask,
                    processed, maxq, executed, tinst, pinglock>>
    BY <1>2 DEF CliPing, instVars
  <2>5. TypeOK'
    BY <2>2, <2>3, <2>4 DEF RefInv, TypeOK, ThreadPcs
  <2> QED
    BY <1>0, <2>2, <2>3, <2>4, <2>5, MoveRefInv DEF ThreadPcs, OwnerPcs
<1>3. CASE CliPingFails(t)
  <2>2. TypeOK'
    BY <1>0, <1>3 DEF CliPingFails, RefInv, TypeOK, Goto, ThreadPcs,
       instVars, workerVars
  <2> QED
    BY <1>0, <1>3, <2>2, MoveRefInv DEF CliPingFails, Goto, instVars, workerVars,
       ThreadPcs, OwnerPcs
<1>4. CASE CliPinged(t)
  <2>1. TypeOK'
    BY <1>4 DEF CliPinged, RefInv, TypeOK, Goto, ThreadPcs, instVars,
       workerVars
  <2> QED
    BY <1>0, <1>4, <2>1, MoveRefInv DEF CliPinged, Goto, instVars, workerVars,
       ThreadPcs, OwnerPcs
<1> QED
  BY <1>1, <1>2, <1>3, <1>4

LEMMA DestroyRefInv ==
  ASSUME RefInv, NEW t \in Threads, DestroyStep(t)
  PROVE  RefInv'
<1> DEFINE i == tinst[t]
<1>1. i \in Inst /\ tpc[t] \in {"destroy", "join"}
  BY DEF RefInv, TypeOK, Shape, DestroyStep, DestroyStop, DestroyJoin
<1>2. CASE DestroyStop(t)
  <2>1. wpc' \in [Inst -> WorkerPcs]
        /\ \A j \in Inst : wpc'[j] = "exec" => wpc[j] = "exec"
    BY <1>1, <1>2 DEF RefInv, TypeOK, DestroyStop, SignalWorker, WorkerPcs
  <2>2. TypeOK'
    BY <1>1, <1>2, <2>1 DEF RefInv, TypeOK, DestroyStop, Goto, ThreadPcs
  <2> QED
    BY <1>1, <1>2, <2>1, <2>2, MoveRefInv DEF DestroyStop, Goto, ThreadPcs,
       OwnerPcs
<1>3. CASE DestroyJoin(t) /\ tpc' = [tpc EXCEPT ![t] = "crash"]
  <2>1. UNCHANGED <<nalloc, npush, contlock, linked, refc, life, run, queue,
                    wpc, wsize, wtask, processed, maxq, executed, tinst,
                    pinglock>>
    BY <1>1, <1>3 DEF RefInv, TypeOK, DestroyJoin, Goto, workerVars
  <2>2. TypeOK'
    BY <1>3, <2>1 DEF RefInv, TypeOK, ThreadPcs
  <2> QED
    BY <1>1, <1>3, <2>1, <2>2, MoveRefInv DEF ThreadPcs, OwnerPcs
<1>4. CASE DestroyJoin(t) /\ tpc' # [tpc EXCEPT ![t] = "crash"]
  <2>1. /\ tpc' = [tpc EXCEPT ![t] = "idle"]
        /\ tinst' = [tinst EXCEPT ![t] = NoInst]
        /\ life' = [life EXCEPT ![i] = "freed"]
        /\ contlock' = IF contlock = t THEN NoThread ELSE contlock
        /\ UNCHANGED <<nalloc, npush, linked, refc, run, queue, wpc, wsize,
                       wtask, processed, maxq, executed, pinglock>>
    BY <1>4 DEF DestroyJoin, Goto, workerVars
  <2>2. TypeOK'
    BY <1>1, <2>1 DEF RefInv, TypeOK, ThreadPcs
  <2>3. nalloc \in Nat
    BY DEF RefInv, TypeOK
  <2>4. Shape'
    BY <1>1, <2>1, <2>3 DEF RefInv, TypeOK, Shape, NoInst
  <2>5. \A j \in Inst : Owners(j)' = Owners(j)
    BY <1>1, <2>1, OwnersSame DEF RefInv, TypeOK, OwnerPcs
  <2>6. RefCountExact'
    BY <2>1, <2>5 DEF RefInv, RefCountExact
  <2> QED
    BY <2>2, <2>4, <2>6 DEF RefInv
<1> QED
  BY <1>2, <1>3, <1>4 DEF DestroyStep

LEMMA RefInvNext == RefInv /\ [Next]_vars => RefInv'
<1> SUFFICES ASSUME RefInv, [Next]_vars PROVE RefInv'
  OBVIOUS
<1>1. CASE UNCHANGED vars
  <2>1. TypeOK'
    BY <1>1 DEF vars, instVars, workerVars, RefInv, TypeOK
  <2> QED
    BY <1>1, <2>1, RefFrame DEF vars, instVars, workerVars, RefInv, Shape
<1>2. ASSUME NEW t \in Threads, UserStep(t) PROVE RefInv'
  <2>1. CASE GetExisting(t)
    BY <2>1, TakeRefInv DEF GetExisting
  <2>2. CASE GetCreate(t) \/ GetThreadFails(t)
    BY <2>2, CreateRefInv DEF GetCreate, GetThreadFails
  <2>3. CASE GetAllocFails(t) \/ GetLinkFails(t)
    BY <2>3, CreateRefInv DEF GetAllocFails, GetLinkFails
  <2>4. CASE Push(t)
    BY <2>4, PushRefInv
  <2>5. CASE UnrefUnlink(t)
    BY <2>5, UnlinkRefInv
  <2>6. CASE UnrefDrop(t)
    BY <2>6, DropRefInv DEF UnrefDrop
  <2>7. CASE UnrefRelink(t)
    BY <2>7, RelinkRefInv
  <2> QED
    BY <1>2, <2>1, <2>2, <2>3, <2>4, <2>5, <2>6, <2>7 DEF UserStep
<1>3. ASSUME NEW t \in Threads, CliStep(t) PROVE RefInv'
  <2>1. CASE CliRef(t)
    BY <2>1, TakeRefInv DEF CliRef
  <2>2. CASE CliDrop(t)
    BY <2>2, DropRefInv DEF CliDrop
  <2> QED
    BY <1>3, <2>1, <2>2, CliRefInv DEF CliStep
<1> QED
  BY <1>1, <1>2, <1>3, DestroyRefInv, WorkerRefInv DEF Next

(* Every variable has its type, in every behaviour: in particular no       *)
(* reference counter goes below zero.                                      *)
THEOREM TypeCorrect == Spec => []TypeOK
<1>1. RefInv => TypeOK
  BY DEF RefInv
<1> QED
  BY <1>1, RefInvInit, RefInvNext, PTL DEF Spec

(* The reference counter of an instance is exact, whatever the module      *)
(* threads and the CLI do, and whatever allocation fails.                  *)
THEOREM RefCountsExact == Spec => []RefCountExact
<1>1. RefInv => RefCountExact
  BY DEF RefInv
<1> QED
  BY <1>1, RefInvInit, RefInvNext, PTL DEF Spec

-----------------------------------------------------------------------------
(* No use after free, as long as the CLI does not drop a reference outside *)
(* the container lock.                                                     *)

Destroying == {"destroy", "join", "crash"}

(* NoUseAfterFree with what makes it inductive: a counted reference keeps  *)
(* an instance alive; an instance is destroyed by one thread, when no      *)
(* reference is left; and a thread that is to put its instance back into   *)
(* the container relies on a reference of somebody else.                   *)
LifeInv ==
  /\ NoUseAfterFree
  /\ \A i \in Inst : refc[i] > 0 => life[i] = "live"
  /\ \A t \in Threads : tpc[t] \in Destroying => refc[tinst[t]] = 0
  /\ \A t, u \in Threads :
       tpc[t] \in Destroying /\ tpc[u] \in Destroying /\ tinst[t] = tinst[u]
         => t = u
  /\ \A t \in Threads : tpc[t] = "relink" => refc[tinst[t]] > 0

LEMMA LifeInvInit == Init => LifeInv
  BY DEF Init, LifeInv, NoUseAfterFree, Destroying

(* A thread that owns a reference, or the container, is counted. *)
LEMMA OwnedCounted ==
  ASSUME RefInv, NEW i \in Inst, refc[i] = 0
  PROVE  /\ i \notin linked
         /\ \A t \in Threads : tpc[t] \in OwnerPcs => tinst[t] # i
<1>1. Cardinality(Owners(i)) = 0 /\ i \notin linked
  BY OwnersFinite DEF RefInv, RefCountExact
<1>2. Owners(i) = {}
  BY <1>1, OwnersFinite, FS_EmptySet
<1> QED
  BY <1>1, <1>2 DEF Owners

(* A step that changes no reference, no thread's place and no lifetime. *)
LEMMA LifeFrame ==
  ASSUME LifeInv, UNCHANGED <<linked, refc, life, tpc, tinst>>,
         \A i \in Inst : wpc'[i] \notin {"never", "done"} =>
                           wpc[i] \notin {"never", "done"}
  PROVE  LifeInv'
  BY DEF LifeInv, NoUseAfterFree

LEMMA WorkerLifeInv ==
  ASSUME RefInv, LifeInv, NEW i \in Inst, WorkerStep(i)
  PROVE  LifeInv'
<1>1. UNCHANGED <<linked, refc, life, tpc, tinst>>
  BY DEF WorkerStep, WorkerTop, WorkerCheck, WorkerSpurious, WorkerWoken,
         WorkerPop, WorkerExec, WorkerStats, WorkerDrain, WorkerUnchanged,
         instVars
<1>2. wpc \in [Inst -> WorkerPcs]
  BY DEF RefInv, TypeOK
<1>3. /\ wpc[i] \notin {"never", "done"}
      /\ \A j \in Inst : j # i => wpc'[j] = wpc[j]
  BY <1>2 DEF WorkerStep, WorkerTop, WorkerCheck, WorkerSpurious,
     WorkerWoken, WorkerPop, WorkerExec, WorkerStats, WorkerDrain, WorkerGoto
<1> QED
  BY <1>1, <1>3, LifeFrame

LEMMA TakeLifeInv ==
  ASSUME RefInv, LifeInv, NEW t \in Threads, TakeRef(t, "hold")
  PROVE  LifeInv'
<1>1. PICK i \in linked : /\ refc' = [refc EXCEPT ![i] = @ + 1]
                          /\ tinst' = [tinst EXCEPT ![t] = i]
  BY DEF TakeRef
<1>2. /\ i \in Inst /\ life[i] = "live" /\ refc[i] # 0
      /\ tpc' = [tpc EXCEPT ![t] = "hold"]
      /\ UNCHANGED <<linked, life, wpc>>
  BY OwnedCounted DEF RefInv, TypeOK, LifeInv, NoUseAfterFree, TakeRef, Goto,
     workerVars
<1>3. /\ tpc \in [Threads -> ThreadPcs]
      /\ tinst \in [Threads -> Inst \cup {NoInst}]
      /\ refc \in [Inst -> Nat]
      /\ \A u \in Threads : tpc[u] # "idle" => tinst[u] \in Inst
  BY DEF RefInv, TypeOK, Shape
<1> QED
  BY <1>1, <1>2, <1>3 DEF LifeInv, NoUseAfterFree, Destroying

LEMMA CreateLifeInv ==
  ASSUME RefInv, LifeInv, NEW t \in Threads, NEW refs, NEW wstart, NEW link,
         NEW pc, Create(t, refs, wstart, link, pc),
         \/ refs = 2 /\ link = TRUE /\ pc = "hold"
         \/ refs = 0 /\ link = FALSE /\ pc = "destroy"
  PROVE  LifeInv'
<1> DEFINE i == nalloc + 1
<1>1. /\ i \in Inst /\ tpc[t] = "idle" /\ linked = {}
      /\ linked' = IF link THEN {i} ELSE {}
      /\ refc' = [refc EXCEPT ![i] = refs]
      /\ life' = [life EXCEPT ![i] = "live"]
      /\ tpc' = [tpc EXCEPT ![t] = pc]
      /\ tinst' = [tinst EXCEPT ![t] = i]
      /\ wpc' = [wpc EXCEPT ![i] = wstart]
  BY TPConstants DEF Create, RefInv, TypeOK, Inst, Goto
<1>2. /\ tpc \in [Threads -> ThreadPcs]
      /\ tinst \in [Threads -> Inst \cup {NoInst}]
      /\ refc \in [Inst -> Nat]
      /\ life \in [Inst -> {"unused", "live", "freed"}]
      /\ wpc \in [Inst -> WorkerPcs]
      /\ \A u \in Threads : tpc[u] # "idle" => tinst[u] \in Inst
  BY DEF RefInv, TypeOK, Shape
<1>3. \A u \in Threads : tinst[u] # i
  BY DEF RefInv, TypeOK, Shape, Inst, NoInst
<1> QED
  BY <1>1, <1>2, <1>3 DEF LifeInv, NoUseAfterFree, Destroying

(* _push, and the destructor's first half *)
LEMMA SignalLifeInv ==
  ASSUME RefInv, LifeInv, NEW t \in Threads, Push(t) \/ DestroyStop(t)
  PROVE  LifeInv'
<1>1. /\ tpc \in [Threads -> ThreadPcs]
      /\ wpc \in [Inst -> WorkerPcs]
  BY DEF RefInv, TypeOK
<1>2. \A i \in Inst : wpc'[i] \notin {"never", "done"} =>
                        wpc[i] \notin {"never", "done"}
  BY <1>1 DEF Push, Enqueue, DestroyStop, SignalWorker
<1>3. UNCHANGED <<linked, refc, life, tinst>>
  BY DEF Push, DestroyStop, instVars
<1>4. CASE Push(t)
  BY <1>2, <1>3, <1>4, LifeFrame DEF Push
<1>5. CASE DestroyStop(t)
  <2>1. tpc[t] = "destroy" /\ tpc' = [tpc EXCEPT ![t] = "join"]
    BY <1>5 DEF DestroyStop, Goto
  <2> QED
    BY <1>1, <1>2, <1>3, <2>1 DEF LifeInv, NoUseAfterFree, Destroying
<1> QED
  BY <1>4, <1>5

LEMMA UnlinkLifeInv ==
  ASSUME RefInv, RefInv', LifeInv, NEW t \in Threads, UnrefUnlink(t)
  PROVE  LifeInv'
<1> DEFINE i == tinst[t]
<1>1. /\ i \in Inst /\ tpc[t] = "hold" /\ contlock = NoThread
      /\ linked' = linked \ {i}
      /\ refc' = [refc EXCEPT ![i] = IF i \in linked THEN @ - 1 ELSE @]
      /\ tpc' = [tpc EXCEPT ![t] = "unref"]
      /\ UNCHANGED <<life, tinst, wpc>>
  BY DEF RefInv, TypeOK, Shape, UnrefUnlink, Goto, workerVars
<1>2. /\ tpc \in [Threads -> ThreadPcs]
      /\ refc \in [Inst -> Nat] /\ refc' \in [Inst -> Nat]
      /\ \A u \in Threads : tpc[u] # "idle" => tinst[u] \in Inst
  BY DEF RefInv, TypeOK, Shape
<1>3. /\ \A u \in Threads : tpc[u] # "relink"
      /\ \A u \in Threads : tpc[u] \in Destroying => tinst[u] # i
  <2>1. \A u \in Threads : tpc[u] # "relink"
    BY <1>1, TPConstants DEF RefInv, Shape, Threads
  <2>2. refc[i] # 0
    BY <1>1, OwnedCounted DEF OwnerPcs
  <2> QED
    BY <2>1, <2>2 DEF LifeInv
<1>4. \A j \in Inst : refc'[j] <= refc[j]
  BY <1>1, <1>2
<1>5. NoUseAfterFree' /\ \A j \in Inst : refc'[j] > 0 => life'[j] = "live"
  BY <1>1, <1>2, <1>4 DEF LifeInv, NoUseAfterFree
<1>6. \A u \in Threads : tpc'[u] \in Destroying =>
         tpc[u] \in Destroying /\ tinst'[u] = tinst[u] /\ refc'[tinst[u]] = 0
  BY <1>1, <1>2, <1>3 DEF LifeInv, Destroying
<1> QED
  BY <1>1, <1>2, <1>3, <1>5, <1>6 DEF LifeInv

LEMMA DropLifeInv ==
  ASSUME RefInv, LifeInv, NEW t \in Threads, UnrefDrop(t)
  PROVE  LifeInv'
<1> DEFINE i == tinst[t]
<1>1. /\ i \in Inst /\ tpc[t] = "unref" /\ contlock = t
      /\ refc' = [refc EXCEPT ![i] = @ - 1]
      /\ tpc' = [tpc EXCEPT ![t] = IF refc[i] = 1 THEN "destroy" ELSE "relink"]
      /\ UNCHANGED <<linked, life, tinst, wpc>>
  BY DEF RefInv, TypeOK, Shape, UnrefDrop, DropRef, Goto, workerVars
<1>2. /\ tpc \in [Threads -> ThreadPcs]
      /\ refc \in [Inst -> Nat]
      /\ \A u \in Threads : tpc[u] # "idle" => tinst[u] \in Inst
  BY DEF RefInv, TypeOK, Shape
<1>3. refc[i] # 0
  BY <1>1, OwnedCounted DEF OwnerPcs
<1>4. /\ \A u \in Threads : tpc[u] # "relink"
      /\ \A u \in Threads : tpc[u] \in Destroying => tinst[u] # i
  BY <1>1, <1>3 DEF RefInv, Shape, LifeInv
<1>5. /\ refc'[i] = refc[i] - 1
      /\ \A j \in Inst : j # i => refc'[j] = refc[j]
  BY <1>1, <1>2
<1>6. NoUseAfterFree' /\ \A j \in Inst : refc'[j] > 0 => life'[j] = "live"
  BY <1>1, <1>2, <1>3, <1>5 DEF LifeInv, NoUseAfterFree
<1>7. \A u \in Threads : u # t => tpc'[u] = tpc[u]
  BY <1>1, <1>2
<1>8. CASE refc[i] = 1
  <2>1. tpc'[t] = "destroy" /\ refc'[i] = 0
    BY <1>1, <1>2, <1>5, <1>8
  <2> QED
    BY <1>1, <1>2, <1>4, <1>5, <1>6, <1>7, <2>1 DEF LifeInv, Destroying
<1>9. CASE refc[i] # 1
  <2>1. tpc'[t] = "relink" /\ refc'[i] > 0
    BY <1>1, <1>2, <1>3, <1>5, <1>9
  <2> QED
    BY <1>1, <1>2, <1>4, <1>5, <1>6, <1>7, <2>1 DEF LifeInv, Destroying
<1> QED
  BY <1>8, <1>9

LEMMA RelinkLifeInv ==
  ASSUME RefInv, LifeInv, NEW t \in Threads, UnrefRelink(t)
  PROVE  LifeInv'
<1> DEFINE i == tinst[t]
<1>1. /\ i \in Inst /\ tpc[t] = "relink"
      /\ tpc' = [tpc EXCEPT ![t] = "idle"]
      /\ tinst' = [tinst EXCEPT ![t] = NoInst]
      /\ \/ linked' = linked \cup {i} /\ refc' = [refc EXCEPT ![i] = @ + 1]
         \/ linked' = linked /\ refc' = refc
      /\ UNCHANGED <<life, wpc>>
  BY DEF RefInv, TypeOK, Shape, UnrefRelink, Link, Goto, workerVars
<1>2. /\ tpc \in [Threads -> ThreadPcs]
      /\ tinst \in [Threads -> Inst \cup {NoInst}]
      /\ refc \in [Inst -> Nat]
      /\ \A u \in Threads : tpc[u] # "idle" => tinst[u] \in Inst
  BY DEF RefInv, TypeOK, Shape
<1>3. refc[i] > 0 /\ life[i] = "live"
  BY <1>1 DEF LifeInv
<1>4. \A j \in Inst : \/ refc'[j] = refc[j]
                      \/ j = i /\ refc'[j] = refc[j] + 1
  <2>1. CASE refc' = refc
    BY <2>1
  <2>2. CASE refc' = [refc EXCEPT ![i] = @ + 1]
    BY <1>2, <2>2
  <2> QED
    BY <1>1, <2>1, <2>2
<1>5. NoUseAfterFree' /\ \A j \in Inst : refc'[j] > 0 => life'[j] = "live"
  BY <1>1, <1>2, <1>3, <1>4 DEF LifeInv, NoUseAfterFree
<1>6. \A u \in Threads : tpc'[u] # "idle" =>
         u # t /\ tpc'[u] = tpc[u] /\ tinst'[u] = tinst[u]
  BY <1>1, <1>2
<1>7. \A u \in Threads : tpc[u] \in Destroying => tinst[u] # i
  BY <1>3 DEF LifeInv
<1> QED
  BY <1>2, <1>3, <1>4, <1>5, <1>6, <1>7 DEF LifeInv, Destroying

(* Whoever destroys an instance is the only thread that knows it. *)
LEMMA DestroyerAlone ==
  ASSUME RefInv, LifeInv, NEW t \in Threads, tpc[t] \in Destroying,
         tinst[t] \in Inst
  PROVE  /\ tinst[t] \notin linked
         /\ \A u \in Threads : u # t => tinst[u] # tinst[t]
<1> DEFINE i == tinst[t]
<1>1. refc[i] = 0 /\ i \notin linked
  BY OwnedCounted DEF LifeInv
<1>2. \A u \in Threads : u # t => tinst[u] # i
  <2> SUFFICES ASSUME NEW u \in Threads, u # t, tinst[u] = i PROVE FALSE
    OBVIOUS
  <2>1. tpc[u] \in ThreadPcs /\ tpc[u] # "idle"
    BY DEF RefInv, TypeOK, Shape, Inst, NoInst
  <2>2. tpc[u] \notin OwnerPcs
    BY <1>1, OwnedCounted
  <2>3. tpc[u] \notin Destroying /\ tpc[u] # "relink"
    BY <1>1 DEF LifeInv
  <2> QED
    BY <2>1, <2>2, <2>3 DEF ThreadPcs, OwnerPcs, Destroying
<1> QED
  BY <1>1, <1>2

LEMMA JoinLifeInv ==
  ASSUME RefInv, LifeInv, NEW t \in Threads, DestroyJoin(t)
  PROVE  LifeInv'
<1> DEFINE i == tinst[t]
<1>1. /\ i \in Inst /\ tpc[t] = "join" /\ wpc[i] \in {"done", "never"}
      /\ UNCHANGED <<linked, refc, wpc>>
  BY DEF RefInv, TypeOK, Shape, DestroyJoin, workerVars
<1>2. /\ tpc \in [Threads -> ThreadPcs]
      /\ tinst \in [Threads -> Inst \cup {NoInst}]
      /\ life \in [Inst -> {"unused", "live", "freed"}]
      /\ \A u \in Threads : (tpc[u] = "idle") <=> (tinst[u] = NoInst)
  BY DEF RefInv, TypeOK, Shape
<1>3. refc[i] = 0 /\ i \notin linked
  BY <1>1, OwnedCounted DEF LifeInv, Destroying
<1>4. \A u \in Threads : u # t => tinst[u] # i
  BY <1>1, DestroyerAlone DEF Destroying
<1>5. CASE tpc' = [tpc EXCEPT ![t] = "crash"] /\ UNCHANGED <<life, tinst>>
  <2>1. \A u \in Threads : tpc'[u] \in Destroying <=> tpc[u] \in Destroying
    BY <1>1, <1>2, <1>5 DEF Destroying
  <2>2. \A u \in Threads : tpc'[u] = "relink" => tpc[u] = "relink"
    BY <1>2, <1>5
  <2> QED
    BY <1>1, <1>5, <2>1, <2>2 DEF LifeInv, NoUseAfterFree
<1>6. CASE /\ tpc' = [tpc EXCEPT ![t] = "idle"]
           /\ tinst' = [tinst EXCEPT ![t] = NoInst]
           /\ life' = [life EXCEPT ![i] = "freed"]
  <2>1. \A u \in Threads : tpc'[u] # "idle" =>
           u # t /\ tpc'[u] = tpc[u] /\ tinst'[u] = tinst[u]
    BY <1>2, <1>6
  <2>2. \A j \in Inst : j # i => life'[j] = life[j]
    BY <1>2, <1>6
  <2>3. NoUseAfterFree'
    <3>1. \A j \in linked' : life'[j] = "live"
      BY <1>1, <1>3, <2>2 DEF LifeInv, NoUseAfterFree, RefInv, TypeOK
    <3>2. \A u \in Threads : tinst'[u] # NoInst => life'[tinst'[u]] = "live"
      BY <1>2, <1>4, <1>6, <2>2 DEF LifeInv, NoUseAfterFree
    <3>3. \A j \in Inst : wpc'[j] \notin {"never", "done"} => life'[j] = "live"
      BY <1>1, <2>2 DEF LifeInv, NoUseAfterFree
    <3> QED
      BY <3>1, <3>2, <3>3 DEF NoUseAfterFree
  <2>4. \A j \in Inst : refc'[j] > 0 => life'[j] = "live"
    BY <1>1, <1>3, <2>2 DEF LifeInv
  <2> QED
    BY <1>1, <2>1, <2>3, <2>4 DEF LifeInv, Destroying
<1> QED
  BY <1>5, <1>6 DEF DestroyJoin, Goto

LEMMA LifeInvNext ==
  ASSUME CliThreads = {}, RefInv, RefInv', LifeInv, [Next]_vars
  PROVE  LifeInv'
<1>1. CASE UNCHANGED vars
  BY <1>1, LifeFrame DEF vars, instVars, workerVars
<1>2. ASSUME NEW t \in Threads, UserStep(t) PROVE LifeInv'
  <2>1. CASE GetExisting(t)
    BY <2>1, TakeLifeInv DEF GetExisting
  <2>2. CASE GetCreate(t) \/ GetThreadFails(t)
    BY <2>2, CreateLifeInv DEF GetCreate, GetThreadFails
  <2>3. CASE GetAllocFails(t) \/ GetLinkFails(t)
    BY <2>3, CreateLifeInv DEF GetAllocFails, GetLinkFails
  <2> QED
    BY <1>2, <2>1, <2>2, <2>3, SignalLifeInv, UnlinkLifeInv, DropLifeInv,
       RelinkLifeInv DEF UserStep
<1>3. ASSUME NEW t \in Threads PROVE ~CliStep(t)
  BY DEF CliStep, CliRef, CliReport, CliPing, CliPingFails, CliPinged,
     CliDrop, RefInv, Shape
<1>4. ASSUME NEW t \in Threads, DestroyStep(t) PROVE LifeInv'
  BY <1>4, SignalLifeInv, JoinLifeInv DEF DestroyStep
<1> QED
  BY <1>1, <1>2, <1>3, <1>4, WorkerLifeInv DEF Next

(* When references are dropped only by tris_taskprocessor_unreference, no  *)
(* instance is used after it was freed: not by the container, not by a     *)
(* thread in an operation, not by a worker.                                *)
THEOREM NoUseAfterFreeWithoutCli ==
  ASSUME CliThreads = {}
  PROVE  Spec => []NoUseAfterFree
<1>1. LifeInv => NoUseAfterFree
  BY DEF LifeInv
<1>2. RefInv /\ RefInv' /\ LifeInv /\ [Next]_vars => LifeInv'
  BY LifeInvNext
<1> QED
  BY <1>1, <1>2, RefInvInit, RefInvNext, LifeInvInit, PTL DEF Spec

-----------------------------------------------------------------------------
(* One worker, as long as nothing fails. *)

(* An instance that is in the container or known to a thread *)
Known(i) == i \in linked \/ \E t \in Threads : tinst[t] = i

(* There is one known instance at a time, and it is the only one whose     *)
(* worker runs: an instance is known outside the container only while the  *)
(* container is locked, so that no other instance can be created.          *)
OneInv ==
  /\ \A i, j \in Inst : Known(i) /\ Known(j) => i = j
  /\ \A i \in Inst : wpc[i] \notin {"never", "done"} => Known(i)
  /\ \A t \in Threads : tinst[t] \in Inst \ linked => contlock # NoThread
  /\ \A t \in Threads : tpc[t] \in Destroying => contlock = t

LEMMA OneInvInit == Init => OneInv
  BY DEF Init, OneInv, Known, Destroying, Inst, NoInst

(* A step that lets no instance become known or unknown, starts no worker, *)
(* and leaves alone who is in the container and who holds its lock. *)
LEMMA OneFrame ==
  ASSUME OneInv, UNCHANGED <<linked, tinst, contlock>>,
         \A i \in Inst : wpc'[i] \notin {"never", "done"} =>
                           wpc[i] \notin {"never", "done"},
         \A t \in Threads : tpc'[t] \in Destroying =>
                               tpc[t] \in Destroying \/ contlock = t
  PROVE  OneInv'
  BY DEF OneInv, Known

LEMMA WorkerOneInv ==
  ASSUME RefInv, OneInv, NEW i \in Inst, WorkerStep(i)
  PROVE  OneInv'
<1>1. UNCHANGED <<linked, contlock, tpc, tinst>>
  BY DEF WorkerStep, WorkerTop, WorkerCheck, WorkerSpurious, WorkerWoken,
         WorkerPop, WorkerExec, WorkerStats, WorkerDrain, WorkerUnchanged
<1>2. wpc \in [Inst -> WorkerPcs]
  BY DEF RefInv, TypeOK
<1>3. /\ wpc[i] \notin {"never", "done"}
      /\ \A j \in Inst : j # i => wpc'[j] = wpc[j]
  BY <1>2 DEF WorkerStep, WorkerTop, WorkerCheck, WorkerSpurious,
     WorkerWoken, WorkerPop, WorkerExec, WorkerStats, WorkerDrain, WorkerGoto
<1> QED
  BY <1>1, <1>3, OneFrame

(* _get: of the instance in the container, or of a new one if nobody knows *)
(* any other. *)
LEMMA GetOneInv ==
  ASSUME RefInv, OneInv, NEW t \in Threads, GetExisting(t) \/ GetCreate(t)
  PROVE  OneInv'
<1>1. /\ tpc \in [Threads -> ThreadPcs]
      /\ tinst \in [Threads -> Inst \cup {NoInst}]
      /\ wpc \in [Inst -> WorkerPcs]
      /\ tpc[t] = "idle" /\ contlock = NoThread /\ contlock' = contlock
      /\ tpc' = [tpc EXCEPT ![t] = "hold"]
  BY DEF RefInv, TypeOK, GetExisting, TakeRef, GetCreate, Create, Goto
<1>2. \A u \in Threads : tpc'[u] \in Destroying => tpc[u] \in Destroying
  BY <1>1 DEF Destroying
<1>3. tinst[t] = NoInst /\ NoInst \notin Inst
  BY <1>1 DEF RefInv, Shape, Inst, NoInst
<1>4. CASE GetExisting(t)
  <2>1. PICK i \in linked : tinst' = [tinst EXCEPT ![t] = i]
    BY <1>4 DEF GetExisting, TakeRef
  <2>2. UNCHANGED <<linked, wpc>>
    BY <1>4 DEF GetExisting, TakeRef, workerVars
  <2>3. \A j \in Inst : Known(j)' <=> Known(j)
    BY <1>1, <1>3, <2>1, <2>2 DEF Known
  <2> QED
    BY <1>1, <1>2, <2>1, <2>2, <2>3 DEF OneInv
<1>5. CASE GetCreate(t)
  <2> DEFINE i == nalloc + 1
  <2>1. /\ i \in Inst /\ linked = {} /\ linked' = {i}
        /\ tinst' = [tinst EXCEPT ![t] = i]
        /\ wpc' = [wpc EXCEPT ![i] = "top"]
    BY <1>5, TPConstants DEF GetCreate, Create, RefInv, TypeOK, Inst
  <2>2. \A u \in Threads : tinst[u] = NoInst
    BY <1>1, <2>1 DEF OneInv
  <2>3. \A j \in Inst : Known(j)' <=> j = i
    BY <1>1, <1>3, <2>1, <2>2 DEF Known
  <2>4. \A j \in Inst : wpc'[j] \notin {"never", "done"} => j = i
    BY <1>1, <1>3, <2>1, <2>2 DEF OneInv, Known
  <2> QED
    BY <1>1, <1>2, <1>3, <2>1, <2>2, <2>3, <2>4 DEF OneInv
<1> QED
  BY <1>4, <1>5

(* _unreference: the instance leaves the container under its lock, and     *)
(* returns before the lock does, unless it is destroyed.                   *)
LEMMA UnrefOneInv ==
  ASSUME ~MayFail, RefInv, OneInv, NEW t \in Threads,
         UnrefUnlink(t) \/ UnrefDrop(t) \/ UnrefRelink(t)
  PROVE  OneInv'
<1> DEFINE i == tinst[t]
<1>1. /\ tpc \in [Threads -> ThreadPcs]
      /\ tinst \in [Threads -> Inst \cup {NoInst}]
      /\ wpc' = wpc
      /\ i \in Inst
  BY DEF RefInv, TypeOK, Shape, UnrefUnlink, UnrefDrop, UnrefRelink,
     workerVars
<1>2. CASE UnrefUnlink(t)
  <2>1. /\ contlock = NoThread /\ contlock' = t
        /\ linked' = linked \ {i} /\ tinst' = tinst
        /\ tpc' = [tpc EXCEPT ![t] = "unref"]
    BY <1>2 DEF UnrefUnlink, Goto
  <2>2. \A j \in Inst : Known(j)' <=> Known(j)
    BY <2>1 DEF Known
  <2>3. t # NoThread /\ \A u \in Threads : tpc'[u] \notin Destroying
    BY <1>1, <2>1, TPConstants DEF OneInv, Threads, Destroying
  <2> QED
    BY <1>1, <2>1, <2>2, <2>3 DEF OneInv
<1>3. CASE UnrefDrop(t)
  <2>1. /\ contlock = t /\ UNCHANGED <<linked, tinst, contlock>>
        /\ \A u \in Threads : u # t => tpc'[u] = tpc[u]
    BY <1>1, <1>3 DEF UnrefDrop, DropRef, Goto, RefInv, Shape
  <2> QED
    BY <1>1, <2>1, OneFrame
<1>4. CASE UnrefRelink(t)
  <2>1. /\ contlock = t /\ tpc[t] = "relink"
        /\ linked' = linked \cup {i}
        /\ tinst' = [tinst EXCEPT ![t] = NoInst]
        /\ tpc' = [tpc EXCEPT ![t] = "idle"]
    BY <1>4 DEF UnrefRelink, Link, Goto, RefInv, Shape
  <2>2. \A j \in Inst : Known(j)' <=> Known(j)
    BY <1>1, <2>1 DEF Known, Inst, NoInst
  <2>3. \A u \in Threads : tpc'[u] \notin Destroying
    BY <1>1, <2>1 DEF OneInv, Destroying
  <2>4. \A u \in Threads : tinst'[u] \in Inst => tinst'[u] = i
    BY <1>1, <2>1 DEF OneInv, Known, Inst, NoInst
  <2> QED
    BY <1>1, <2>1, <2>2, <2>3, <2>4 DEF OneInv
<1> QED
  BY <1>2, <1>3, <1>4

(* The destructor frees the only known instance, whose worker has ended,   *)
(* and only then is the container unlocked.                                *)
LEMMA DestroyOneInv ==
  ASSUME RefInv, LifeInv, OneInv, NEW t \in Threads, DestroyStep(t)
  PROVE  OneInv'
<1> DEFINE i == tinst[t]
<1>1. /\ tpc \in [Threads -> ThreadPcs]
      /\ tinst \in [Threads -> Inst \cup {NoInst}]
      /\ wpc \in [Inst -> WorkerPcs]
      /\ i \in Inst /\ tpc[t] \in Destroying /\ contlock = t
      /\ linked' = linked
  BY DEF RefInv, TypeOK, Shape, DestroyStep, DestroyStop, DestroyJoin,
     OneInv, Destroying
<1>2. CASE DestroyStop(t)
  <2>1. /\ UNCHANGED <<linked, tinst, contlock>>
        /\ tpc' = [tpc EXCEPT ![t] = "join"]
        /\ wpc' = [wpc EXCEPT ![i] = IF @ = "wait" THEN "woken" ELSE @]
    BY <1>2 DEF DestroyStop, Goto, SignalWorker
  <2> QED
    BY <1>1, <2>1, OneFrame
<1>3. CASE DestroyJoin(t)
  <2>1. wpc' = wpc /\ wpc[i] \in {"done", "never"}
    BY <1>3 DEF DestroyJoin, workerVars
  <2>2. CASE tpc' = [tpc EXCEPT ![t] = "crash"] /\ UNCHANGED <<contlock, tinst>>
    BY <1>1, <2>1, <2>2, OneFrame
  <2>3. CASE /\ tpc' = [tpc EXCEPT ![t] = "idle"]
             /\ tinst' = [tinst EXCEPT ![t] = NoInst]
             /\ contlock' = NoThread
    <3>1. i \notin linked /\ \A u \in Threads : u # t => tinst[u] # i
      BY <1>1, DestroyerAlone
    <3>2. \A j \in Inst : Known(j) => j = i
      BY <1>1 DEF OneInv, Known
    <3>3. \A j \in Inst : ~Known(j)'
      BY <1>1, <2>3, <3>1, <3>2 DEF Known, Inst, NoInst
    <3>4. \A j \in Inst : wpc'[j] \in {"never", "done"}
      BY <2>1, <3>2 DEF OneInv
    <3>5. \A u \in Threads : tinst'[u] \notin Inst
      BY <3>3 DEF Known
    <3>6. \A u \in Threads : tpc'[u] \notin Destroying
      BY <1>1, <2>3 DEF OneInv, Destroying
    <3> QED
      BY <3>3, <3>4, <3>5, <3>6 DEF OneInv
  <2> QED
    BY <1>1, <1>3, <2>2, <2>3 DEF DestroyJoin, Goto
<1> QED
  BY <1>2, <1>3 DEF DestroyStep

LEMMA OneInvNext ==
  ASSUME CliThreads = {}, ~MayFail, RefInv, LifeInv, OneInv, [Next]_vars
  PROVE  OneInv'
<1>1. CASE UNCHANGED vars
  BY <1>1, OneFrame DEF vars, workerVars
<1>2. ASSUME NEW t \in Threads, Push(t) PROVE OneInv'
  <2>1. /\ UNCHANGED <<linked, tinst, contlock, tpc>>
        /\ \A i \in Inst : wpc'[i] \notin {"never", "done"} =>
                               wpc[i] \notin {"never", "done"}
    BY <1>2 DEF Push, Enqueue, SignalWorker, RefInv, TypeOK
  <2> QED
    BY <2>1, OneFrame
<1>3. ASSUME NEW t \in Threads, UserStep(t) PROVE OneInv'
  BY <1>2, <1>3, GetOneInv, UnrefOneInv DEF UserStep, GetThreadFails,
     GetAllocFails, GetLinkFails
<1>4. ASSUME NEW t \in Threads PROVE ~CliStep(t)
  BY DEF CliStep, CliRef, CliReport, CliPing, CliPingFails, CliPinged,
     CliDrop, RefInv, Shape
<1> QED
  BY <1>1, <1>3, <1>4, DestroyOneInv, WorkerOneInv DEF Next

(* As long as nothing fails and the CLI is not used, at most one instance  *)
(* of a name has a worker: a processor is destroyed, and its worker has    *)
(* ended, before _get can create the next one of its name.                 *)
THEOREM OneWorkerAtATime ==
  ASSUME CliThreads = {}, ~MayFail
  PROVE  Spec => []OneWorker
<1>1. OneInv => OneWorker
  BY DEF OneInv, OneWorker
<1>2. RefInv /\ RefInv' /\ LifeInv /\ [Next]_vars => LifeInv'
  BY LifeInvNext
<1>3. RefInv /\ LifeInv /\ OneInv /\ [Next]_vars => OneInv'
  BY OneInvNext
<1> QED
  BY <1>1, <1>2, <1>3, RefInvInit, RefInvNext, LifeInvInit, OneInvInit, PTL
     DEF Spec

-----------------------------------------------------------------------------
(* The order of the tasks *)

(* What was executed (done), what is in the worker's hand (id h, or 0) and *)
(* what waits (q): each in the order of the pushes, none later than the    *)
(* next, and none later than the last one pushed (n).                      *)
Ordered(done, h, q, n) ==
  /\ \A k, m \in 1 .. Len(done) : k < m => done[k] < done[m]
  /\ \A k, m \in 1 .. Len(q) : k < m => q[k].id < q[m].id
  /\ \A k \in 1 .. Len(done) : \A m \in 1 .. Len(q) : done[k] < q[m].id
  /\ \A m \in 1 .. Len(q) : h < q[m].id
  /\ h # 0 => \A k \in 1 .. Len(done) : done[k] < h
  /\ \A k \in 1 .. Len(done) : done[k] <= n
  /\ \A m \in 1 .. Len(q) : q[m].id <= n
  /\ h <= n

LEMMA PushedLast ==
  ASSUME NEW done \in Seq(Nat), NEW h \in Nat, NEW n \in Nat,
         NEW q, NEW S, q \in Seq(S), \A x \in S : x.id \in Nat,
         Ordered(done, h, q, n), NEW x \in S, x.id = n + 1
  PROVE  Ordered(done, h, Append(q, x), n + 1)
<1> DEFINE r == Append(q, x)
<1>1. /\ Len(r) = Len(q) + 1 /\ Len(q) \in Nat
      /\ r[Len(q) + 1] = x
      /\ \A m \in 1 .. Len(q) : r[m] = q[m] /\ q[m] \in S
  OBVIOUS
<1> HIDE DEF r
<1>2. ASSUME NEW m \in 1 .. Len(r)
      PROVE  \/ m \in 1 .. Len(q) /\ r[m].id = q[m].id
             \/ m = Len(q) + 1 /\ r[m].id = n + 1
  <2>1. m \in 1 .. Len(q) \/ m = Len(q) + 1
    BY <1>1
  <2>2. m \in 1 .. Len(q) => r[m] = q[m]
    BY <1>1
  <2>3. m = Len(q) + 1 => r[m].id = n + 1
    BY <1>1
  <2> QED
    BY <2>1, <2>2, <2>3
<1>3. /\ \A m \in 1 .. Len(q) : q[m].id \in Nat /\ q[m].id <= n
      /\ \A k \in 1 .. Len(done) : done[k] \in Nat /\ done[k] <= n
  BY <1>1 DEF Ordered
<1>4. ASSUME NEW k \in 1 .. Len(r), NEW m \in 1 .. Len(r), k < m
      PROVE  r[k].id < r[m].id
  <2>1. k \in 1 .. Len(q) /\ r[k].id = q[k].id
    <3>1. k # Len(q) + 1
      BY <1>1, <1>4
    <3> QED
      BY <1>2, <3>1
  <2>2. CASE m \in 1 .. Len(q) /\ r[m].id = q[m].id
    <3>1. q[k].id < q[m].id
      BY <1>4, <2>1, <2>2 DEF Ordered
    <3> QED
      BY <2>1, <2>2, <3>1
  <2>3. CASE r[m].id = n + 1
    BY <1>3, <2>1, <2>3
  <2> QED
    BY <1>2, <2>2, <2>3
<1>5. ASSUME NEW k \in 1 .. Len(done), NEW m \in 1 .. Len(r)
      PROVE  done[k] < r[m].id
  <2>1. CASE m \in 1 .. Len(q) /\ r[m].id = q[m].id
    BY <2>1 DEF Ordered
  <2>2. CASE r[m].id = n + 1
    BY <1>3, <2>2
  <2> QED
    BY <1>2, <2>1, <2>2
<1>6. ASSUME NEW m \in 1 .. Len(r)
      PROVE  h < r[m].id /\ r[m].id <= n + 1
  <2>1. CASE m \in 1 .. Len(q) /\ r[m].id = q[m].id
    <3>1. h < q[m].id /\ q[m].id <= n
      BY <2>1 DEF Ordered
    <3>2. q[m].id \in Nat
      BY <2>1
    <3> QED
      BY <2>1, <3>1, <3>2
  <2>2. CASE r[m].id = n + 1
    <3>1. h <= n
      BY DEF Ordered
    <3> QED
      BY <2>2, <3>1
  <2> QED
    BY <1>2, <2>1, <2>2
<1>7. \A k \in 1 .. Len(done) : done[k] <= n + 1
  BY <1>3
<1>8. Ordered(done, h, r, n + 1)
  BY <1>4, <1>5, <1>6, <1>7 DEF Ordered
<1> QED
  BY <1>8 DEF r

LEMMA TailShift ==
  ASSUME NEW S, NEW q \in Seq(S), q # <<>>
  PROVE  /\ Len(q) \in Nat /\ Len(q) >= 1 /\ Head(q) = q[1]
         /\ \A m \in 1 .. Len(Tail(q)) : /\ Tail(q)[m] = q[m + 1]
                                        /\ m + 1 \in 1 .. Len(q)
  OBVIOUS

LEMMA TakenFirst ==
  ASSUME NEW done \in Seq(Nat), NEW h \in Nat, NEW n \in Nat,
         NEW S, NEW q \in Seq(S), q # <<>>, \A x \in S : x.id \in Nat \ {0},
         Ordered(done, h, q, n)
  PROVE  /\ Ordered(done, Head(q).id, Tail(q), n)
         /\ Ordered(done, 0, Tail(q), n)
<1> DEFINE r == Tail(q)
<1>1. /\ 1 \in 1 .. Len(q) /\ Head(q) = q[1]
      /\ \A m \in 1 .. Len(r) : r[m] = q[m + 1] /\ m + 1 \in 1 .. Len(q)
  BY TailShift
<1>2. \A m \in 1 .. Len(q) : q[m].id \in Nat \ {0}
  OBVIOUS
<1> HIDE DEF r
<1>3. ASSUME NEW k \in 1 .. Len(r), NEW m \in 1 .. Len(r), k < m
      PROVE  r[k].id < r[m].id
  <2>1. /\ k + 1 \in 1 .. Len(q) /\ m + 1 \in 1 .. Len(q) /\ k + 1 < m + 1
        /\ r[k] = q[k + 1] /\ r[m] = q[m + 1]
    BY <1>1, <1>3
  <2> QED
    BY <2>1 DEF Ordered
<1>4. \A k \in 1 .. Len(done) : \A m \in 1 .. Len(r) : done[k] < r[m].id
  BY <1>1 DEF Ordered
<1>5. \A m \in 1 .. Len(r) : q[1].id < r[m].id /\ r[m].id <= n /\ 0 < r[m].id
  BY <1>1, <1>2 DEF Ordered
<1>6. /\ \A k \in 1 .. Len(done) : done[k] < q[1].id
      /\ q[1].id <= n
  BY <1>1 DEF Ordered
<1>7. Ordered(done, Head(q).id, r, n) /\ Ordered(done, 0, r, n)
  BY <1>1, <1>3, <1>4, <1>5, <1>6 DEF Ordered
<1> QED
  BY <1>7 DEF r

LEMMA DoneLast ==
  ASSUME NEW done \in Seq(Nat), NEW h \in Nat \ {0}, NEW n \in Nat,
         NEW S, NEW q \in Seq(S), \A x \in S : x.id \in Nat \ {0},
         Ordered(done, h, q, n)
  PROVE  Ordered(Append(done, h), 0, q, n)
<1> DEFINE e == Append(done, h)
<1>1. /\ Len(e) = Len(done) + 1 /\ Len(done) \in Nat
      /\ e[Len(done) + 1] = h
      /\ \A k \in 1 .. Len(done) : e[k] = done[k] /\ done[k] \in Nat
  OBVIOUS
<1>2. \A m \in 1 .. Len(q) : q[m].id \in Nat \ {0}
  OBVIOUS
<1> HIDE DEF e
<1>3. ASSUME NEW k \in 1 .. Len(e)
      PROVE  \/ k \in 1 .. Len(done) /\ e[k] = done[k]
             \/ k = Len(done) + 1 /\ e[k] = h
  <2>1. k \in 1 .. Len(done) \/ k = Len(done) + 1
    BY <1>1
  <2> QED
    BY <1>1, <2>1
<1>4. ASSUME NEW k \in 1 .. Len(e), NEW m \in 1 .. Len(e), k < m
      PROVE  e[k] < e[m]
  <2>1. k \in 1 .. Len(done) /\ e[k] = done[k]
    BY <1>1, <1>4
  <2>2. CASE m \in 1 .. Len(done)
    BY <1>1, <1>4, <2>1, <2>2 DEF Ordered
  <2>3. CASE m = Len(done) + 1
    BY <1>1, <2>1, <2>3 DEF Ordered
  <2> QED
    BY <1>1, <2>2, <2>3
<1>5. \A k \in 1 .. Len(e) : \A m \in 1 .. Len(q) : e[k] < q[m].id
  BY <1>3 DEF Ordered
<1>6. \A k \in 1 .. Len(e) : e[k] <= n
  BY <1>3 DEF Ordered
<1>7. Ordered(e, 0, q, n)
  BY <1>2, <1>4, <1>5, <1>6 DEF Ordered
<1> QED
  BY <1>7 DEF e

LEMMA LaterPush ==
  ASSUME NEW done \in Seq(Nat), NEW h \in Nat, NEW n \in Nat,
         NEW S, NEW q \in Seq(S), \A x \in S : x.id \in Nat,
         Ordered(done, h, q, n)
  PROVE  Ordered(done, h, q, n + 1) /\ Ordered(done, 0, q, n)
<1>1. /\ \A m \in 1 .. Len(q) : q[m].id \in Nat
      /\ \A k \in 1 .. Len(done) : done[k] \in Nat
  OBVIOUS
<1> QED
  BY <1>1 DEF Ordered

Hand(i) == IF wpc[i] = "exec" THEN wtask[i].id ELSE 0

OrderInv == \A i \in Inst : Ordered(executed[i], Hand(i), queue[i], npush)

LEMMA OrderInvInit == Init => OrderInv
  BY DEF Init, OrderInv, Ordered, Hand

LEMMA OrderFrame ==
  ASSUME OrderInv, UNCHANGED <<executed, queue, npush, wtask>>,
         \A i \in Inst : wpc'[i] = "exec" <=> wpc[i] = "exec"
  PROVE  OrderInv'
<1>1. \A i \in Inst : Hand(i)' = Hand(i)
  BY DEF Hand
<1> QED
  BY <1>1 DEF OrderInv

LEMMA OrderTypes ==
  ASSUME RefInv, NEW i \in Inst
  PROVE  /\ executed[i] \in Seq(Nat) /\ queue[i] \in Seq(Task)
         /\ Hand(i) \in Nat /\ npush \in Nat
         /\ wpc[i] = "exec" => Hand(i) \in Nat \ {0} /\ wtask[i] \in Task
         /\ \A x \in Task : x.id \in Nat \ {0}
<1>1. \A x \in Task : x.id \in Nat \ {0}
  BY TPConstants DEF Task
<1>2. executed[i] \in Seq(1 .. MaxTask) /\ queue[i] \in Seq(Task)
  BY DEF RefInv, TypeOK
<1>3. executed[i] \in Seq(Nat)
  BY <1>2, TPConstants
<1>4. wpc[i] = "exec" => wtask[i] \in Task
  BY DEF RefInv, Shape
<1> QED
  BY <1>1, <1>2, <1>3, <1>4, TPConstants DEF RefInv, TypeOK, Hand

(* A new task is later than all others. *)
LEMMA EnqueueOrder ==
  ASSUME RefInv, OrderInv, NEW i \in Inst, NEW kind \in Kinds,
         Enqueue(i, kind), UNCHANGED <<executed, wtask>>
  PROVE  OrderInv'
<1> DEFINE new == [id |-> npush + 1, kind |-> kind]
<1>1. /\ npush' = npush + 1 /\ npush + 1 \in 1 .. MaxTask
      /\ queue' = [queue EXCEPT ![i] = Append(@, new)]
      /\ queue \in [Inst -> Seq(Task)]
  BY TPConstants DEF RefInv, TypeOK, Enqueue
<1>2. \A j \in Inst : Hand(j)' = Hand(j)
  BY DEF Enqueue, SignalWorker, Hand, RefInv, TypeOK
<1>3. ASSUME NEW j \in Inst
      PROVE  Ordered(executed[j], Hand(j), queue'[j], npush + 1)
  <2>1. CASE j = i
    <3>1. queue'[j] = Append(queue[j], new)
      BY <1>1, <2>1
    <3>2. new \in Task /\ new.id = npush + 1
      BY <1>1 DEF Task
    <3> QED
      BY <3>1, <3>2, OrderTypes, PushedLast DEF OrderInv
  <2>2. CASE j # i
    <3>1. queue'[j] = queue[j]
      BY <1>1, <2>2
    <3> QED
      BY <3>1, OrderTypes, LaterPush DEF OrderInv
  <2> QED
    BY <2>1, <2>2
<1> QED
  BY <1>1, <1>2, <1>3 DEF OrderInv

(* The worker takes tasks from the front, executes what it has in hand,    *)
(* and purges in the same order.                                           *)
LEMMA WorkerOrder ==
  ASSUME RefInv, OrderInv, NEW i \in Inst, WorkerStep(i)
  PROVE  OrderInv'
<1>1. /\ wpc \in [Inst -> WorkerPcs] /\ queue \in [Inst -> Seq(Task)]
      /\ wtask \in [Inst -> Task \cup {NoTask}]
      /\ executed \in [Inst -> Seq(1 .. MaxTask)]
  BY DEF RefInv, TypeOK
<1>2. CASE WorkerTop(i) \/ WorkerCheck(i) \/ WorkerSpurious(i) \/ WorkerWoken(i)
  BY <1>1, <1>2, OrderFrame DEF WorkerTop, WorkerCheck, WorkerSpurious,
     WorkerWoken, WorkerGoto, WorkerUnchanged
<1>3. CASE (WorkerPop(i) \/ WorkerDrain(i)) /\ queue[i] = <<>>
  BY <1>1, <1>3, OrderFrame DEF WorkerPop, WorkerDrain, WorkerGoto,
     WorkerUnchanged
<1>4. CASE WorkerPop(i) /\ queue[i] # <<>>
  <2>1. /\ UNCHANGED <<npush, executed>>
        /\ queue'[i] = Tail(queue[i]) /\ Hand(i)' = Head(queue[i]).id
        /\ \A j \in Inst \ {i} : queue'[j] = queue[j] /\ Hand(j)' = Hand(j)
    BY <1>1, <1>4 DEF WorkerPop, WorkerGoto, WorkerUnchanged, Hand
  <2> QED
    BY <1>4, <2>1, OrderTypes, TakenFirst DEF OrderInv
<1>5. CASE WorkerDrain(i) /\ queue[i] # <<>>
  <2>1. /\ UNCHANGED <<npush, executed>>
        /\ queue'[i] = Tail(queue[i]) /\ Hand(i)' = 0
        /\ \A j \in Inst \ {i} : queue'[j] = queue[j] /\ Hand(j)' = Hand(j)
    BY <1>1, <1>5 DEF WorkerDrain, WorkerUnchanged, Hand
  <2> QED
    BY <1>5, <2>1, OrderTypes, TakenFirst DEF OrderInv
<1>6. CASE WorkerExec(i)
  <2>1. /\ UNCHANGED <<npush, queue>> /\ wpc[i] = "exec"
        /\ executed'[i] = Append(executed[i], Hand(i)) /\ Hand(i)' = 0
        /\ \A j \in Inst \ {i} : executed'[j] = executed[j]
                                  /\ Hand(j)' = Hand(j)
    BY <1>1, <1>6 DEF WorkerExec, WorkerGoto, WorkerUnchanged, Hand
  <2>2. /\ executed[i] \in Seq(Nat) /\ queue[i] \in Seq(Task)
        /\ Hand(i) \in Nat \ {0} /\ npush \in Nat
        /\ \A x \in Task : x.id \in Nat \ {0}
        /\ Ordered(executed[i], Hand(i), queue[i], npush)
    BY <2>1, OrderTypes DEF OrderInv
  <2>3. Ordered(Append(executed[i], Hand(i)), 0, queue[i], npush)
    BY <2>2, DoneLast
  <2> QED
    BY <2>1, <2>3 DEF OrderInv
<1>7. CASE WorkerStats(i)
  <2>1. /\ UNCHANGED <<npush, executed, queue>>
        /\ \A j \in Inst : Hand(j)' = Hand(j)
    BY <1>1, <1>7 DEF WorkerStats, WorkerGoto, WorkerUnchanged, Hand
  <2> QED
    BY <2>1 DEF OrderInv
<1> QED
  BY <1>2, <1>3, <1>4, <1>5, <1>6, <1>7 DEF WorkerStep

(* An instance that is created has nothing in hand. *)
LEMMA CreateOrder ==
  ASSUME RefInv, OrderInv, NEW t \in Threads, NEW refs,
         NEW wstart \in {"top", "never"}, NEW link, NEW pc,
         Create(t, refs, wstart, link, pc)
  PROVE  OrderInv'
<1>1. /\ UNCHANGED <<executed, queue, npush, wtask>>
      /\ nalloc + 1 \in Inst
      /\ wpc' = [wpc EXCEPT ![nalloc + 1] = wstart]
      /\ wpc \in [Inst -> WorkerPcs]
  BY TPConstants DEF Create, Inst, RefInv, TypeOK
<1>2. \A j \in Inst : Hand(j)' = IF j = nalloc + 1 THEN 0 ELSE Hand(j)
  BY <1>1 DEF Hand
<1> QED
  BY <1>1, <1>2, OrderTypes, LaterPush DEF OrderInv

LEMMA OrderInvNext == RefInv /\ OrderInv /\ [Next]_vars => OrderInv'
<1> SUFFICES ASSUME RefInv, OrderInv, [Next]_vars PROVE OrderInv'
  OBVIOUS
<1>1. CASE UNCHANGED vars
  BY <1>1, OrderFrame DEF vars, workerVars
<1>2. ASSUME NEW t \in Threads, UserStep(t) \/ CliStep(t) PROVE OrderInv'
  <2>1. CASE Push(t) \/ CliPing(t)
    <3>1. tinst[t] \in Inst
      BY <2>1 DEF RefInv, TypeOK, Shape, Push, CliPing
    <3> QED
      BY <2>1, <3>1, EnqueueOrder DEF Push, CliPing, Kinds
  <2>2. CASE GetCreate(t) \/ GetThreadFails(t) \/ GetAllocFails(t)
               \/ GetLinkFails(t)
    BY <2>2, CreateOrder DEF GetCreate, GetThreadFails, GetAllocFails,
       GetLinkFails
  <2>3. CASE GetExisting(t) \/ CliRef(t)
    BY <2>3, OrderFrame DEF GetExisting, CliRef, TakeRef, workerVars
  <2>4. CASE UnrefUnlink(t) \/ UnrefDrop(t) \/ UnrefRelink(t)
    BY <2>4, OrderFrame DEF UnrefUnlink, UnrefDrop, UnrefRelink, workerVars
  <2>5. CASE CliReport(t) \/ CliPingFails(t) \/ CliPinged(t) \/ CliDrop(t)
    BY <2>5, OrderFrame DEF CliReport, CliPingFails, CliPinged, CliDrop,
       workerVars
  <2> QED
    BY <1>2, <2>1, <2>2, <2>3, <2>4, <2>5 DEF UserStep, CliStep
<1>3. ASSUME NEW t \in Threads, DestroyStep(t) PROVE OrderInv'
  <2>1. /\ UNCHANGED <<executed, queue, npush, wtask>>
        /\ \A i \in Inst : wpc'[i] = "exec" <=> wpc[i] = "exec"
    BY <1>3 DEF DestroyStep, DestroyStop, DestroyJoin, SignalWorker,
       workerVars, RefInv, TypeOK
  <2> QED
    BY <2>1, OrderFrame
<1> QED
  BY <1>1, <1>2, <1>3, WorkerOrder DEF Next

LEMMA OrderedIds ==
  ASSUME NEW done \in Seq(Nat), NEW h \in Nat, NEW n \in Nat,
         NEW S, NEW q \in Seq(S), \A x \in S : x.id \in Nat,
         Ordered(done, h, q, n), NEW hand,
         hand = IF h = 0 THEN <<>> ELSE <<h>>,
         NEW ids,
         ids = done \o hand \o [k \in 1 .. Len(q) |-> q[k].id]
  PROVE  \A k, m \in 1 .. Len(ids) : k < m => ids[k] < ids[m]
<1> DEFINE w == [k \in 1 .. Len(q) |-> q[k].id]
           v == done \o hand
           b == Len(v)
<1>1. /\ w \in Seq(Nat) /\ Len(w) = Len(q) /\ Len(q) \in Nat
      /\ \A k \in 1 .. Len(q) : w[k] = q[k].id /\ q[k].id \in Nat
  OBVIOUS
<1>2. /\ hand \in Seq(Nat) /\ Len(hand) \in {0, 1}
      /\ Len(hand) = 1 <=> h # 0
      /\ Len(hand) = 1 => hand[1] = h
  BY SMT
<1>3. ids = v \o w
  OBVIOUS
<1> HIDE DEF w
<1>4. /\ v \in Seq(Nat) /\ b = Len(done) + Len(hand)
      /\ \A k \in 1 .. b : v[k] = IF k <= Len(done) THEN done[k]
                                  ELSE hand[k - Len(done)]
  BY <1>2, ConcatProperties
<1> HIDE DEF v
<1>5. /\ Len(ids) = b + Len(w)
      /\ \A k \in 1 .. b + Len(w) :
           ids[k] = IF k <= b THEN v[k] ELSE w[k - b]
  <2>1. v \in Seq(Nat) /\ w \in Seq(Nat)
    BY <1>1, <1>4
  <2>2. /\ Len(v \o w) = Len(v) + Len(w)
        /\ \A k \in 1 .. Len(v) + Len(w) :
             (v \o w)[k] = IF k <= Len(v) THEN v[k] ELSE w[k - Len(v)]
    BY <2>1, ConcatProperties
  <2> QED
    BY <1>3, <2>2
<1>6. /\ Len(done) \in Nat /\ b \in Nat
      /\ \A k \in 1 .. Len(done) : done[k] \in Nat
  BY <1>4
<1> HIDE DEF b
<1>7. ASSUME NEW k \in 1 .. Len(ids)
      PROVE  \/ k \in 1 .. Len(done) /\ ids[k] = done[k]
             \/ k = Len(done) + 1 /\ k = b /\ h # 0 /\ ids[k] = h
             \/ k > b /\ k - b \in 1 .. Len(q) /\ ids[k] = q[k - b].id
  <2>1. k \in 1 .. b + Len(q) /\ k \in 1 .. b + Len(w)
    BY <1>1, <1>5, <1>7
  <2>2. CASE k <= Len(done)
    <3>1. k \in 1 .. Len(done) /\ k \in 1 .. b
      BY <1>2, <1>4, <1>6, <2>1, <2>2
    <3> QED
      BY <1>4, <1>5, <2>1, <2>2, <3>1
  <2>3. CASE k > Len(done) /\ k <= b
    <3>1. /\ Len(hand) = 1 /\ k = Len(done) + 1 /\ k = b
          /\ k - Len(done) = 1 /\ k \in 1 .. b /\ ~ (k <= Len(done))
      BY <1>2, <1>4, <1>6, <2>1, <2>3
    <3>2. ids[k] = hand[1]
      BY <1>4, <1>5, <2>1, <2>3, <3>1
    <3> QED
      BY <1>2, <3>1, <3>2
  <2>4. CASE k > b
    <3>1. k - b \in 1 .. Len(q) /\ ~ (k <= b)
      BY <1>1, <1>6, <2>1, <2>4
    <3> QED
      BY <1>1, <1>5, <2>1, <2>4, <3>1
  <2> QED
    BY <1>6, <2>1, <2>2, <2>3, <2>4
<1> SUFFICES ASSUME NEW k \in 1 .. Len(ids), NEW m \in 1 .. Len(ids), k < m
             PROVE  ids[k] < ids[m]
  OBVIOUS
<1>8. /\ b >= Len(done) /\ k \in Int /\ m \in Int
      /\ \/ m \in 1 .. Len(done) /\ ids[m] = done[m]
         \/ m = Len(done) + 1 /\ m = b /\ h # 0 /\ ids[m] = h
         \/ m > b /\ m - b \in 1 .. Len(q) /\ ids[m] = q[m - b].id
  <2>1. b >= Len(done) /\ k \in Int /\ m \in Int
    BY <1>2, <1>4, <1>6
  <2> QED
    BY <1>7, <2>1
<1>9. CASE k \in 1 .. Len(done) /\ ids[k] = done[k]
  BY <1>6, <1>8, <1>9 DEF Ordered
<1>10. CASE k = Len(done) + 1 /\ k = b /\ h # 0 /\ ids[k] = h
  <2>1. m > b /\ m - b \in 1 .. Len(q) /\ ids[m] = q[m - b].id
    BY <1>6, <1>8, <1>10
  <2> QED
    BY <1>10, <2>1 DEF Ordered
<1>11. CASE k > b /\ k - b \in 1 .. Len(q) /\ ids[k] = q[k - b].id
  <2>1. m - b \in 1 .. Len(q) /\ ids[m] = q[m - b].id
    <3>1. m > b /\ m > Len(done)
      BY <1>6, <1>8, <1>11
    <3> QED
      BY <1>6, <1>8, <3>1
  <2>2. k - b < m - b
    BY <1>6, <1>8, <1>11
  <2>3. q[k - b].id < q[m - b].id
    BY <1>11, <2>1, <2>2 DEF Ordered
  <2> QED
    BY <1>11, <2>1, <2>3
<1> QED
  BY <1>7, <1>9, <1>10, <1>11

(* Tasks are executed in the order in which they were pushed, by whatever  *)
(* threads, also when allocations fail and processors are destroyed.       *)
THEOREM TasksExecutedInOrder == Spec => []ExecutedInOrder
<1>1. RefInv /\ OrderInv => ExecutedInOrder
  <2> SUFFICES ASSUME RefInv, OrderInv, NEW i \in Inst
               PROVE  LET hand == IF wpc[i] = "exec" THEN <<wtask[i].id>>
                                  ELSE <<>>
                          ids  == executed[i] \o hand
                            \o [k \in 1 .. Len(queue[i]) |-> queue[i][k].id]
                      IN  \A m, n \in 1 .. Len(ids) :
                            m < n => ids[m] < ids[n]
    BY DEF ExecutedInOrder
  <2> DEFINE hand == IF wpc[i] = "exec" THEN <<wtask[i].id>> ELSE <<>>
             ids  == executed[i] \o hand
                       \o [k \in 1 .. Len(queue[i]) |-> queue[i][k].id]
  <2>1. hand = IF Hand(i) = 0 THEN <<>> ELSE <<Hand(i)>>
    BY OrderTypes DEF Hand
  <2>2. Ordered(executed[i], Hand(i), queue[i], npush)
    BY DEF OrderInv
  <2> QED
    BY <2>1, <2>2, OrderTypes, OrderedIds
<1> QED
  BY <1>1, RefInvInit, RefInvNext, OrderInvInit, OrderInvNext, PTL DEF Spec

=============================================================================
