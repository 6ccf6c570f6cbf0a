---------------------------- MODULE SchedProofs ----------------------------
(***************************************************************************)
(* Proofs about Sched, for any owners, macros, times and numbers of        *)
(* attempts, with and without failing allocations; and, from "Call detail  *)
(* records" on, about CdrBatch, whose thread runs a scheduler of its own.  *)
(*                                                                         *)
(* The argument: the heap holds no event that the hash table does not; the *)
(* event whose callback runs is in neither; and ids are not used twice.    *)
(***************************************************************************)
EXTENDS Sched, CdrBatch, FiniteSetTheorems, TLAPS

EventType ==
  /\ heap \in SUBSET Ids
  /\ table \in SUBSET Ids
  /\ deleted \in SUBSET Ids
  /\ cur \in Ids \cup {NoId}
  /\ eventcnt \in Nat \ {0}
  /\ owner \in [Ids -> Owners \cup {NoOwner}]
  /\ oid \in [Owners -> Ids \cup {NoId}]

(* Where an event that exists can be *)
EventPlace ==
  /\ heap \subseteq table
  /\ \A id \in table \cup deleted : id < eventcnt
  /\ cur # NoId => cur < eventcnt /\ cur \notin table
  /\ tpc = "callback" <=> cur # NoId

EventInv ==
  /\ EventType
  /\ EventPlace
  /\ deleted \cap table = {}
  /\ cur \notin deleted

LEMMA EventInit == Init => EventInv
  BY DEF Init, EventInv, EventType, EventPlace, Ids, NoId

(* tris_sched_add_variable uses an id that nobody has used before. *)
LEMMA AddEventKeeps ==
  ASSUME EventInv, NEW o \in Owners, NEW when \in Delays, AddEvent(o, when)
  PROVE  /\ eventcnt \in Ids
         /\ eventcnt' = eventcnt + 1
         /\ table' = table \cup {eventcnt}
         /\ heap' \subseteq heap \cup {eventcnt}
         /\ eventcnt \notin table \cup deleted \cup {cur}
         /\ owner' \in [Ids -> Owners \cup {NoOwner}]
         /\ owner'[eventcnt] = o
         /\ \A id \in Ids \ {eventcnt} : owner'[id] = owner[id]
  <1>1. eventcnt \in Ids
    BY SchedConstants DEF AddEvent, EventInv, EventType, Ids
  <1>2. eventcnt \notin table \cup deleted \cup {cur}
    BY <1>1 DEF EventInv, EventType, EventPlace, Ids, NoId
  <1>3. /\ table' = table \cup {eventcnt}
        /\ heap' \subseteq heap \cup {eventcnt}
        /\ eventcnt' = eventcnt + 1
    BY DEF AddEvent, schedule
  <1>4. /\ owner' \in [Ids -> Owners \cup {NoOwner}]
        /\ owner'[eventcnt] = o
        /\ \A id \in Ids \ {eventcnt} : owner'[id] = owner[id]
    BY <1>1 DEF AddEvent, EventInv, EventType
  <1> QED BY <1>1, <1>2, <1>3, <1>4

(* An event that is added while the thread is anywhere but in a callback,  *)
(* or in one that goes on *)
LEMMA AddKeeps ==
  ASSUME EventInv, NEW o \in Owners, NEW when \in Delays, AddEvent(o, when),
         oid' = [oid EXCEPT ![o] = eventcnt],
         UNCHANGED deleted, cur' \in {cur, NoId},
         tpc' = "callback" <=> cur' # NoId
  PROVE  EventInv'
  <1>1. /\ eventcnt \in Ids
        /\ eventcnt' = eventcnt + 1
        /\ table' = table \cup {eventcnt}
        /\ heap' \subseteq heap \cup {eventcnt}
        /\ eventcnt \notin table \cup deleted \cup {cur}
        /\ owner' \in [Ids -> Owners \cup {NoOwner}]
    BY AddEventKeeps
  <1>2. EventType'
    BY <1>1 DEF EventInv, EventType, Ids
  <1>3. EventPlace'
    BY <1>1 DEF EventInv, EventType, EventPlace, Ids, NoId
  <1>4. deleted' \cap table' = {} /\ cur' \notin deleted'
    BY <1>1 DEF EventInv, EventType, Ids, NoId
  <1> QED BY <1>2, <1>3, <1>4 DEF EventInv

LEMMA OwnerKeeps ==
  ASSUME EventInv, NEW o \in Owners, OwnerStep(o)
  PROVE  EventInv'
  <1>1. ASSUME NEW when \in Delays, Add(o, when)
        PROVE  EventInv'
    <2>1. tpc' = "callback" <=> cur' # NoId
      BY <1>1 DEF Add, Signal, EventInv, EventPlace, runVars
    <2> QED BY <1>1, <2>1, AddKeeps DEF Add, Id, runVars, histVars
  <1>2. ASSUME NEW when \in Delays, ReplaceAdd(o, when)
        PROVE  EventInv'
    <2>1. tpc' = "callback" <=> cur' # NoId
      BY <1>2 DEF ReplaceAdd, EventInv, EventPlace, runVars
    <2> QED BY <1>2, <2>1, AddKeeps DEF ReplaceAdd, Id, runVars, histVars
  <1>3. CASE DelFound(o)
    <2>1. /\ table' = table \ {oid[o]} /\ oid[o] \in table
          /\ heap' \subseteq heap /\ oid[o] \notin heap'
          /\ deleted' = deleted \cup {oid[o]}
          /\ oid' = [oid EXCEPT ![o] = NoId]
          /\ UNCHANGED <<eventcnt, owner, cur, tpc>>
      BY <1>3 DEF DelFound, RemoveEvent, LoopEnds, Id, runVars
    <2>2. EventType'
      BY <2>1 DEF EventInv, EventType
    <2>3. EventPlace'
      BY <2>1 DEF EventInv, EventType, EventPlace
    <2>4. cur \notin deleted'
      BY <2>1 DEF EventInv, EventType, EventPlace, Ids, NoId
    <2> QED BY <2>1, <2>2, <2>3, <2>4 DEF EventInv
  <1>4. CASE DelGone(o) \/ DelGivesUp(o)
    <2>1. /\ oid' = [oid EXCEPT ![o] = NoId]
          /\ UNCHANGED <<heap, table, deleted, eventcnt, owner, cur, tpc>>
      BY <1>4 DEF DelGone, DelGivesUp, LoopEnds, Id, runVars, histVars
    <2> QED BY <2>1 DEF EventInv, EventType, EventPlace
  <1>5. CASE \/ \E op \in Ops : Begin(o, op)
             \/ DelRetry(o) \/ ReplaceAddFails(o) \/ Poke(o)
    <2>1. /\ UNCHANGED <<heap, table, deleted, eventcnt, owner, cur, oid>>
          /\ tpc' = "callback" <=> tpc = "callback"
      BY <1>5 DEF Begin, DelRetry, ReplaceAddFails, Poke, Signal, conVars,
                  runVars, histVars
    <2> QED BY <2>1 DEF EventInv, EventType, EventPlace
  <1> QED BY <1>1, <1>2, <1>3, <1>4, <1>5 DEF OwnerStep

LEMMA CallbackKeeps ==
  ASSUME EventInv, NEW o \in Owners, CallbackStep(o)
  PROVE  EventInv'
  <1>0. /\ cur' = NoId /\ tpc' = "loop" /\ tpc = "callback"
        /\ UNCHANGED deleted
    BY DEF CallbackStep, CallbackDone, CallbackAgain, CallbackAdds,
           CallbackReturns, histVars
  <1>1. CASE CallbackDone(o)
    <2>1. /\ oid' = [oid EXCEPT ![o] = NoId]
          /\ UNCHANGED <<heap, table, eventcnt, owner>>
      BY <1>1 DEF CallbackDone, Id, conVars
    <2> QED BY <1>0, <2>1 DEF EventInv, EventType, EventPlace, Ids, NoId
  <1>2. ASSUME NEW when \in Delays, CallbackAgain(o, when)
        PROVE  EventInv'
    <2>1. /\ UNCHANGED <<oid, eventcnt, owner>>
          /\ table' = table \cup {cur}
          /\ heap' \subseteq heap \cup {cur}
      BY <1>2 DEF CallbackAgain, schedule
    <2>2. cur \in Ids
      BY <1>0 DEF EventInv, EventType, EventPlace
    <2> QED BY <1>0, <2>1, <2>2 DEF EventInv, EventType, EventPlace, Ids, NoId
  <1>3. ASSUME NEW when \in Delays, CallbackAdds(o, when)
        PROVE  EventInv'
    BY <1>0, <1>3, AddKeeps DEF CallbackAdds, Id
  <1> QED BY <1>1, <1>2, <1>3 DEF CallbackStep

LEMMA ThreadKeeps ==
  ASSUME EventInv, ThreadStep
  PROVE  EventInv'
  <1>1. CASE RunqPop
    <2>1. PICK id \in heap : /\ heap' = heap \ {id}
                             /\ table' = table \ {id}
                             /\ cur' = id
      BY <1>1 DEF RunqPop, Soonest
    <2>2. /\ tpc' = "callback"
          /\ UNCHANGED <<deleted, eventcnt, owner, oid>>
      BY <1>1 DEF RunqPop, ThreadUnchanged, histVars
    <2> QED BY <2>1, <2>2 DEF EventInv, EventType, EventPlace, Ids, NoId
  <1>2. CASE ThreadStep /\ ~RunqPop
    <2>1. /\ UNCHANGED <<heap, table, deleted, eventcnt, owner, oid, cur>>
          /\ tpc # "callback" /\ tpc' # "callback"
      BY <1>2 DEF ThreadStep, ThreadTop, ThreadLock, ThreadSleep,
                  ThreadTimeout, ThreadSpurious, ThreadWoken, RunqStart,
                  RunqEnd, QueueUnchanged, ThreadUnchanged, runVars, histVars
    <2> QED BY <2>1 DEF EventInv, EventType, EventPlace
  <1> QED BY <1>1, <1>2

LEMMA EventStep == EventInv /\ [Next]_vars => EventInv'
  <1> SUFFICES ASSUME EventInv, [Next]_vars PROVE EventInv'
    OBVIOUS
  <1>1. CASE UNCHANGED vars
    BY <1>1 DEF vars, conVars, runVars, ownerVars, histVars, EventInv,
                EventType, EventPlace
  <1>2. CASE DestroyStop
    <2>1. /\ UNCHANGED <<heap, table, deleted, eventcnt, owner, cur, oid>>
          /\ tpc' = "callback" <=> tpc = "callback"
      BY <1>2 DEF DestroyStop, Signal, conVars, runVars, ownerVars, histVars
    <2> QED BY <2>1 DEF EventInv, EventType, EventPlace
  <1>3. CASE DestroyJoin
    <2>1. /\ UNCHANGED <<deleted, eventcnt, owner, cur, oid, tpc>>
          /\ heap' = {} /\ table' = {}
      BY <1>3 DEF DestroyJoin, runVars, ownerVars, histVars
    <2> QED BY <2>1 DEF EventInv, EventType, EventPlace
  <1>4. CASE Tick
    BY <1>4 DEF Tick, conVars, runVars, ownerVars, histVars, EventInv,
                EventType, EventPlace
  <1> QED BY <1>1, <1>2, <1>3, <1>4, OwnerKeeps, CallbackKeeps, ThreadKeeps
          DEF Next

LEMMA EventAlways == Spec => []EventInv
  BY EventInit, EventStep, PTL DEF Spec

(* An event of which tris_sched_del returned 0 never runs again, whatever  *)
(* callbacks, macros and failing allocations do.                           *)
THEOREM DeletedNeverRuns == Spec => []DeletedStaysDeleted
  <1>1. EventInv => DeletedStaysDeleted
    BY DEF EventInv, EventPlace, DeletedStaysDeleted
  <1> QED BY <1>1, EventAlways, PTL

-----------------------------------------------------------------------------
(* Types and times *)

(* tris_sched_runq runs what is due within a millisecond of the time at    *)
(* which it began.                                                         *)
OnTime ==
  /\ tpc \in {"loop", "callback"} => limit <= now + Ms
  /\ tpc = "callback" => due[cur] < limit

TimeInv == TypeOK /\ OnTime

LEMMA TimeInit == Init => TimeInv
  <1> SUFFICES ASSUME Init PROVE TimeInv
    OBVIOUS
  <1>1. /\ 0 \in 0 .. MaxTime /\ 0 \in 0 .. DelTries /\ 0 \in 0 .. MaxAgain
        /\ 1 \in 1 .. MaxId + 1
    BY SchedConstants
  <1>2. /\ now \in 0 .. MaxTime /\ eventcnt \in 1 .. MaxId + 1
        /\ nagain \in 0 .. MaxAgain
        /\ due \in [Ids -> 0 .. MaxTime] /\ tries \in [Owners -> 0 .. DelTries]
    BY <1>1 DEF Init, NoTime
  <1>3. /\ heap \in SUBSET Ids /\ table \in SUBSET Ids
        /\ resched \in [Ids -> Delays \cup {0}]
        /\ owner \in [Ids -> Owners \cup {NoOwner}]
        /\ ms \in Nat \cup {Never} /\ deadline \in Nat \cup {Never}
        /\ limit \in Nat /\ cur \in Ids \cup {NoId} /\ stop \in BOOLEAN
    BY DEF Init, NoTime
  <1>4. /\ opc \in [Owners -> {"idle", "del", "add", "poke"}]
        /\ oid \in [Owners -> Ids \cup {NoId}]
        /\ oop \in [Owners -> {"del", "unref", "replace"}]
        /\ seen \in [Owners -> BOOLEAN]
        /\ refs \in [Owners -> Int]
    BY DEF Init
  <1> QED BY <1>2, <1>3, <1>4 DEF Init, TimeInv, TypeOK, OnTime

(* A time that sched_settime computes lies within the bound. *)
LEMMA SettimeType ==
  ASSUME NEW t \in Nat, NEW when \in Nat, TypeOK,
         sched_settime(t, when) <= MaxTime
  PROVE  sched_settime(t, when) \in 0 .. MaxTime
  <1>1. when * Ms \in Nat
    BY SchedConstants
  <1>2. t + when * Ms \in Nat /\ now \in Nat
    BY <1>1, SchedConstants DEF TypeOK
  <1>3. sched_settime(t, when) \in Nat
    BY <1>2 DEF sched_settime, Later
  <1>4. \A n \in Nat : n <= MaxTime => n \in 0 .. MaxTime
    BY SchedConstants
  <1> QED BY <1>3, <1>4

(* tris_sched_add_variable leaves the times of other events alone. *)
LEMMA AddEventTypes ==
  ASSUME EventInv, TimeInv, NEW o \in Owners, NEW when \in Delays,
         AddEvent(o, when)
  PROVE  /\ eventcnt \in Ids
         /\ eventcnt' \in 1 .. MaxId + 1
         /\ heap' \in SUBSET Ids
         /\ table' \in SUBSET Ids
         /\ due' \in [Ids -> 0 .. MaxTime]
         /\ resched' \in [Ids -> Delays \cup {0}]
         /\ owner' \in [Ids -> Owners \cup {NoOwner}]
         /\ cur # NoId => due'[cur] = due[cur]
  <1>1. eventcnt \in Ids
    BY AddEventKeeps
  <1>2. eventcnt' \in 1 .. MaxId + 1
    BY <1>1, SchedConstants DEF AddEvent, Ids
  <1>3. heap' \in SUBSET Ids /\ table' \in SUBSET Ids
    BY <1>1 DEF AddEvent, schedule, TimeInv, TypeOK
  <1>4. sched_settime(now, when) \in 0 .. MaxTime
    BY SettimeType, SchedConstants DEF AddEvent, TimeInv, TypeOK
  <1>5. /\ due' \in [Ids -> 0 .. MaxTime]
        /\ \A id \in Ids \ {eventcnt} : due'[id] = due[id]
    BY <1>1, <1>4 DEF AddEvent, TimeInv, TypeOK
  <1>6. resched' \in [Ids -> Delays \cup {0}]
    BY <1>1 DEF AddEvent, TimeInv, TypeOK
  <1>7. owner' \in [Ids -> Owners \cup {NoOwner}]
    BY AddEventKeeps
  <1>8. cur # NoId => cur \in Ids \ {eventcnt}
    BY AddEventKeeps DEF TimeInv, TypeOK
  <1> QED BY <1>1, <1>2, <1>3, <1>5, <1>6, <1>7, <1>8

LEMMA OwnerOnTime ==
  ASSUME EventInv, TimeInv, NEW o \in Owners, OwnerStep(o)
  PROVE  TimeInv'
  <1>1. ASSUME NEW when \in Delays, Add(o, when)
        PROVE  TimeInv'
    <2>1. /\ AddEvent(o, when)
          /\ tpc' = IF tpc = "wait" THEN "woken" ELSE tpc
          /\ oid' = [oid EXCEPT ![o] = eventcnt]
          /\ refs' = [refs EXCEPT ![o] = @ + 1]
          /\ UNCHANGED <<now, runVars, stop, dpc, opc, oop, seen, tries,
                         nagain, histVars>>
      BY <1>1 DEF Add, Signal, Id, Ref
    <2>2. /\ oid' \in [Owners -> Ids \cup {NoId}]
          /\ refs' \in [Owners -> Int]
      BY <2>1, AddEventTypes DEF TimeInv, TypeOK
    <2>3. TypeOK'
      BY <2>1, <2>2, AddEventTypes DEF TimeInv, TypeOK, runVars, histVars
    <2>4. OnTime'
      BY <2>1, AddEventTypes
         DEF TimeInv, OnTime, runVars, EventInv, EventPlace
    <2> QED BY <2>3, <2>4 DEF TimeInv
  <1>2. ASSUME NEW when \in Delays, ReplaceAdd(o, when)
        PROVE  TimeInv'
    <2>1. /\ AddEvent(o, when)
          /\ opc' = [opc EXCEPT ![o] = "poke"]
          /\ oid' = [oid EXCEPT ![o] = eventcnt]
          /\ refs' = [refs EXCEPT ![o] = @ + 1]
          /\ UNCHANGED <<now, tpc, runVars, stop, dpc, oop, seen, tries,
                         nagain, histVars>>
      BY <1>2 DEF ReplaceAdd, Id, Ref, OwnerAt
    <2>2. /\ oid' \in [Owners -> Ids \cup {NoId}]
          /\ refs' \in [Owners -> Int]
          /\ opc' \in [Owners -> {"idle", "del", "add", "poke"}]
      BY <2>1, AddEventTypes DEF TimeInv, TypeOK
    <2>3. TypeOK'
      BY <2>1, <2>2, AddEventTypes DEF TimeInv, TypeOK, runVars, histVars
    <2>4. OnTime'
      BY <2>1, AddEventTypes
         DEF TimeInv, OnTime, runVars, EventInv, EventPlace
    <2> QED BY <2>3, <2>4 DEF TimeInv
  <1>3. CASE DelFound(o) \/ DelGone(o) \/ DelGivesUp(o)
    <2>1. /\ heap' \subseteq heap /\ table' \subseteq table
          /\ deleted' \subseteq deleted \cup table
          /\ gaveup' \subseteq gaveup \cup {o}
      BY <1>3 DEF DelFound, DelGone, DelGivesUp, RemoveEvent, histVars
    <2>2. \E unref \in BOOLEAN : LoopEnds(o, unref)
      BY <1>3 DEF DelFound, DelGone, DelGivesUp, TimeInv, TypeOK
    <2>3. PICK unref \in BOOLEAN : LoopEnds(o, unref)
      BY <2>2
    <2>4. /\ refs' \in [Owners -> Int]
          /\ opc' \in [Owners -> {"idle", "del", "add", "poke"}]
          /\ oid' \in [Owners -> Ids \cup {NoId}]
          /\ seen' \in [Owners -> BOOLEAN]
          /\ oop' \in [Owners -> {"del", "unref", "replace"}]
      BY <2>3 DEF LoopEnds, Ref, OwnerAt, Id, TimeInv, TypeOK
    <2>5. tries' \in [Owners -> 0 .. DelTries]
      BY <2>3, SchedConstants DEF LoopEnds, TimeInv, TypeOK
    <2>6. UNCHANGED <<now, eventcnt, due, resched, owner, tpc, runVars, stop,
                      dpc, nagain>>
      BY <2>3 DEF LoopEnds
    <2>7. TypeOK'
      BY <2>1, <2>4, <2>5, <2>6 DEF TimeInv, TypeOK, runVars
    <2> QED BY <2>6, <2>7 DEF TimeInv, OnTime, runVars
  <1>4. CASE DelRetry(o)
    <2>1. tries' \in [Owners -> 0 .. DelTries]
      BY <1>4, SchedConstants DEF DelRetry, TimeInv, TypeOK
    <2> QED BY <1>4, <2>1
            DEF DelRetry, TimeInv, TypeOK, OnTime, conVars, runVars, histVars
  <1>5. ASSUME NEW op \in Ops, Begin(o, op)
        PROVE  TimeInv'
    <2>1. /\ oop' \in [Owners -> {"del", "unref", "replace"}]
          /\ seen' \in [Owners -> BOOLEAN]
          /\ opc' \in [Owners -> {"idle", "del", "add", "poke"}]
      BY <1>5, SchedConstants DEF Begin, OwnerAt, TimeInv, TypeOK
    <2> QED BY <1>5, <2>1
            DEF Begin, TimeInv, TypeOK, OnTime, conVars, runVars, histVars
  <1>6. CASE ReplaceAddFails(o) \/ Poke(o)
    <2>1. /\ opc' \in [Owners -> {"idle", "del", "add", "poke"}]
          /\ tpc' \in {tpc, "woken"}
          /\ UNCHANGED <<now, conVars, runVars, stop, dpc, oid, oop, seen,
                         tries, refs, nagain, histVars>>
      BY <1>6 DEF ReplaceAddFails, Poke, OwnerAt, Signal, TimeInv, TypeOK
    <2> QED BY <2>1
            DEF TimeInv, TypeOK, OnTime, conVars, runVars, histVars
  <1> QED BY <1>1, <1>2, <1>3, <1>4, <1>5, <1>6 DEF OwnerStep

LEMMA CallbackOnTime ==
  ASSUME EventInv, TimeInv, NEW o \in Owners, CallbackStep(o)
  PROVE  TimeInv'
  <1>0. /\ tpc' = "loop" /\ tpc = "callback" /\ cur' = NoId /\ cur \in Ids
        /\ limit <= now + Ms
        /\ UNCHANGED <<now, ms, deadline, limit, head, stop, dpc, opc, oop,
                       seen, tries, histVars>>
    BY DEF CallbackStep, CallbackDone, CallbackAgain, CallbackAdds,
           CallbackReturns, EventInv, EventType, EventPlace, TimeInv, OnTime
  <1>1. CASE CallbackDone(o)
    <2>1. /\ oid' \in [Owners -> Ids \cup {NoId}]
          /\ refs' \in [Owners -> Int]
      BY <1>1 DEF CallbackDone, Id, Ref, TimeInv, TypeOK
    <2>2. UNCHANGED <<conVars, nagain>>
      BY <1>1 DEF CallbackDone
    <2> QED BY <1>0, <2>1, <2>2 DEF TimeInv, TypeOK, OnTime, conVars, histVars
  <1>2. ASSUME NEW when \in Delays, CallbackAgain(o, when)
        PROVE  TimeInv'
    <2>1. /\ nagain' \in 0 .. MaxAgain
          /\ heap' \in SUBSET Ids /\ table' \in SUBSET Ids
          /\ UNCHANGED <<eventcnt, resched, owner, oid, refs>>
      BY <1>0, <1>2, SchedConstants
         DEF CallbackAgain, schedule, TimeInv, TypeOK
    <2>2. sched_settime(due[cur], when) \in 0 .. MaxTime
      BY <1>0, <1>2, SettimeType, SchedConstants
         DEF CallbackAgain, TimeInv, TypeOK
    <2>3. due' \in [Ids -> 0 .. MaxTime]
      BY <1>0, <1>2, <2>2 DEF CallbackAgain, TimeInv, TypeOK
    <2> QED BY <1>0, <2>1, <2>3 DEF TimeInv, TypeOK, OnTime, histVars
  <1>3. ASSUME NEW when \in Delays, CallbackAdds(o, when)
        PROVE  TimeInv'
    <2>1. /\ AddEvent(o, when)
          /\ oid' = [oid EXCEPT ![o] = eventcnt]
          /\ UNCHANGED <<refs, nagain>>
      BY <1>3 DEF CallbackAdds, Id
    <2>2. oid' \in [Owners -> Ids \cup {NoId}]
      BY <2>1, AddEventTypes DEF TimeInv, TypeOK
    <2> QED BY <1>0, <2>1, <2>2, AddEventTypes
            DEF TimeInv, TypeOK, OnTime, histVars
  <1> QED BY <1>1, <1>2, <1>3 DEF CallbackStep

(* The wait that tris_sched_wait computes is a number of milliseconds. *)
LEMMA WaitType ==
  ASSUME TypeOK, NEW id \in heap
  PROVE  WaitMs(id) \in Nat
  <1>1. due[id] - now \in Int
    BY DEF TypeOK
  <1>2. \A n \in Int : n \div Ms \in Int
    BY SchedConstants
  <1>3. \A n \in Int : Later(n, 0) \in Nat
    BY DEF Later
  <1> QED BY <1>1, <1>2, <1>3 DEF WaitMs

LEMMA ThreadOnTime ==
  ASSUME EventInv, TimeInv, ThreadStep
  PROVE  TimeInv'
  <1>0. UNCHANGED <<now, eventcnt, resched, stop, dpc, opc, oop, seen, tries,
                    histVars>>
    BY DEF ThreadStep, ThreadTop, ThreadLock, ThreadSleep, ThreadTimeout,
           ThreadSpurious, ThreadWoken, RunqStart, RunqPop, RunqEnd,
           ThreadUnchanged
  <1>1. CASE ThreadLock
    <2>1. /\ ms' \in Nat \cup {Never} /\ head' \in Ids \cup {NoId}
      BY <1>1, WaitType DEF ThreadLock, Soonest, TimeInv, TypeOK
    <2>2. /\ tpc' \in {"exit", "sleep"}
          /\ UNCHANGED <<heap, table, due, owner, oid, refs, nagain,
                         deadline, limit, cur>>
      BY <1>1 DEF ThreadLock, QueueUnchanged
    <2> QED BY <1>0, <2>1, <2>2 DEF TimeInv, TypeOK, OnTime, histVars
  <1>2. CASE ThreadSleep
    <2>1. \A n \in Nat : now + n * Ms \in Nat
      <3>1. \A n \in Nat : n * Ms \in Nat
        BY SchedConstants
      <3>2. now \in Nat
        BY SchedConstants DEF TimeInv, TypeOK
      <3> QED BY <3>1, <3>2
    <2>2. deadline' \in Nat \cup {Never} /\ ms' = Never /\ tpc' = "wait"
      BY <1>2, <2>1 DEF ThreadSleep, TimeInv, TypeOK
    <2>3. UNCHANGED <<heap, table, due, owner, oid, refs, nagain, limit, cur,
                      head>>
      BY <1>2 DEF ThreadSleep, QueueUnchanged
    <2> QED BY <1>0, <2>2, <2>3 DEF TimeInv, TypeOK, OnTime, histVars
  <1>3. CASE RunqStart
    <2>1. /\ tpc' = "loop" /\ limit' = now + Ms /\ deadline' = Never
          /\ UNCHANGED <<heap, table, due, owner, oid, refs, nagain, ms, cur,
                         head>>
      BY <1>3 DEF RunqStart, QueueUnchanged
    <2>2. now + Ms \in Nat /\ now + Ms <= now + Ms
      BY SchedConstants DEF TimeInv, TypeOK
    <2> QED BY <1>0, <2>1, <2>2 DEF TimeInv, TypeOK, OnTime, histVars
  <1>4. CASE RunqPop
    <2>1. PICK id \in heap : /\ due[id] < limit
                             /\ heap' = heap \ {id}
                             /\ table' = table \ {id}
                             /\ cur' = id
                             /\ head' \in {head, NoId}
      BY <1>4 DEF RunqPop, Soonest
    <2>2. /\ tpc = "loop" /\ tpc' = "callback"
          /\ UNCHANGED <<due, owner, oid, refs, nagain, ms, deadline, limit>>
      BY <1>4 DEF RunqPop
    <2>3. id \in Ids
      BY DEF TimeInv, TypeOK
    <2> QED BY <1>0, <2>1, <2>2, <2>3 DEF TimeInv, TypeOK, OnTime, histVars
  <1>5. CASE RunqEnd
    <2>1. /\ tpc' = "top" /\ limit' = NoTime /\ head' = NoId
          /\ UNCHANGED <<heap, table, due, owner, oid, refs, nagain, ms,
                         deadline, cur>>
      BY <1>5 DEF RunqEnd, QueueUnchanged
    <2> QED BY <1>0, <2>1 DEF TimeInv, TypeOK, OnTime, histVars, NoTime
  <1>6. CASE ThreadTop \/ ThreadTimeout \/ ThreadSpurious \/ ThreadWoken
    <2>1. /\ tpc' \in {"exit", "lock", "timedout", "woken", "runq"}
          /\ head' \in {head, NoId}
          /\ UNCHANGED <<heap, table, due, owner, oid, refs, nagain, ms,
                         deadline, limit, cur>>
      BY <1>6 DEF ThreadTop, ThreadTimeout, ThreadSpurious, ThreadWoken,
                  QueueUnchanged, runVars
    <2> QED BY <1>0, <2>1 DEF TimeInv, TypeOK, OnTime, histVars
  <1> QED BY <1>1, <1>2, <1>3, <1>4, <1>5, <1>6 DEF ThreadStep

LEMMA TimeStep == EventInv /\ TimeInv /\ [Next]_vars => TimeInv'
  <1> SUFFICES ASSUME EventInv, TimeInv, [Next]_vars PROVE TimeInv'
    OBVIOUS
  <1>1. CASE UNCHANGED vars
    BY <1>1 DEF vars, conVars, runVars, ownerVars, histVars, TimeInv, TypeOK,
                OnTime
  <1>2. CASE DestroyStop
    <2>1. tpc' \in {tpc, "woken"} /\ stop' = TRUE /\ dpc' = "join"
      BY <1>2 DEF DestroyStop, Signal
    <2> QED BY <1>2, <2>1 DEF DestroyStop, conVars, runVars, ownerVars,
                              histVars, TimeInv, TypeOK, OnTime
  <1>3. CASE DestroyJoin
    BY <1>3 DEF DestroyJoin, runVars, ownerVars, histVars, TimeInv, TypeOK,
                OnTime
  <1>4. CASE Tick
    <2>1. now' = now + 1 /\ now' \in 0 .. MaxTime
      BY <1>4, SchedConstants DEF Tick, TimeInv, TypeOK
    <2>2. UNCHANGED <<conVars, tpc, runVars, stop, dpc, ownerVars, nagain,
                      histVars>>
      BY <1>4 DEF Tick
    <2>3. TypeOK'
      BY <2>1, <2>2 DEF TimeInv, TypeOK, conVars, runVars, ownerVars, histVars
    <2>4. OnTime'
      <3>1. limit \in Nat /\ now \in Nat /\ Ms \in Nat
        BY SchedConstants DEF TimeInv, TypeOK
      <3> QED BY <2>1, <2>2, <3>1 DEF TimeInv, OnTime, conVars, runVars
    <2> QED BY <2>3, <2>4 DEF TimeInv
  <1> QED BY <1>1, <1>2, <1>3, <1>4, OwnerOnTime, CallbackOnTime, ThreadOnTime
          DEF Next

LEMMA TimeAlways == Spec => []TimeInv
  BY TimeInit, TimeStep, EventAlways, PTL DEF Spec

(* The state keeps its types: times and ids stay within their bounds,      *)
(* waits are numbers of milliseconds, attempts do not exceed their limit.  *)
THEOREM SchedTypesHold == Spec => []TypeOK
  <1>1. TimeInv => TypeOK
    BY DEF TimeInv
  <1> QED BY <1>1, TimeAlways, PTL

(* No callback runs a millisecond or more before its event is due,         *)
(* whatever events are added while tris_sched_runq works.                  *)
THEOREM NeverEarly == Spec => []NotEarly
  <1>1. EventInv /\ TimeInv => NotEarly
    <2> SUFFICES ASSUME EventInv, TimeInv, tpc = "callback"
                 PROVE  due[cur] < now + Ms
      BY DEF NotEarly
    <2>1. cur \in Ids
      BY DEF EventInv, EventType, EventPlace
    <2>2. due[cur] \in Int /\ limit \in Int /\ now \in Int /\ Ms \in Int
      BY <2>1, SchedConstants DEF TimeInv, TypeOK
    <2> QED BY <2>2 DEF TimeInv, OnTime
  <1> QED BY <1>1, EventAlways, TimeAlways, PTL

-----------------------------------------------------------------------------
(* Ids and references *)

(* An owner's variable never names an event of somebody else. *)
OwnIds ==
  \A o \in Owners : oid[o] # NoId => oid[o] < eventcnt /\ owner[oid[o]] = o

(* What IdNamesEvent needs to be inductive: between the deletion and the    *)
(* addition of a macro that replaces an event its owner has none.          *)
OneEvent(o) ==
  /\ Live(o) = {oid[o]} \ {NoId}
  /\ opc[o] = "add" => oid[o] = NoId

IdInv ==
  /\ OwnIds
  /\ dpc # "gone" => \A o \in Owners \ gaveup : OneEvent(o)

LEMMA IdInit == Init => IdInv
  BY DEF Init, IdInv, OwnIds, OneEvent, Live

(* Nothing changes for other owners than the one that takes a step. *)
Elsewhere(o) ==
  \A u \in Owners \ {o} : /\ oid'[u] = oid[u]
                          /\ opc'[u] = opc[u]
                          /\ Live(u)' = Live(u)

LEMMA IdFrame ==
  ASSUME IdInv, NEW o \in Owners, Elsewhere(o), OwnIds', dpc' = dpc,
         gaveup \subseteq gaveup',
         o \notin gaveup' /\ dpc # "gone" => OneEvent(o)'
  PROVE  IdInv'
  BY DEF IdInv, Elsewhere, OneEvent

(* An event is added for an owner, by its thread or by the callback of the *)
(* event it had.                                                           *)
LEMMA AddLive ==
  ASSUME EventInv, OwnIds, NEW o \in Owners, NEW when \in Delays,
         AddEvent(o, when), oid' = [oid EXCEPT ![o] = eventcnt],
         \/ cur' = cur
         \/ cur' = NoId /\ cur \in Ids /\ owner[cur] = o
  PROVE  /\ Live(o)' = (Live(o) \ ({cur} \ {cur'})) \cup {eventcnt}
         /\ \A u \in Owners \ {o} : Live(u)' = Live(u)
         /\ OwnIds'
         /\ oid'[o] = eventcnt /\ eventcnt # NoId
  <1>1. /\ eventcnt \in Ids
        /\ eventcnt' = eventcnt + 1
        /\ table' = table \cup {eventcnt}
        /\ eventcnt \notin table \cup deleted \cup {cur}
        /\ owner'[eventcnt] = o
        /\ \A id \in Ids \ {eventcnt} : owner'[id] = owner[id]
    BY AddEventKeeps
  <1>2. /\ table \subseteq Ids /\ cur \in Ids \cup {NoId} /\ NoId \notin Ids
        /\ oid \in [Owners -> Ids \cup {NoId}] /\ eventcnt \in Int
        /\ \A id \in Ids : id \in Int
    BY DEF EventInv, EventType, Ids, NoId
  <1>3. cur # NoId => cur \notin table
    BY DEF EventInv, EventPlace
  <1>4. \A u \in Owners \ {o} : Live(u)' = Live(u)
    BY <1>1, <1>2, <1>3 DEF Live
  <1>5. Live(o)' = (Live(o) \ ({cur} \ {cur'})) \cup {eventcnt}
    BY <1>1, <1>2, <1>3 DEF Live
  <1>6. OwnIds'
    <2> SUFFICES ASSUME NEW u \in Owners, oid'[u] # NoId
                 PROVE  oid'[u] < eventcnt' /\ owner'[oid'[u]] = u
      BY DEF OwnIds
    <2>1. CASE u = o
      BY <1>1, <1>2, <2>1
    <2>2. CASE u # o
      <3>1. oid'[u] = oid[u] /\ oid[u] \in Ids
        BY <1>2, <2>2
      <3>2. oid[u] < eventcnt /\ owner[oid[u]] = u
        BY <3>1, <1>2 DEF OwnIds
      <3>3. oid[u] \in Int /\ eventcnt \in Int
        BY <1>2, <3>1
      <3>4. oid[u] # eventcnt /\ oid[u] < eventcnt + 1
        BY <3>2, <3>3
      <3>5. owner'[oid[u]] = owner[oid[u]]
        BY <1>1, <3>1, <3>4
      <3> QED BY <1>1, <3>1, <3>2, <3>4, <3>5
    <2> QED BY <2>1, <2>2
  <1> QED BY <1>1, <1>2, <1>4, <1>5, <1>6

LEMMA OwnerIds ==
  ASSUME EventInv, TimeInv, IdInv, NEW o \in Owners, OwnerStep(o)
  PROVE  IdInv'
  <1>0. /\ NoId \notin Ids /\ table \subseteq Ids /\ cur \in Ids \cup {NoId}
        /\ cur # NoId => cur \notin table
        /\ oid \in [Owners -> Ids \cup {NoId}]
        /\ opc \in [Owners -> {"idle", "del", "add", "poke"}]
    BY DEF EventInv, EventType, EventPlace, Ids, NoId, TimeInv, TypeOK
  <1>1. ASSUME NEW when \in Delays, Add(o, when) \/ ReplaceAdd(o, when)
        PROVE  IdInv'
    <2>1. /\ AddEvent(o, when)
          /\ oid' = [oid EXCEPT ![o] = eventcnt]
          /\ \A u \in Owners \ {o} : opc'[u] = opc[u]
          /\ opc'[o] # "add"
          /\ oid[o] = NoId \/ opc[o] = "add"
          /\ UNCHANGED <<cur, dpc, gaveup>>
      BY <1>0, <1>1 DEF Add, ReplaceAdd, Id, OwnerAt, runVars, histVars
    <2>2. /\ Live(o)' = Live(o) \cup {eventcnt}
          /\ \A u \in Owners \ {o} : Live(u)' = Live(u)
          /\ OwnIds'
          /\ oid'[o] = eventcnt /\ eventcnt # NoId
      BY <2>1, AddLive DEF IdInv
    <2>3. Elsewhere(o)
      BY <1>0, <2>1, <2>2 DEF Elsewhere
    <2>4. o \notin gaveup' /\ dpc # "gone" => OneEvent(o)'
      BY <2>1, <2>2 DEF IdInv, OneEvent
    <2> QED BY <2>1, <2>2, <2>3, <2>4, IdFrame
  <1>2. CASE DelFound(o)
    <2>1. /\ table' = table \ {oid[o]} /\ oid[o] \in table
          /\ oid' = [oid EXCEPT ![o] = NoId]
          /\ \A u \in Owners \ {o} : opc'[u] = opc[u]
          /\ UNCHANGED <<cur, owner, eventcnt, dpc, gaveup>>
      BY <1>0, <1>2 DEF DelFound, RemoveEvent, LoopEnds, Id, OwnerAt, runVars
    <2>2. owner[oid[o]] = o
      BY <1>0, <2>1 DEF IdInv, OwnIds
    <2>3. \A u \in Owners \ {o} : Live(u)' = Live(u)
      BY <1>0, <2>1, <2>2 DEF Live
    <2>4. Live(o)' = Live(o) \ {oid[o]}
      BY <1>0, <2>1 DEF Live
    <2>5. OwnIds' /\ Elsewhere(o)
      BY <1>0, <2>1, <2>3 DEF IdInv, OwnIds, Elsewhere
    <2>6. o \notin gaveup' /\ dpc # "gone" => OneEvent(o)'
      BY <1>0, <2>1, <2>4 DEF IdInv, OneEvent
    <2> QED BY <2>1, <2>5, <2>6, IdFrame
  <1>3. CASE DelGone(o) \/ DelGivesUp(o)
    <2>1. /\ oid' = [oid EXCEPT ![o] = NoId]
          /\ \A u \in Owners \ {o} : opc'[u] = opc[u]
          /\ UNCHANGED <<table, cur, owner, eventcnt, dpc>>
          /\ (oid[o] = NoId /\ gaveup' = gaveup) \/ gaveup' = gaveup \cup {o}
      BY <1>0, <1>3 DEF DelGone, DelGivesUp, LoopEnds, Id, OwnerAt, runVars,
                        histVars
    <2>2. \A u \in Owners : Live(u)' = Live(u)
      BY <2>1 DEF Live
    <2>3. OwnIds' /\ Elsewhere(o)
      BY <1>0, <2>1, <2>2 DEF IdInv, OwnIds, Elsewhere
    <2>4. o \notin gaveup' /\ dpc # "gone" => OneEvent(o)'
      BY <1>0, <2>1, <2>2 DEF IdInv, OneEvent
    <2> QED BY <2>1, <2>3, <2>4, IdFrame
  <1>4. CASE \/ \E op \in Ops : Begin(o, op)
             \/ DelRetry(o) \/ ReplaceAddFails(o) \/ Poke(o)
    <2>1. /\ UNCHANGED <<table, cur, owner, eventcnt, dpc, gaveup, oid>>
          /\ \A u \in Owners : opc'[u] = "add" => opc[u] = "add"
      BY <1>0, <1>4 DEF Begin, DelRetry, ReplaceAddFails, Poke, OwnerAt,
                        conVars, runVars, histVars
    <2>2. \A u \in Owners : Live(u)' = Live(u)
      BY <2>1 DEF Live
    <2> QED BY <2>1, <2>2 DEF IdInv, OwnIds, OneEvent
  <1> QED BY <1>1, <1>2, <1>3, <1>4 DEF OwnerStep

LEMMA CallbackIds ==
  ASSUME EventInv, TimeInv, IdInv, NEW o \in Owners, CallbackStep(o)
  PROVE  IdInv'
  <1>0. /\ NoId \notin Ids /\ table \subseteq Ids /\ cur \in Ids
        /\ cur \notin table /\ owner[cur] = o /\ cur' = NoId
        /\ oid \in [Owners -> Ids \cup {NoId}]
        /\ UNCHANGED <<dpc, opc, gaveup>>
    BY DEF CallbackStep, CallbackDone, CallbackAgain, CallbackAdds,
           CallbackReturns, EventInv, EventType, EventPlace, Ids, NoId,
           histVars
  <1>1. cur \in Live(o)
    BY <1>0 DEF Live
  <1>2. o \notin gaveup /\ dpc # "gone"
          => Live(o) = {cur} /\ oid[o] = cur /\ opc[o] # "add"
    BY <1>0, <1>1 DEF IdInv, OneEvent
  <1>3. CASE CallbackDone(o)
    <2>1. /\ oid' = [oid EXCEPT ![o] = NoId]
          /\ UNCHANGED <<table, eventcnt, owner>>
      BY <1>3 DEF CallbackDone, Id, conVars
    <2>2. /\ Live(o)' = Live(o) \ {cur}
          /\ \A u \in Owners \ {o} : Live(u)' = Live(u)
      BY <1>0, <2>1 DEF Live
    <2>3. OwnIds' /\ Elsewhere(o)
      BY <1>0, <2>1, <2>2 DEF IdInv, OwnIds, Elsewhere
    <2>4. o \notin gaveup' /\ dpc # "gone" => OneEvent(o)'
      BY <1>0, <1>2, <2>1, <2>2 DEF OneEvent
    <2> QED BY <1>0, <2>3, <2>4, IdFrame
  <1>4. ASSUME NEW when \in Delays, CallbackAgain(o, when)
        PROVE  IdInv'
    <2>1. /\ UNCHANGED <<oid, eventcnt, owner>>
          /\ table' = table \cup {cur}
      BY <1>4 DEF CallbackAgain, schedule
    <2>2. \A u \in Owners : Live(u)' = Live(u)
      BY <1>0, <2>1 DEF Live
    <2> QED BY <1>0, <2>1, <2>2 DEF IdInv, OwnIds, OneEvent
  <1>5. ASSUME NEW when \in Delays, CallbackAdds(o, when)
        PROVE  IdInv'
    <2>1. AddEvent(o, when) /\ oid' = [oid EXCEPT ![o] = eventcnt]
      BY <1>5 DEF CallbackAdds, Id
    <2>2. /\ Live(o)' = (Live(o) \ ({cur} \ {cur'})) \cup {eventcnt}
          /\ \A u \in Owners \ {o} : Live(u)' = Live(u)
          /\ OwnIds'
          /\ oid'[o] = eventcnt /\ eventcnt # NoId
      BY <1>0, <2>1, AddLive DEF IdInv
    <2>3. Elsewhere(o)
      BY <1>0, <2>1, <2>2 DEF Elsewhere
    <2>4. o \notin gaveup' /\ dpc # "gone" => OneEvent(o)'
      BY <1>0, <1>2, <2>2 DEF OneEvent
    <2> QED BY <1>0, <2>2, <2>3, <2>4, IdFrame
  <1> QED BY <1>3, <1>4, <1>5 DEF CallbackStep

LEMMA IdStep == EventInv /\ TimeInv /\ IdInv /\ [Next]_vars => IdInv'
  <1> SUFFICES ASSUME EventInv, TimeInv, IdInv, [Next]_vars PROVE IdInv'
    OBVIOUS
  <1>1. CASE RunqPop
    <2>1. PICK id \in heap : table' = table \ {id} /\ cur' = id
      BY <1>1 DEF RunqPop, Soonest
    <2>2. /\ tpc = "loop"
          /\ UNCHANGED <<owner, eventcnt, dpc, opc, gaveup, oid>>
      BY <1>1 DEF RunqPop, ThreadUnchanged, histVars
    <2>3. id \in table /\ id # NoId /\ cur = NoId
      BY <2>2 DEF EventInv, EventType, EventPlace, Ids, NoId
    <2>4. \A u \in Owners : Live(u)' = Live(u)
      BY <2>1, <2>2, <2>3 DEF Live
    <2> QED BY <2>2, <2>4 DEF IdInv, OwnIds, OneEvent
  <1>2. CASE DestroyJoin
    BY <1>2 DEF DestroyJoin, ownerVars, IdInv, OwnIds
  <1>3. CASE \/ (ThreadStep /\ ~RunqPop) \/ DestroyStop \/ Tick
             \/ UNCHANGED vars
    <2>1. /\ UNCHANGED <<table, cur, owner, eventcnt, opc, gaveup, oid>>
          /\ dpc' # "gone" => dpc # "gone"
      BY <1>3 DEF ThreadStep, ThreadTop, ThreadLock, ThreadSleep,
                  ThreadTimeout, ThreadSpurious, ThreadWoken, RunqStart,
                  RunqEnd, QueueUnchanged, ThreadUnchanged, DestroyStop, Tick,
                  vars, conVars, runVars, ownerVars, histVars
    <2>2. \A u \in Owners : Live(u)' = Live(u)
      BY <2>1 DEF Live
    <2> QED BY <2>1, <2>2 DEF IdInv, OwnIds, OneEvent
  <1> QED BY <1>1, <1>2, <1>3, OwnerIds, CallbackIds DEF Next

LEMMA IdAlways == Spec => []IdInv
  BY IdInit, IdStep, EventAlways, TimeAlways, PTL DEF Spec

(* Unless a macro has run out of attempts, an owner's variable names its   *)
(* only event, also while its callback gives it another one.               *)
THEOREM IdsNameEvents == Spec => []IdNamesEvent
  <1>1. IdInv => IdNamesEvent
    BY DEF IdInv, OneEvent, IdNamesEvent
  <1> QED BY <1>1, IdAlways, PTL

(* The references of an owner's data, when it uses only the macros that    *)
(* delete.                                                                 *)
RefOf(o) ==
  /\ refs[o] = IF oid[o] = NoId THEN 0 ELSE 1
  /\ oop[o] # "replace"

RefInv == dpc # "gone" => \A o \in Owners \ gaveup : RefOf(o)

LEMMA RefInit == Init => RefInv
  BY DEF Init, RefInv, RefOf

LEMMA RefStep ==
  ASSUME "replace" \notin Ops
  PROVE  EventInv /\ TimeInv /\ IdInv /\ RefInv /\ [Next]_vars => RefInv'
  <1> SUFFICES ASSUME EventInv, TimeInv, IdInv, RefInv, [Next]_vars
               PROVE  RefInv'
    OBVIOUS
  <1>0. /\ NoId \notin Ids /\ eventcnt \in Nat
        /\ oid \in [Owners -> Ids \cup {NoId}]
        /\ refs \in [Owners -> Int]
        /\ oop \in [Owners -> {"del", "unref", "replace"}]
    BY DEF EventInv, EventType, Ids, NoId, TimeInv, TypeOK
  <1>1. ASSUME NEW o \in Owners, OwnerStep(o)
        PROVE  RefInv'
    <2>1. ASSUME NEW when \in Delays, Add(o, when) \/ ReplaceAdd(o, when)
          PROVE  RefInv'
      <3>1. /\ AddEvent(o, when)
            /\ oid' = [oid EXCEPT ![o] = eventcnt]
            /\ refs' = [refs EXCEPT ![o] = @ + 1]
            /\ oid[o] = NoId \/ opc[o] = "add"
            /\ UNCHANGED <<dpc, oop, gaveup>>
        BY <2>1 DEF Add, ReplaceAdd, Id, Ref, runVars, histVars
      <3>2. eventcnt \in Ids
        BY <3>1, AddEventKeeps
      <3>3. o \notin gaveup /\ dpc # "gone" => oid[o] = NoId
        BY <3>1 DEF IdInv, OneEvent
      <3> QED BY <1>0, <3>1, <3>2, <3>3 DEF RefInv, RefOf
    <2>2. CASE DelFound(o)
      <3>1. /\ oid[o] \in table
            /\ LoopEnds(o, oop[o] = "replace" => seen[o])
            /\ UNCHANGED gaveup
        BY <2>2 DEF DelFound
      <3>2. /\ oid' = [oid EXCEPT ![o] = NoId]
            /\ oop' = [oop EXCEPT ![o] = "del"]
            /\ UNCHANGED dpc
            /\ oop[o] # "replace" => refs' = [refs EXCEPT ![o] = @ + (-1)]
            /\ \A u \in Owners \ {o} : refs'[u] = refs[u]
        BY <1>0, <3>1 DEF LoopEnds, Id, Ref
      <3>3. oid[o] # NoId
        BY <1>0, <3>1 DEF EventInv, EventType
      <3> QED BY <1>0, <3>1, <3>2, <3>3 DEF RefInv, RefOf
    <2>3. CASE DelGone(o)
      <3>1. /\ oid[o] = NoId
            /\ LoopEnds(o, FALSE)
            /\ UNCHANGED gaveup
        BY <2>3 DEF DelGone, histVars
      <3>2. /\ oid' = [oid EXCEPT ![o] = NoId]
            /\ oop' = [oop EXCEPT ![o] = "del"]
            /\ UNCHANGED dpc
            /\ refs' = [refs EXCEPT ![o] = @ + 0]
        BY <3>1 DEF LoopEnds, Id, Ref
      <3> QED BY <1>0, <3>1, <3>2 DEF RefInv, RefOf
    <2>4. CASE DelGivesUp(o)
      <3>1. /\ gaveup' = gaveup \cup {o}
            /\ oid' = [oid EXCEPT ![o] = NoId]
            /\ oop' = [oop EXCEPT ![o] = "del"]
            /\ UNCHANGED dpc
            /\ \A u \in Owners \ {o} : refs'[u] = refs[u]
        BY <1>0, <2>4 DEF DelGivesUp, LoopEnds, Id, Ref
      <3> QED BY <1>0, <3>1 DEF RefInv, RefOf
    <2>5. ASSUME NEW op \in Ops, Begin(o, op)
          PROVE  RefInv'
      <3>1. /\ op # "replace"
            /\ oop' = [oop EXCEPT ![o] = op]
            /\ UNCHANGED <<dpc, oid, refs, gaveup>>
        BY <2>5 DEF Begin, histVars
      <3> QED BY <1>0, <3>1 DEF RefInv, RefOf
    <2>6. CASE DelRetry(o) \/ ReplaceAddFails(o) \/ Poke(o)
      BY <2>6 DEF DelRetry, ReplaceAddFails, Poke, histVars, RefInv, RefOf
    <2> QED BY <1>1, <2>1, <2>2, <2>3, <2>4, <2>5, <2>6 DEF OwnerStep
  <1>2. ASSUME NEW o \in Owners, CallbackStep(o)
        PROVE  RefInv'
    <2>0. /\ cur \in Live(o)
          /\ UNCHANGED <<dpc, oop, gaveup>>
      BY <1>2 DEF CallbackStep, CallbackDone, CallbackAgain, CallbackAdds,
                  CallbackReturns, EventInv, EventType, EventPlace, Live,
                  histVars
    <2>1. o \notin gaveup /\ dpc # "gone" => oid[o] # NoId
      BY <2>0 DEF IdInv, OneEvent
    <2>2. CASE CallbackDone(o)
      <3>1. /\ oid' = [oid EXCEPT ![o] = NoId]
            /\ refs' = [refs EXCEPT ![o] = @ + (-1)]
        BY <2>2 DEF CallbackDone, Id, Ref
      <3> QED BY <1>0, <2>0, <2>1, <3>1 DEF RefInv, RefOf
    <2>3. ASSUME NEW when \in Delays, CallbackAgain(o, when)
          PROVE  RefInv'
      BY <2>0, <2>3 DEF CallbackAgain, RefInv, RefOf
    <2>4. ASSUME NEW when \in Delays, CallbackAdds(o, when)
          PROVE  RefInv'
      <3>1. /\ AddEvent(o, when)
            /\ oid' = [oid EXCEPT ![o] = eventcnt]
            /\ UNCHANGED refs
        BY <2>4 DEF CallbackAdds, Id
      <3>2. eventcnt \in Ids
        BY <3>1, AddEventKeeps
      <3> QED BY <1>0, <2>0, <2>1, <3>1, <3>2 DEF RefInv, RefOf
    <2> QED BY <1>2, <2>2, <2>3, <2>4 DEF CallbackStep
  <1>3. CASE ThreadStep \/ DestroyStop \/ DestroyJoin \/ Tick \/ UNCHANGED vars
    <2>1. /\ \/ UNCHANGED <<oop, gaveup, refs, oid>>
             \/ dpc' = "gone"
          /\ dpc' # "gone" => dpc # "gone"
      BY <1>3 DEF ThreadStep, ThreadTop, ThreadLock, ThreadSleep,
                  ThreadTimeout, ThreadSpurious, ThreadWoken, RunqStart,
                  RunqPop, RunqEnd, QueueUnchanged, ThreadUnchanged,
                  DestroyStop, DestroyJoin, Tick, vars, conVars, runVars,
                  ownerVars, histVars
    <2> QED BY <2>1 DEF RefInv, RefOf
  <1> QED BY <1>1, <1>2, <1>3 DEF Next

(* Whichever way a callback and TRIS_SCHED_DEL or TRIS_SCHED_DEL_UNREF      *)
(* meet, the reference that belongs to an event is dropped once, unless    *)
(* the macro has run out of attempts.                                      *)
THEOREM ReferencesExact ==
  ASSUME "replace" \notin Ops
  PROVE  Spec => []RefsExact
  <1>1. IdInv /\ RefInv => RefsExact
    <2> SUFFICES ASSUME IdInv, RefInv, dpc # "gone",
                        NEW o \in Owners \ gaveup
                 PROVE  refs[o] = Cardinality(Live(o))
      BY DEF RefsExact
    <2>1. /\ Live(o) = {oid[o]} \ {NoId}
          /\ refs[o] = IF oid[o] = NoId THEN 0 ELSE 1
      BY DEF IdInv, OneEvent, RefInv, RefOf
    <2>2. Cardinality({}) = 0 /\ Cardinality({oid[o]}) = 1
      BY FS_EmptySet, FS_Singleton
    <2>3. CASE oid[o] = NoId
      <3>1. Live(o) = {}
        BY <2>1, <2>3
      <3> QED BY <2>1, <2>2, <2>3, <3>1
    <2>4. CASE oid[o] # NoId
      <3>1. Live(o) = {oid[o]}
        BY <2>1, <2>4
      <3> QED BY <2>1, <2>2, <2>4, <3>1
    <2> QED BY <2>3, <2>4
  <1> QED BY <1>1, RefInit, RefStep, EventAlways, TimeAlways, IdAlways, PTL
          DEF Spec

-----------------------------------------------------------------------------
(* The rounded wait *)

(* The event the thread waits for, if it is still in the heap, is due      *)
(* within a millisecond of the end of the wait: tris_sched_wait rounds     *)
(* down by less than that, and tris_sched_runq looks that much ahead.      *)
HeadDue ==
  /\ tpc = "sleep" => ms # Never /\ due[head] < now + ms * Ms + Ms
  /\ tpc = "wait" => deadline # Never /\ due[head] < deadline + Ms
  /\ tpc \in {"timedout", "runq"} => due[head] < now + Ms
  /\ tpc \in {"loop", "callback"} => due[head] < limit

HeadInv ==
  /\ head < eventcnt
  /\ cur # NoId => cur # head
  /\ head \in heap => HeadDue

LEMMA HeadInit == Init => HeadInv
  BY DEF Init, HeadInv, NoId

(* A step after which the event is as due as before, and the thread where  *)
(* it was or where it does not matter                                      *)
LEMMA HeadFrame ==
  ASSUME TypeOK, HeadInv, UNCHANGED <<head, ms, deadline, limit>>,
         head \in heap' => head \in heap /\ due'[head] = due[head],
         now' \in {now, now + 1}, eventcnt' \in {eventcnt, eventcnt + 1},
         cur' \in {cur, NoId},
         \/ tpc' = tpc
         \/ tpc' \in {"top", "lock", "woken", "exit"}
         \/ tpc = "callback" /\ tpc' = "loop"
  PROVE  HeadInv'
  <1>1. head' < eventcnt'
    <2>1. head \in Int /\ eventcnt \in Int
      BY SchedConstants DEF TypeOK, NoId, Ids
    <2> QED BY <2>1 DEF HeadInv
  <1>2. ASSUME head \in heap'
        PROVE  HeadDue'
    <2>1. HeadDue /\ due'[head] = due[head] /\ due[head] \in Nat
      BY <1>2 DEF HeadInv, TypeOK
    <2>2. tpc = "sleep" => ms \in Nat /\ ms * Ms \in Nat
      BY <2>1, SchedConstants DEF TypeOK, HeadDue
    <2>3. now \in Nat /\ Ms \in Nat
      BY SchedConstants DEF TypeOK
    <2> QED BY <2>1, <2>2, <2>3 DEF HeadDue
  <1> QED BY <1>1, <1>2 DEF HeadInv

(* An event that is added is not the one the thread waits for. *)
LEMMA AddHead ==
  ASSUME EventInv, TimeInv, HeadInv, NEW o \in Owners, NEW when \in Delays,
         AddEvent(o, when)
  PROVE  /\ head \in heap' => head \in heap /\ due'[head] = due[head]
         /\ eventcnt' = eventcnt + 1
  <1>1. /\ heap' \subseteq heap \cup {eventcnt} /\ eventcnt' = eventcnt + 1
        /\ eventcnt \in Ids
    BY AddEventKeeps
  <1>2. head # eventcnt
    BY DEF HeadInv, TimeInv, TypeOK, NoId
  <1>3. \A id \in Ids \ {eventcnt} : due'[id] = due[id]
    BY DEF AddEvent, TimeInv, TypeOK
  <1>4. heap \subseteq Ids
    BY DEF TimeInv, TypeOK
  <1> QED BY <1>1, <1>2, <1>3, <1>4

LEMMA OwnerHead ==
  ASSUME EventInv, TimeInv, HeadInv, NEW o \in Owners, OwnerStep(o)
  PROVE  HeadInv'
  <1>0. TypeOK
    BY DEF TimeInv
  <1>1. ASSUME NEW when \in Delays, Add(o, when) \/ ReplaceAdd(o, when)
        PROVE  HeadInv'
    <2>1. /\ AddEvent(o, when)
          /\ UNCHANGED <<now, ms, deadline, limit, cur, head>>
          /\ tpc' = tpc \/ tpc' = "woken"
      BY <1>1 DEF Add, ReplaceAdd, runVars, Signal
    <2> QED BY <1>0, <2>1, AddHead, HeadFrame
  <1>2. CASE DelFound(o)
    <2>1. UNCHANGED <<now, eventcnt, due, tpc, ms, deadline, limit, cur, head>>
      BY <1>2 DEF DelFound, LoopEnds, runVars
    <2>2. heap' \subseteq heap
      BY <1>2 DEF DelFound, RemoveEvent
    <2> QED BY <1>0, <2>1, <2>2, HeadFrame
  <1>3. CASE DelGone(o) \/ DelGivesUp(o)
    <2>1. UNCHANGED <<now, eventcnt, heap, due, tpc, ms, deadline, limit, cur,
                      head>>
      BY <1>3 DEF DelGone, DelGivesUp, LoopEnds, runVars
    <2> QED BY <1>0, <2>1, HeadFrame
  <1>4. CASE \/ \E op \in Ops : Begin(o, op)
             \/ DelRetry(o) \/ ReplaceAddFails(o) \/ Poke(o)
    <2>1. /\ UNCHANGED <<now, eventcnt, heap, due, ms, deadline, limit, cur,
                         head>>
          /\ tpc' = tpc \/ tpc' = "woken"
      BY <1>4 DEF Begin, DelRetry, ReplaceAddFails, Poke, conVars, runVars,
                  Signal
    <2> QED BY <1>0, <2>1, HeadFrame
  <1> QED BY <1>1, <1>2, <1>3, <1>4 DEF OwnerStep

LEMMA CallbackHead ==
  ASSUME EventInv, TimeInv, HeadInv, NEW o \in Owners, CallbackStep(o)
  PROVE  HeadInv'
  <1>0. /\ tpc' = "loop" /\ tpc = "callback" /\ cur' = NoId /\ cur \in Ids
        /\ TypeOK /\ cur # head
        /\ UNCHANGED <<now, ms, deadline, limit, head>>
    BY DEF CallbackStep, CallbackDone, CallbackAgain, CallbackAdds,
           CallbackReturns, EventInv, EventType, EventPlace, TimeInv, HeadInv
  <1>1. CASE CallbackDone(o)
    <2>1. UNCHANGED <<eventcnt, heap, due>>
      BY <1>1 DEF CallbackDone, conVars
    <2> QED BY <1>0, <2>1, HeadFrame
  <1>2. ASSUME NEW when \in Delays, CallbackAgain(o, when)
        PROVE  HeadInv'
    <2>1. /\ eventcnt' = eventcnt /\ heap' \subseteq heap \cup {cur}
          /\ \A id \in Ids \ {cur} : due'[id] = due[id]
      BY <1>2 DEF CallbackAgain, schedule, TimeInv, TypeOK
    <2>2. head \in heap' => head \in heap /\ due'[head] = due[head]
      BY <1>0, <2>1 DEF TypeOK
    <2> QED BY <1>0, <2>1, <2>2, HeadFrame
  <1>3. ASSUME NEW when \in Delays, CallbackAdds(o, when)
        PROVE  HeadInv'
    <2>1. AddEvent(o, when)
      BY <1>3 DEF CallbackAdds
    <2> QED BY <1>0, <2>1, AddHead, HeadFrame
  <1> QED BY <1>1, <1>2, <1>3 DEF CallbackStep

(* Rounding down loses less than a millisecond. *)
LEMMA WaitRounds ==
  ASSUME TypeOK, NEW id \in heap
  PROVE  due[id] < now + WaitMs(id) * Ms + Ms
  <1> DEFINE d == due[id] - now
             q == d \div Ms
  <1>1. d \in Int /\ now \in Nat /\ due[id] \in Nat /\ Ms \in Nat /\ Ms > 0
    BY SchedConstants DEF TypeOK
  <1>2. q \in Int /\ d < q * Ms + Ms
    <2> HIDE DEF d
    <2> QED BY <1>1, SMT
  <1>3. WaitMs(id) = IF q < 0 THEN 0 ELSE q
    BY DEF WaitMs, Later
  <1> HIDE DEF q
  <1>4. CASE q < 0
    <2>1. q * Ms + Ms <= 0
      BY <1>1, <1>2, <1>4, SMT
    <2>2. d < 0 /\ WaitMs(id) * Ms = 0
      BY <1>1, <1>2, <1>3, <1>4, <2>1
    <2> QED BY <1>1, <2>2
  <1>5. CASE ~ (q < 0)
    <2>1. WaitMs(id) * Ms = q * Ms /\ q * Ms \in Int
      BY <1>1, <1>2, <1>3, <1>5
    <2> QED BY <1>1, <1>2, <2>1
  <1> QED BY <1>4, <1>5

LEMMA ThreadHead ==
  ASSUME EventInv, TimeInv, TimeInv', HeadInv, ThreadStep
  PROVE  HeadInv'
  <1>0. /\ TypeOK /\ TypeOK' /\ UNCHANGED <<now, eventcnt>>
        /\ now \in Nat /\ Ms \in Nat \ {0}
    BY SchedConstants DEF TimeInv, TypeOK, ThreadStep, ThreadTop, ThreadLock,
           ThreadSleep, ThreadTimeout, ThreadSpurious, ThreadWoken, RunqStart,
           RunqPop, RunqEnd, ThreadUnchanged
  <1>1. CASE ThreadLock
    <2>1. UNCHANGED <<heap, due, cur, deadline, limit>> /\ cur = NoId
      BY <1>1 DEF ThreadLock, QueueUnchanged, EventInv, EventPlace
    <2>2. CASE stop
      BY <1>0, <1>1, <2>1, <2>2, HeadFrame DEF ThreadLock
    <2>3. CASE ~stop /\ heap = {}
      BY <1>0, <1>1, <2>1, <2>3 DEF ThreadLock, HeadInv, TypeOK, NoId
    <2>4. CASE ~stop /\ heap # {}
      <3>1. PICK id \in heap : ms' = WaitMs(id) /\ head' = id /\ tpc' = "sleep"
        BY <1>1, <2>4 DEF ThreadLock, Soonest
      <3>2. id < eventcnt
        BY DEF EventInv, EventPlace
      <3>3. ms' # Never /\ due[id] < now + ms' * Ms + Ms
        BY <1>0, <3>1, WaitType, WaitRounds DEF Never
      <3> QED BY <1>0, <2>1, <3>1, <3>2, <3>3 DEF HeadInv, HeadDue
    <2> QED BY <2>2, <2>3, <2>4
  <1>2. CASE ThreadSleep
    <2>1. /\ UNCHANGED <<heap, due, cur, limit, head>>
          /\ tpc = "sleep" /\ tpc' = "wait"
          /\ deadline' = IF ms = Never THEN Never ELSE now + ms * Ms
      BY <1>2 DEF ThreadSleep, QueueUnchanged
    <2>2. ASSUME head \in heap
          PROVE  deadline' # Never /\ due[head] < deadline' + Ms
      <3>1. ms \in Nat /\ ms # Never /\ due[head] < now + ms * Ms + Ms
        BY <1>0, <2>1, <2>2 DEF HeadInv, HeadDue, TypeOK
      <3>2. ms * Ms \in Nat
        BY <1>0, <3>1
      <3> QED BY <1>0, <2>1, <3>1, <3>2 DEF Never
    <2> QED BY <1>0, <2>1, <2>2 DEF HeadInv, HeadDue
  <1>3. CASE ThreadTimeout
    <2>1. /\ UNCHANGED <<heap, due, cur, head>>
          /\ tpc = "wait" /\ tpc' = "timedout"
          /\ now >= deadline \/ now = MaxTime
      BY <1>3 DEF ThreadTimeout, QueueUnchanged, runVars
    <2>2. ASSUME head \in heap
          PROVE  due[head] < now + Ms
      <3>1. /\ deadline \in Nat /\ due[head] < deadline + Ms
            /\ due[head] \in Nat /\ due[head] <= MaxTime
        BY <1>0, <2>1, <2>2, SchedConstants DEF HeadInv, HeadDue, TypeOK
      <3> QED BY <1>0, <2>1, <3>1, SchedConstants
    <2> QED BY <1>0, <2>1, <2>2 DEF HeadInv, HeadDue
  <1>4. CASE ThreadWoken
    <2>1. /\ UNCHANGED <<heap, due, cur>>
          /\ tpc' \in {"exit", "runq"}
          /\ tpc \in {"woken", "timedout"}
          /\ head' = IF tpc = "timedout" THEN head ELSE NoId
      BY <1>4 DEF ThreadWoken, QueueUnchanged
    <2>2. NoId \notin heap /\ NoId < eventcnt /\ cur = NoId
      BY <1>0, <2>1 DEF TypeOK, Ids, NoId, EventInv, EventPlace
    <2> QED BY <1>0, <2>1, <2>2 DEF HeadInv, HeadDue
  <1>5. CASE RunqStart
    <2>1. /\ UNCHANGED <<heap, due, cur, head>>
          /\ tpc = "runq" /\ tpc' = "loop" /\ limit' = now + Ms
      BY <1>5 DEF RunqStart, QueueUnchanged
    <2> QED BY <1>0, <2>1 DEF HeadInv, HeadDue
  <1>6. CASE RunqPop
    <2>1. PICK id \in heap : /\ heap' = heap \ {id}
                             /\ cur' = id
                             /\ head' = IF id = head THEN NoId ELSE head
      BY <1>6 DEF RunqPop, Soonest
    <2>2. tpc = "loop" /\ tpc' = "callback" /\ UNCHANGED <<due, limit>>
      BY <1>6 DEF RunqPop
    <2>3. NoId \notin heap /\ NoId < eventcnt
      BY <1>0 DEF TypeOK, Ids, NoId
    <2> QED BY <1>0, <2>1, <2>2, <2>3 DEF HeadInv, HeadDue
  <1>7. CASE RunqEnd
    <2>1. UNCHANGED <<heap, cur>> /\ head' = NoId
      BY <1>7 DEF RunqEnd, QueueUnchanged
    <2>2. NoId \notin heap /\ NoId < eventcnt
      BY <1>0 DEF TypeOK, Ids, NoId
    <2>3. cur = NoId
      BY <1>7 DEF RunqEnd, EventInv, EventPlace
    <2> QED BY <1>0, <2>1, <2>2, <2>3 DEF HeadInv
  <1>8. CASE ThreadTop \/ ThreadSpurious
    <2>1. /\ UNCHANGED <<heap, due, ms, deadline, limit, cur, head>>
          /\ tpc' \in {"exit", "lock", "woken"}
      BY <1>8 DEF ThreadTop, ThreadSpurious, QueueUnchanged, runVars
    <2> QED BY <1>0, <2>1, HeadFrame
  <1> QED BY <1>1, <1>2, <1>3, <1>4, <1>5, <1>6, <1>7, <1>8 DEF ThreadStep

LEMMA HeadStep ==
  EventInv /\ TimeInv /\ TimeInv' /\ HeadInv /\ [Next]_vars => HeadInv'
  <1> SUFFICES ASSUME EventInv, TimeInv, TimeInv', HeadInv, [Next]_vars
               PROVE  HeadInv'
    OBVIOUS
  <1>0. TypeOK
    BY DEF TimeInv
  <1>1. CASE UNCHANGED vars
    BY <1>0, <1>1, HeadFrame DEF vars, conVars, runVars
  <1>2. CASE DestroyStop \/ DestroyJoin
    <2>1. /\ heap' \in {heap, {}} /\ tpc' \in {tpc, "woken"}
          /\ UNCHANGED <<now, eventcnt, due, ms, deadline, limit, cur, head>>
      BY <1>2 DEF DestroyStop, DestroyJoin, Signal, conVars, runVars
    <2> QED BY <1>0, <2>1, HeadFrame
  <1>3. CASE Tick
    BY <1>0, <1>3, HeadFrame DEF Tick, conVars, runVars
  <1> QED BY <1>1, <1>2, <1>3, OwnerHead, CallbackHead, ThreadHead DEF Next

(* Whatever the length of a millisecond, and whatever is added, deleted or *)
(* lost while the thread waits: when its wait times out, the event it      *)
(* waited for is run, so that rounding down does not make it spin.         *)
THEOREM TimeoutsAreEnough == Spec => []TimeoutIsEnough
  <1>1. HeadInv => TimeoutIsEnough
    BY DEF HeadInv, HeadDue, TimeoutIsEnough
  <1>2. Spec => []HeadInv
    BY HeadInit, HeadStep, EventAlways, TimeAlways, PTL DEF Spec
  <1> QED BY <1>1, <1>2, PTL

-----------------------------------------------------------------------------
(***************************************************************************)
(* Call detail records, a client of a scheduler: proofs about CdrBatch,    *)
(* for any channels, configurations and numbers of attempts, with and      *)
(* without memory and threads to spare.                                    *)
(*                                                                         *)
(* The argument: until a load decides, the thread exists if records were   *)
(* batched, and afterwards if they are batched (LoadInv); who has taken    *)
(* the event away is on its way to add one (ServedInv); of the channels    *)
(* that have enlisted a record one knows that the batch is full (FullInv); *)
(* and the lists of records are disjoint and without repetitions           *)
(* (RecordInv), so that counting them yields one (SumOfOnce).              *)
(***************************************************************************)

(* Where each thread can be *)
PlaceType ==
  /\ DOMAIN pc = Threads
  /\ \A c \in Channels : pc[c] \in {"idle", "mode", "append", "post", "full",
                                    "del", "clear", "add", "assign", "signal"}
  /\ \A t \in Consoles : pc[t] \in {"idle", "del", "clear", "add", "assign",
                                    "signal"}
  /\ pc[CdrThread] \in {"none", "plan", "lock", "wait", "runq", "check", "take",
                        "spawn", "post", "add", "assign", "dead"}
  /\ pc[Reloader] \in {"idle", "del", "clear", "config", "add", "assign",
                       "decide", "join", "check", "take", "spawn", "post",
                       "unlock"}
  /\ pc[Quitter] \in {"idle", "check", "take", "spawn", "post", "hangup",
                      "exit", "gone"}

Batching    == cfg.enabled /\ cfg.batchmode
WasBatching == was.enabled /\ was.batchmode
Deciding    == {"del", "clear", "config", "add", "assign", "decide"}

LoadType ==
  /\ cfg \in Configs
  /\ was \in [enabled : BOOLEAN, batchmode : BOOLEAN]
  /\ exists \in BOOLEAN /\ cancelled \in BOOLEAN
  /\ nreloads \in Nat

(* The thread exists while records are batched: as they were until a load  *)
(* decides, as they are afterwards.  The first load has none to cancel.    *)
ThreadMatches ==
  /\ exists <=> pc[CdrThread] # "none"
  /\ cancelled <=> pc[Reloader] = "join"
  /\ pc[CdrThread] = "dead" => cancelled
  /\ IF pc[Reloader] \in Deciding
       THEN exists <=> WasBatching
       ELSE IF pc[Reloader] = "join" THEN exists /\ ~Batching
       ELSE exists <=> Batching
  /\ pc[Reloader] \in {"add", "assign"} => Batching
  /\ nreloads = 0 => pc[Reloader] = "idle" /\ ~exists
  /\ nreloads = 1 /\ pc[Reloader] \in Deciding => ~exists
  /\ cancelled => nreloads > 1

LoadInv == PlaceType /\ LoadType /\ ThreadMatches

(* There is an event, or there will be one. *)
Served ==
  \/ events # {}
  \/ \E t \in Threads : pc[t] \in {"clear", "config", "add"}
  \/ pc[CdrThread] \in {"check", "take", "spawn", "post", "add"}

(* Also for a thread that a load is about to create *)
ServedInv ==
  \/ exists /\ ~cancelled
  \/ pc[Reloader] \in {"assign", "decide"} /\ Batching
  => Served \/ (pc[Reloader] = "decide" /\ TurnedOff)

(* What the size of the batch is, as the batch and a channel that has      *)
(* enlisted know it; until the first load has ended there is no record.    *)
SizeType ==
  /\ batch \in Seq(Nat) /\ size = Len(batch)
  /\ curr \in [Channels -> Nat]
  /\ DOMAIN hand = Threads /\ ndetached \in Nat
  /\ \A c \in Channels : pc[c] \in {"mode", "append"} =>
        hand[c] \in Seq(Nat) /\ Len(hand[c]) = 1
  /\ ~Loaded => batch = <<>> /\ pc[Quitter] = "idle"
                 /\ \A t \in Submitters : pc[t] = "idle"

Filled ==
  Loaded /\ nreloads = 1 /\ cfg.batchmode /\ batch # <<>>
    /\ Len(batch) >= cfg.size

(* Of the channels in "full", one knows that the batch is. *)
Announced ==
  \/ \E e \in events : e.due \in {"soon", "now"}
  \/ \E t \in Submitters : pc[t] \in {"del", "clear", "add"}
  \/ \E c \in Channels : pc[c] = "full" /\ curr[c] >= cfg.size - 1
  \/ pc[CdrThread] \in {"check", "take"}

EventShape == \A e \in events : e = [id |-> e.id, due |-> e.due]

FullInv == SizeType /\ EventShape /\ (Filled => Announced)

(* Who has which records *)
Distinct(s) == \A i, j \in DOMAIN s : s[i] = s[j] => i = j
Finished    == dropped \cup lost \cup {n \in Cdrs : posted[n] = 1}

RecordType ==
  /\ ndetached \in 0 .. MaxCdrs
  /\ batch \in Seq(Cdrs)
  /\ hand \in [Threads -> Seq(Cdrs)]
  /\ posters \in SUBSET Seq(Cdrs) /\ IsFiniteSet(posters)
  /\ posted \in [Cdrs -> {0, 1}]
  /\ dropped \in SUBSET Cdrs /\ lost \in SUBSET Cdrs

(* A thread has records in its hands between taking and posting them. *)
RecordPlace ==
  /\ \A c \in Channels : pc[c] \in {"mode", "append"} => Len(hand[c]) = 1
  /\ \A t \in Threads : pc[t] = "post" => hand[t] # <<>>
  /\ \A t \in Threads : pc[t] \notin {"mode", "append", "spawn", "post"} =>
        hand[t] = <<>>

Unrepeated ==
  /\ Distinct(batch)
  /\ \A t \in Threads : Distinct(hand[t])
  /\ \A p \in posters : Distinct(p)

Apart ==
  /\ \A n \in ToSet(batch) :
       /\ \A t \in Threads : n \notin ToSet(hand[t])
       /\ \A p \in posters : n \notin ToSet(p)
       /\ n \notin Finished
  /\ \A t \in Threads : \A n \in ToSet(hand[t]) :
       /\ \A u \in Threads \ {t} : n \notin ToSet(hand[u])
       /\ \A p \in posters : n \notin ToSet(p)
       /\ n \notin Finished
  /\ \A p \in posters : \A n \in ToSet(p) :
       /\ \A q \in posters \ {p} : n \notin ToSet(q)
       /\ n \notin Finished
  /\ dropped \cap lost = {}
  /\ \A n \in dropped \cup lost : posted[n] = 0

Accounted ==
  \A n \in Cdrs :
    n <= ndetached <=> \/ n \in ToSet(batch)
                       \/ \E t \in Threads : n \in ToSet(hand[t])
                       \/ \E p \in posters : n \in ToSet(p)
                       \/ n \in Finished

RecordInv == RecordType /\ RecordPlace /\ Unrepeated /\ Apart /\ Accounted
(* The threads are different ones. *)
LEMMA CdrRoles ==
  /\ CdrThread # Reloader /\ CdrThread # Quitter /\ Reloader # Quitter
  /\ \A t \in Submitters : t # CdrThread /\ t # Reloader /\ t # Quitter
  /\ \A c \in Channels : c \notin Consoles
  /\ Channels \subseteq Submitters /\ Consoles \subseteq Submitters
  /\ Submitters \subseteq Threads
  /\ {CdrThread, Reloader, Quitter} \subseteq Threads
<1> DEFINE Three == {CdrThread, Reloader, Quitter}
<1>1. ASSUME NEW a, NEW b PROVE Cardinality({a, b}) # 3
  <2>1. IsFiniteSet({a}) /\ Cardinality({a}) = 1
    BY FS_Singleton
  <2>2. Cardinality({a} \cup {b}) \in {1, 2}
    BY <2>1, FS_AddElement
  <2>3. {a, b} = {a} \cup {b}
    OBVIOUS
  <2> QED
    BY <2>2, <2>3
<1>2. Cardinality(Three) = 3
  BY CdrConstants
<1>3. CdrThread # Reloader
  <2>1. CdrThread = Reloader => Three = {CdrThread, Quitter}
    OBVIOUS
  <2> QED
    BY <1>1, <1>2, <2>1
<1>4. CdrThread # Quitter
  <2>1. CdrThread = Quitter => Three = {CdrThread, Reloader}
    OBVIOUS
  <2> QED
    BY <1>1, <1>2, <2>1
<1>5. Reloader # Quitter
  <2>1. Reloader = Quitter => Three = {CdrThread, Quitter}
    OBVIOUS
  <2> QED
    BY <1>1, <1>2, <2>1
<1> QED
  BY <1>3, <1>4, <1>5, CdrConstants DEF Submitters, Threads

(* Where a thread goes on *)
LEMMA BackOf ==
  /\ \A c \in Channels : Back(c) = "idle"
  /\ Back(CdrThread) = "add"
  /\ Back(Reloader) = "unlock"
  /\ Back(Quitter) \in {"hangup", "exit"}
BY CdrRoles DEF Back

LEMMA LoadInvInit == CdrInit => LoadInv
<1> SUFFICES ASSUME CdrInit PROVE LoadInv
  OBVIOUS
<1>1. PlaceType
  BY CdrRoles DEF CdrInit, PlaceType
<1>2. LoadType
  BY DEF CdrInit, LoadType, Configs
<1>3. ThreadMatches
  BY CdrRoles DEF CdrInit, ThreadMatches, Deciding, Batching, WasBatching
<1> QED
  BY <1>1, <1>2, <1>3 DEF LoadInv

LEMMA PlaceTypeNext == PlaceType /\ [CdrNext]_cdrVars => PlaceType'
<1> SUFFICES ASSUME PlaceType, [CdrNext]_cdrVars PROVE PlaceType'
  OBVIOUS
<1> USE CdrRoles
<1>1. ASSUME NEW c \in Channels, Detach(c) \/ ChannelStep(c) PROVE PlaceType'
  <2>1. \/ pc' = pc
        \/ \E p \in {"idle", "mode", "append", "post", "full", "del", "clear",
                     "add", "assign", "signal"} : pc' = [pc EXCEPT ![c] = p]
    BY <1>1, BackOf DEF ChannelStep, Detach, Mode, Enlist, Full, Post,
       Scheduling, Delete, Clear, AddSubmission, Assign, SignalThread, Goto
  <2> QED
    BY <2>1 DEF PlaceType
<1>2. ASSUME NEW t \in Consoles, CliSubmit(t) \/ Scheduling(t) PROVE PlaceType'
  <2>1. \/ pc' = pc
        \/ \E p \in {"idle", "del", "clear", "add", "assign", "signal"} :
              pc' = [pc EXCEPT ![t] = p]
    BY <1>2 DEF CliSubmit,
       Scheduling, Delete, Clear, AddSubmission, Assign, SignalThread, Goto
  <2> QED
    BY <2>1 DEF PlaceType
<1>3. ASSUME CdrStep PROVE PlaceType'
  <2>1. \E p \in {"none", "plan", "lock", "wait", "runq", "check", "take",
                  "spawn", "post", "add", "assign", "dead"} :
              pc' = [pc EXCEPT ![CdrThread] = p]
    BY <1>3, BackOf DEF CdrStep, Plan, Wait, Wake, Awake, RunEvent, EndRunq,
       CancelInWait, CancelInPost, Submission, CheckBatch, TakeBatch, PostHere,
       Spawn, Post, AddSubmission, Assign, Goto
  <2> QED
    BY <2>1 DEF PlaceType
<1>4. ASSUME NEW p \in posters, PosterStep(p) PROVE PlaceType'
  BY <1>4 DEF PosterStep, PlaceType
<1>5. ASSUME Reload \/ ReloadStep PROVE PlaceType'
  <2>1. \/ \E p \in {"idle", "del", "clear", "config", "add", "assign",
                     "decide", "join", "check", "take", "spawn", "post",
                     "unlock"} :
              pc' = [pc EXCEPT ![Reloader] = p]
        \/ pc' = [pc EXCEPT ![Reloader] = "unlock", ![CdrThread] = "plan"]
        \/ \E p \in {"check", "unlock"} :
              pc' = [pc EXCEPT ![CdrThread] = "none", ![Reloader] = p]
    BY <1>5, BackOf DEF Reload, ReloadStep, ReadConfig, Decide, Join,
       UnlockReload, Delete, Clear, AddSubmission, Assign, Submission, CheckBatch,
       TakeBatch, PostHere, Spawn, Post, Goto
  <2> QED
    BY <2>1 DEF PlaceType
<1>6. ASSUME Quit \/ QuitCancelled \/ QuitStep PROVE PlaceType'
  <2>1. \E p \in {"idle", "check", "take", "spawn", "post", "hangup", "exit",
                  "gone"} : pc' = [pc EXCEPT ![Quitter] = p]
    BY <1>6, BackOf DEF Quit, QuitCancelled, QuitStep, AtExit, Exit, Terminate,
       Submission, CheckBatch, TakeBatch, PostHere, Spawn, Post, Goto
  <2> QED
    BY <2>1 DEF PlaceType
<1>7. CASE UNCHANGED cdrVars
  BY <1>7 DEF cdrVars, sharedVars, PlaceType
<1> QED
  BY <1>1, <1>2, <1>3, <1>4, <1>5, <1>6, <1>7 DEF CdrNext

LEMMA LoadTypeNext == PlaceType /\ LoadType /\ [CdrNext]_cdrVars => LoadType'
<1> SUFFICES ASSUME PlaceType, LoadType, [CdrNext]_cdrVars PROVE LoadType'
  OBVIOUS
<1> USE DEF cfgVars, thrVars, sharedVars
<1>1. CASE UNCHANGED <<cfg, was, nreloads, exists, cancelled>>
  BY <1>1 DEF LoadType
<1>2. CASE Reload
  BY <1>2, CdrConstants DEF Reload, LoadType, Configs
<1>3. CASE ReadConfig
  BY <1>3, CdrConstants DEF ReadConfig, LoadType
<1>4. CASE Decide
  BY <1>4 DEF Decide, LoadType
<1>5. CASE Join
  BY <1>5 DEF Join, LoadType
<1>6. CASE UnlockReload
  BY <1>6 DEF UnlockReload, LoadType
<1>7. Reload \/ ReadConfig \/ Decide \/ Join \/ UnlockReload
        \/ UNCHANGED <<cfg, was, nreloads, exists, cancelled>>
  <2>1. ASSUME NEW c \in Channels, Detach(c) \/ ChannelStep(c)
        PROVE  UNCHANGED <<cfg, was, nreloads, exists, cancelled>>
    BY <2>1 DEF ChannelStep, Detach, Mode, Enlist, Full, Post,
       Scheduling, Delete, Clear, AddSubmission, Assign, SignalThread
  <2>2. ASSUME NEW t \in Consoles, CliSubmit(t) \/ Scheduling(t)
        PROVE  UNCHANGED <<cfg, was, nreloads, exists, cancelled>>
    BY <2>2 DEF CliSubmit,
       Scheduling, Delete, Clear, AddSubmission, Assign, SignalThread
  <2>3. ASSUME CdrStep
        PROVE  UNCHANGED <<cfg, was, nreloads, exists, cancelled>>
    BY <2>3 DEF CdrStep, Plan, Wait, Wake, Awake, RunEvent, EndRunq,
       CancelInWait, CancelInPost, Submission, CheckBatch, TakeBatch, PostHere,
       Spawn, Post, AddSubmission, Assign
  <2>4. ASSUME NEW p \in posters, PosterStep(p)
        PROVE  UNCHANGED <<cfg, was, nreloads, exists, cancelled>>
    BY <2>4 DEF PosterStep
  <2>5. ASSUME ReloadStep, ~(ReadConfig \/ Decide \/ Join \/ UnlockReload)
        PROVE  UNCHANGED <<cfg, was, nreloads, exists, cancelled>>
    BY <2>5 DEF ReloadStep, Delete, Clear, AddSubmission, Assign, Submission,
       CheckBatch, TakeBatch, PostHere, Spawn, Post
  <2>6. ASSUME Quit \/ QuitCancelled \/ QuitStep
        PROVE  UNCHANGED <<cfg, was, nreloads, exists, cancelled>>
    BY <2>6 DEF Quit, QuitCancelled, QuitStep, AtExit, Exit, Submission,
       CheckBatch, TakeBatch, PostHere, Spawn, Post
  <2>7. CASE UNCHANGED cdrVars
    BY <2>7 DEF cdrVars
  <2> QED
    BY <2>1, <2>2, <2>3, <2>4, <2>5, <2>6, <2>7 DEF CdrNext
<1> QED
  BY <1>1, <1>2, <1>3, <1>4, <1>5, <1>6, <1>7

(* What the other threads do, and a load that does not decide *)
LEMMA ThreadFrame ==
  ASSUME ThreadMatches, UNCHANGED <<cfg, was, nreloads, exists, cancelled>>,
         pc[Reloader]' = pc[Reloader],
         pc[CdrThread]' = "none" <=> pc[CdrThread] = "none",
         pc[CdrThread]' = "dead" => cancelled
  PROVE  ThreadMatches'
BY DEF ThreadMatches, Deciding, Batching, WasBatching

(* The steps of a load *)
LEMMA LoadStep ==
  ASSUME LoadInv, LoadType', Reload \/ ReloadStep
  PROVE  ThreadMatches'
<1> USE CdrRoles DEF LoadInv, PlaceType
<1>1. CASE Reload
  BY <1>1 DEF Reload, Goto, ThreadMatches, Deciding, Batching, WasBatching,
     thrVars, LoadType
<1>2. CASE ReadConfig
  BY <1>2 DEF ReadConfig, Goto, ThreadMatches, Deciding, Batching, WasBatching,
     thrVars, LoadType
<1>3. CASE Decide
  <2> USE <1>3 DEF ThreadMatches, Deciding, Batching, WasBatching, cfgVars,
     LoadType
  <2>1. CASE TurnedOn /\ ~exists
    <3>1. /\ exists' = TRUE /\ cancelled' = cancelled
          /\ UNCHANGED <<cfg, was, nreloads>>
          /\ pc' = [pc EXCEPT ![Reloader] = "unlock", ![CdrThread] = "plan"]
          /\ pc[Reloader] = "decide" /\ Batching
      BY <2>1 DEF Decide, TurnedOn
    <3>2. pc[Reloader]' = "unlock" /\ pc[CdrThread]' = "plan"
      BY <3>1
    <3>3. exists' /\ ~cancelled' /\ Batching' /\ nreloads' # 0
      BY <3>1
    <3>4. pc[Reloader]' \notin {"add", "assign", "join", "decide"} \cup Deciding
      BY <3>2
    <3> QED
      BY <3>2, <3>3, <3>4 DEF ThreadMatches
  <2>2. CASE ~(TurnedOn /\ ~exists) /\ TurnedOff /\ exists
    <3>1. /\ cancelled' = TRUE /\ exists' = exists
          /\ UNCHANGED <<cfg, was, nreloads>>
          /\ pc' = [pc EXCEPT ![Reloader] = "join"]
          /\ pc[Reloader] = "decide"
      BY <2>2 DEF Decide, Goto
    <3>2. pc[Reloader]' = "join" /\ pc[CdrThread]' = pc[CdrThread]
      BY <3>1
    <3>3. WasBatching /\ ~Batching
      BY <2>2, <3>1 DEF TurnedOff
    <3>4. nreloads > 1
      BY <2>2, <3>1
    <3>5. exists' /\ cancelled' /\ ~Batching' /\ nreloads' > 1 /\ nreloads' # 0
      BY <2>2, <3>1, <3>3, <3>4
    <3>6. pc[CdrThread]' # "none"
      BY <2>2, <3>2
    <3> QED
      BY <3>2, <3>5, <3>6 DEF ThreadMatches
  <2>3. CASE ~(TurnedOn /\ ~exists) /\ ~(TurnedOff /\ exists)
    BY <2>3 DEF Decide, TurnedOn, TurnedOff, Goto
  <2> QED
    BY <2>1, <2>2, <2>3
<1>4. CASE Join
  BY <1>4 DEF Join, Goto, ThreadMatches, Deciding, Batching, WasBatching,
     cfgVars, LoadType
<1>5. CASE UnlockReload
  BY <1>5 DEF UnlockReload, Goto, ThreadMatches, Deciding, Batching, WasBatching,
     thrVars, LoadType
<1>6. CASE Delete(Reloader) \/ Clear(Reloader) \/ AddSubmission(Reloader)
             \/ Assign(Reloader)
  BY <1>6 DEF Delete, Clear, AddSubmission, Assign, Goto, ThreadMatches, Deciding,
     Batching, WasBatching, cfgVars, thrVars, LoadType
<1>7. CASE Submission(Reloader)
  BY <1>7, BackOf DEF Submission, CheckBatch, TakeBatch, PostHere, Spawn, Post,
     Goto, ThreadMatches, Deciding, Batching, WasBatching, cfgVars, thrVars,
     sharedVars, LoadType
<1> QED
  BY <1>1, <1>2, <1>3, <1>4, <1>5, <1>6, <1>7 DEF ReloadStep

LEMMA LoadInvNext == LoadInv /\ [CdrNext]_cdrVars => LoadInv'
<1> SUFFICES ASSUME LoadInv, [CdrNext]_cdrVars PROVE LoadInv'
  OBVIOUS
<1>1. PlaceType' /\ LoadType'
  BY PlaceTypeNext, LoadTypeNext DEF LoadInv
<1>2. ThreadMatches'
  <2> USE CdrRoles DEF LoadInv, cfgVars, thrVars, sharedVars
  <2>1. ASSUME NEW c \in Channels, Detach(c) \/ ChannelStep(c)
        PROVE  ThreadMatches'
    <3>1. pc[Reloader]' = pc[Reloader] /\ pc[CdrThread]' = pc[CdrThread]
      BY <2>1 DEF PlaceType, ChannelStep, Detach, Mode, Enlist, Full, Post,
         Scheduling, Delete, Clear, AddSubmission, Assign, SignalThread, Goto
    <3>2. UNCHANGED <<cfg, was, nreloads, exists, cancelled>>
      BY <2>1 DEF ChannelStep, Detach, Mode, Enlist, Full, Post,
         Scheduling, Delete, Clear, AddSubmission, Assign, SignalThread
    <3> QED
      BY <3>1, <3>2, ThreadFrame DEF ThreadMatches
  <2>2. ASSUME NEW t \in Consoles, CliSubmit(t) \/ Scheduling(t)
        PROVE  ThreadMatches'
    <3>1. pc[Reloader]' = pc[Reloader] /\ pc[CdrThread]' = pc[CdrThread]
      BY <2>2 DEF PlaceType, CliSubmit,
         Scheduling, Delete, Clear, AddSubmission, Assign, SignalThread, Goto
    <3>2. UNCHANGED <<cfg, was, nreloads, exists, cancelled>>
      BY <2>2 DEF CliSubmit,
         Scheduling, Delete, Clear, AddSubmission, Assign, SignalThread
    <3> QED
      BY <3>1, <3>2, ThreadFrame DEF ThreadMatches
  <2>3. ASSUME CdrStep PROVE ThreadMatches'
    <3>1. /\ pc[Reloader]' = pc[Reloader]
          /\ pc[CdrThread] # "none" /\ pc[CdrThread]' # "none"
          /\ pc[CdrThread]' = "dead" => cancelled
      BY <2>3, BackOf DEF PlaceType, CdrStep, Plan, Wait, Wake, Awake, RunEvent,
         EndRunq, CancelInWait, CancelInPost, Submission, CheckBatch, TakeBatch,
         PostHere, Spawn, Post, AddSubmission, Assign, Goto
    <3>2. UNCHANGED <<cfg, was, nreloads, exists, cancelled>>
      BY <2>3 DEF CdrStep, Plan, Wait, Wake, Awake, RunEvent, EndRunq,
         CancelInWait, CancelInPost, Submission, CheckBatch, TakeBatch,
         PostHere, Spawn, Post, AddSubmission, Assign
    <3> QED
      BY <3>1, <3>2, ThreadFrame
  <2>4. ASSUME NEW p \in posters, PosterStep(p) PROVE ThreadMatches'
    BY <2>4 DEF PosterStep, ThreadMatches, Deciding, Batching, WasBatching
  <2>5. ASSUME Reload \/ ReloadStep PROVE ThreadMatches'
    BY <1>1, <2>5, LoadStep
  <2>6. ASSUME Quit \/ QuitCancelled \/ QuitStep PROVE ThreadMatches'
    <3>1. pc[Reloader]' = pc[Reloader] /\ pc[CdrThread]' = pc[CdrThread]
      BY <2>6 DEF PlaceType, Quit, QuitCancelled, QuitStep, AtExit, Exit,
         Terminate, Submission, CheckBatch, TakeBatch, PostHere, Spawn, Post, Goto
    <3>2. UNCHANGED <<cfg, was, nreloads, exists, cancelled>>
      BY <2>6 DEF Quit, QuitCancelled, QuitStep, AtExit, Exit, Submission,
         CheckBatch, TakeBatch, PostHere, Spawn, Post
    <3> QED
      BY <3>1, <3>2, ThreadFrame DEF ThreadMatches
  <2>7. CASE UNCHANGED cdrVars
    BY <2>7 DEF cdrVars, ThreadMatches, Deciding, Batching, WasBatching
  <2> QED
    BY <2>1, <2>2, <2>3, <2>4, <2>5, <2>6, <2>7 DEF CdrNext
<1> QED
  BY <1>1, <1>2 DEF LoadInv

(* Deleting an event, which leaves who did it to add one, and adding one *)
LEMMA SchedulingServed ==
  ASSUME PlaceType, Served, NEW t \in Threads, t # CdrThread,
         \/ Delete(t)
         \/ Clear(t)
         \/ AddSubmission(t)
         \/ Assign(t) \/ SignalThread(t)
  PROVE  Served'
<1> USE DEF PlaceType, Goto
<1>1. CASE Delete(t)
  <2>1. CASE events' = events
    <3>1. pc[t] = "del" /\ \E p : pc' = [pc EXCEPT ![t] = p]
      BY <1>1 DEF Delete
    <3>2. \A u \in Threads : pc[u] \in {"clear", "config", "add"} => pc'[u] = pc[u]
      BY <3>1
    <3>3. pc'[CdrThread] = pc[CdrThread]
      BY <3>1
    <3> QED
      BY <2>1, <3>2, <3>3 DEF Served
  <2>2. CASE events' # events
    <3>1. {e \in events : e.id = cdrsched} # {}
      BY <1>1, <2>2 DEF Delete
    <3>2. pc' = [pc EXCEPT ![t] = "clear"]
      BY <1>1, <3>1 DEF Delete
    <3>3. pc'[t] = "clear"
      BY <3>2
    <3> QED
      BY <3>3 DEF Served
  <2> QED
    BY <2>1, <2>2
<1>2. CASE Clear(t)
  <2>1. pc'[t] \in {"config", "add"}
    BY <1>2 DEF Clear
  <2> QED
    BY <2>1 DEF Served
<1>3. CASE AddSubmission(t)
  <2>1. events' # {}
    BY <1>3 DEF AddSubmission
  <2> QED
    BY <2>1 DEF Served
<1>4. CASE Assign(t) \/ SignalThread(t)
  <2>1. /\ events' = events /\ pc[t] \in {"assign", "signal"}
        /\ \E p : pc' = [pc EXCEPT ![t] = p]
    BY <1>4 DEF Assign, SignalThread, schedVars
  <2>2. pc'[CdrThread] = pc[CdrThread]
        /\ \A u \in Threads : u # t => pc'[u] = pc[u]
    BY <2>1
  <2> QED
    BY <2>1, <2>2 DEF Served
<1> QED
  BY <1>1, <1>2, <1>3, <1>4

(* A step of another thread than those of a load *)
LEMMA ServedFrame ==
  ASSUME ServedInv, Served => Served',
         pc[Reloader]' = pc[Reloader], UNCHANGED <<cfg, was, exists, cancelled>>
  PROVE  ServedInv'
BY DEF ServedInv, Batching, TurnedOff

(* A step of one thread that neither schedules nor stops to, and leaves    *)
(* events where there were some                                            *)
LEMMA ElsewhereServed ==
  ASSUME PlaceType, Served, NEW t \in Threads, t # CdrThread,
         pc[t] \notin {"clear", "config", "add"},
         pc' = pc \/ \E p : pc' = [pc EXCEPT ![t] = p],
         events # {} => events' # {}
  PROVE  Served'
<1>1. \A u \in Threads : u # t => pc'[u] = pc[u]
  BY DEF PlaceType
<1>2. pc'[CdrThread] = pc[CdrThread]
  BY <1>1, CdrRoles
<1> QED
  BY <1>1, <1>2 DEF Served

(* The thread itself, unless it is cancelled *)
LEMMA ThreadServed ==
  ASSUME PlaceType, Served, CdrStep, ~CancelInWait, ~CancelInPost
  PROVE  Served'
<1> USE CdrRoles, BackOf DEF PlaceType, Goto
<1>1. CASE AddSubmission(CdrThread)
  <2>1. events' # {}
    BY <1>1 DEF AddSubmission
  <2> QED
    BY <2>1 DEF Served
<1>2. CASE RunEvent
  <2>1. pc'[CdrThread] = "check"
    BY <1>2 DEF RunEvent
  <2> QED
    BY <2>1 DEF Served
<1>3. CASE Submission(CdrThread)
  <2>1. pc'[CdrThread] \in {"take", "spawn", "post", "add"}
    BY <1>3 DEF Submission, CheckBatch, TakeBatch, PostHere, Spawn, Post
  <2> QED
    BY <2>1 DEF Served
<1>4. CASE Plan \/ Wait \/ Wake \/ EndRunq \/ Assign(CdrThread)
  <2>1. events # {} => events' # {}
    <3>1. CASE Wake
      <4>1. PICK ripe \in SUBSET events : Awake(ripe)
        BY <3>1 DEF Wake
      <4>2. events' = (events \ ripe) \cup {[e EXCEPT !.due = "now"] : e \in ripe}
        BY <4>1 DEF Awake
      <4>3. ASSUME NEW e \in events PROVE events' # {}
        <5>1. CASE e \in ripe
          <6>1. [e EXCEPT !.due = "now"] \in events'
            BY <4>2, <5>1
          <6> QED
            BY <6>1
        <5>2. CASE e \notin ripe
          BY <4>2, <5>2
        <5> QED
          BY <5>1, <5>2
      <4> QED
        BY <4>3
    <3>2. CASE Plan \/ Wait \/ EndRunq \/ Assign(CdrThread)
      BY <3>2 DEF Plan, Wait, EndRunq, Assign, schedVars
    <3> QED
      BY <1>4, <3>1, <3>2
  <2>2. /\ pc[CdrThread] \in {"plan", "lock", "wait", "runq", "assign"}
        /\ \E p : pc' = [pc EXCEPT ![CdrThread] = p]
    BY <1>4 DEF Plan, Wait, Wake, Awake, EndRunq, Assign
  <2>3. \A u \in Threads : u # CdrThread => pc'[u] = pc[u]
    BY <2>2
  <2> QED
    BY <2>1, <2>2, <2>3 DEF Served
<1> QED
  BY <1>1, <1>2, <1>3, <1>4 DEF CdrStep

LEMMA LoadServed ==
  ASSUME LoadInv, LoadInv', ServedInv, Reload \/ ReloadStep
  PROVE  ServedInv'
<1> USE CdrRoles, BackOf DEF LoadInv, PlaceType, Goto
<1>1. CASE Reload
  <2>1. pc[Reloader] = "idle" /\ pc' = [pc EXCEPT ![Reloader] = "del"]
        /\ events' = events /\ UNCHANGED <<exists, cancelled>>
    BY <1>1 DEF Reload, schedVars, thrVars
  <2>2. pc'[Reloader] = "del"
    BY <2>1
  <2>3. Served => Served'
    BY <2>1, ElsewhereServed
  <2> QED
    BY <2>1, <2>2, <2>3 DEF ServedInv
<1>2. CASE ReadConfig
  <2>1. events' = events /\ UNCHANGED <<was, exists, cancelled>>
        /\ pc[Reloader] = "config"
        /\ pc' = [pc EXCEPT ![Reloader] = IF cfg'.enabled /\ cfg'.batchmode THEN "add" ELSE "decide"]
    BY <1>2 DEF ReadConfig, schedVars, thrVars
  <2>2. CASE Batching'
    <3>1. pc'[Reloader] = "add"
      BY <2>1, <2>2 DEF Batching
    <3> QED
      BY <3>1 DEF ServedInv, Served
  <2>3. CASE ~Batching'
    <3>1. pc'[Reloader] = "decide" /\ cfg'.enabled \in BOOLEAN /\ cfg'.batchmode \in BOOLEAN
      BY <2>1, <2>3 DEF Batching, LoadType, Configs
    <3>2. exists => WasBatching
      BY <2>1 DEF ThreadMatches, Deciding
    <3>3. exists' => TurnedOff'
      BY <2>1, <2>3, <3>1, <3>2 DEF Batching, WasBatching, TurnedOff
    <3> QED
      BY <2>3, <3>1, <3>3 DEF ServedInv
  <2> QED
    BY <2>2, <2>3
<1>3. CASE Decide
  <2>1. /\ events' = events /\ UNCHANGED cfg /\ pc[Reloader] = "decide"
        /\ \A u \in Submitters : pc'[u] = pc[u]
    BY <1>3 DEF Decide, schedVars, cfgVars
  <2>2. pc'[Reloader] \in {"unlock", "join"}
    BY <1>3 DEF Decide
  <2>3. CASE TurnedOn /\ ~exists
    <3>1. Batching /\ ~TurnedOff
      BY <2>3 DEF TurnedOn, TurnedOff, Batching
    <3>2. Served
      BY <2>1, <3>1 DEF ServedInv
    <3>3. pc[CdrThread] = "none"
      BY <2>3 DEF ThreadMatches
    <3>4. events # {} \/ \E u \in Threads : u # CdrThread /\ u # Reloader
                            /\ pc[u] \in {"clear", "config", "add"}
      BY <2>1, <3>2, <3>3 DEF Served
    <3>5. pc' = [pc EXCEPT ![Reloader] = "unlock", ![CdrThread] = "plan"]
      BY <1>3, <2>3 DEF Decide
    <3>6. Served'
      BY <2>1, <3>4, <3>5 DEF Served
    <3> QED
      BY <3>6 DEF ServedInv
  <2>4. CASE ~(TurnedOn /\ ~exists) /\ TurnedOff /\ exists
    <3>1. cancelled' = TRUE
      BY <1>3, <2>4 DEF Decide
    <3> QED
      BY <2>2, <3>1 DEF ServedInv
  <2>5. CASE ~(TurnedOn /\ ~exists) /\ ~(TurnedOff /\ exists)
    <3>1. UNCHANGED <<exists, cancelled>> /\ pc' = [pc EXCEPT ![Reloader] = "unlock"]
      BY <1>3, <2>5 DEF Decide
    <3>2. exists' /\ ~cancelled' => Served
      BY <2>1, <2>5, <3>1 DEF ServedInv
    <3>3. Served => Served'
      BY <2>1, <3>1, ElsewhereServed
    <3> QED
      BY <2>2, <3>2, <3>3 DEF ServedInv
  <2> QED
    BY <2>3, <2>4, <2>5
<1>4. CASE Join
  <2>1. ~exists' /\ pc'[Reloader] \in {"check", "unlock"}
    BY <1>4 DEF Join
  <2> QED
    BY <2>1 DEF ServedInv
<1>5. CASE UnlockReload \/ Submission(Reloader)
  <2>1. /\ pc[Reloader] \in {"unlock", "check", "take", "spawn", "post"}
        /\ events' = events /\ UNCHANGED <<exists, cancelled>>
        /\ \E p \in {"unlock", "take", "spawn", "post", "idle"} :
              pc' = [pc EXCEPT ![Reloader] = p]
    BY <1>5 DEF UnlockReload, Submission, CheckBatch, TakeBatch, PostHere, Spawn,
       Post, sharedVars, schedVars, thrVars
  <2>2. Served => Served'
    BY <2>1, ElsewhereServed
  <2> QED
    BY <2>1, <2>2 DEF ServedInv
<1>6. CASE AddSubmission(Reloader)
  <2>1. events' # {}
    BY <1>6 DEF AddSubmission
  <2> QED
    BY <2>1 DEF ServedInv, Served
<1>7. CASE Delete(Reloader) \/ Clear(Reloader) \/ Assign(Reloader)
  <2>1. Served => Served'
    BY <1>7, SchedulingServed
  <2>2. /\ pc[Reloader] \in {"del", "clear", "assign"}
        /\ pc'[Reloader] \in {"del", "clear", "config", "decide"}
        /\ pc[Reloader] # "assign" => pc'[Reloader] # "decide"
        /\ UNCHANGED <<cfg, was, exists, cancelled>>
    BY <1>7 DEF Delete, Clear, Assign, thrVars, cfgVars
  <2>3. Batching' <=> Batching
    BY <2>2 DEF Batching
  <2>4. pc'[Reloader] = "decide" => Batching
    BY <2>2 DEF ThreadMatches
  <2> QED
    BY <2>1, <2>2, <2>3, <2>4 DEF ServedInv
<1> QED
  BY <1>1, <1>2, <1>3, <1>4, <1>5, <1>6, <1>7 DEF ReloadStep

LEMMA ServedInvNext ==
  LoadInv /\ LoadInv' /\ ServedInv /\ [CdrNext]_cdrVars => ServedInv'
<1> SUFFICES ASSUME LoadInv, LoadInv', ServedInv, [CdrNext]_cdrVars
             PROVE  ServedInv'
  OBVIOUS
<1> USE CdrRoles DEF LoadInv, PlaceType, cfgVars, thrVars, sharedVars
<1>1. ASSUME NEW c \in Channels, Detach(c) \/ ChannelStep(c) PROVE ServedInv'
  <2>1. pc[Reloader]' = pc[Reloader] /\ UNCHANGED <<cfg, was, exists, cancelled>>
    BY <1>1 DEF ChannelStep, Detach, Mode, Enlist, Full, Post,
       Scheduling, Delete, Clear, AddSubmission, Assign, SignalThread, Goto
  <2>2. Served => Served'
    <3>1. CASE Scheduling(c)
      BY <3>1, SchedulingServed DEF Scheduling
    <3>2. CASE Detach(c) \/ Mode(c) \/ Enlist(c) \/ Full(c) \/ Post(c)
      <4>1. /\ pc[c] \notin {"clear", "config", "add"}
            /\ pc' = pc \/ \E p : pc' = [pc EXCEPT ![c] = p]
            /\ events' = events
        BY <3>2 DEF Detach, Mode, Enlist, Full, Post, Goto, schedVars
      <4> QED
        BY <4>1, ElsewhereServed
    <3> QED
      BY <1>1, <3>1, <3>2 DEF ChannelStep
  <2> QED
    BY <2>1, <2>2, ServedFrame
<1>2. ASSUME NEW t \in Consoles, CliSubmit(t) \/ Scheduling(t) PROVE ServedInv'
  <2>1. pc[Reloader]' = pc[Reloader] /\ UNCHANGED <<cfg, was, exists, cancelled>>
    BY <1>2 DEF CliSubmit,
       Scheduling, Delete, Clear, AddSubmission, Assign, SignalThread, Goto
  <2>2. Served => Served'
    <3>1. CASE Scheduling(t)
      BY <3>1, SchedulingServed DEF Scheduling
    <3>2. CASE CliSubmit(t)
      <4>1. /\ pc[t] = "idle" /\ pc' = [pc EXCEPT ![t] = "del"]
            /\ events' = events
        BY <3>2 DEF CliSubmit, Goto, schedVars
      <4> QED
        BY <4>1, ElsewhereServed
    <3> QED
      BY <1>2, <3>1, <3>2
  <2> QED
    BY <2>1, <2>2, ServedFrame
<1>3. ASSUME CdrStep PROVE ServedInv'
  <2>1. pc[Reloader]' = pc[Reloader] /\ UNCHANGED <<cfg, was, exists, cancelled>>
    BY <1>3 DEF CdrStep, Plan, Wait, Wake, Awake, RunEvent,
       EndRunq, CancelInWait, CancelInPost, Submission, CheckBatch, TakeBatch,
       PostHere, Spawn, Post, AddSubmission, Assign, Goto
  <2>2. CASE CancelInWait \/ CancelInPost
    <3>1. cancelled
      BY <2>2 DEF CancelInWait, CancelInPost
    <3>2. pc[Reloader] = "join"
      BY <3>1 DEF ThreadMatches
    <3> QED
      BY <2>1, <3>1, <3>2 DEF ServedInv
  <2>3. CASE ~CancelInWait /\ ~CancelInPost
    <3>1. Served => Served'
      BY <1>3, <2>3, ThreadServed
    <3> QED
      BY <2>1, <3>1, ServedFrame
  <2> QED
    BY <2>2, <2>3
<1>4. ASSUME NEW p \in posters, PosterStep(p) PROVE ServedInv'
  BY <1>4 DEF PosterStep, ServedInv, Served, Batching, TurnedOff, schedVars
<1>5. ASSUME Reload \/ ReloadStep PROVE ServedInv'
  BY <1>5, LoadServed
<1>6. ASSUME Quit \/ QuitCancelled \/ QuitStep PROVE ServedInv'
  <2>1. pc[Reloader]' = pc[Reloader] /\ UNCHANGED <<cfg, was, exists, cancelled>>
    BY <1>6 DEF Quit, QuitCancelled, QuitStep, AtExit, Exit, Terminate,
       Submission, CheckBatch, TakeBatch, PostHere, Spawn, Post, Goto
  <2>2. /\ pc[Quitter] \notin {"clear", "config", "add"}
        /\ \E p : pc' = [pc EXCEPT ![Quitter] = p]
        /\ events' = events
    BY <1>6 DEF Quit, QuitCancelled, QuitStep, AtExit, Exit, Terminate,
       Submission, CheckBatch, TakeBatch, PostHere, Spawn, Post, Goto, schedVars
  <2>3. Served => Served'
    BY <2>2, ElsewhereServed
  <2> QED
    BY <2>1, <2>3, ServedFrame
<1>7. CASE UNCHANGED cdrVars
  BY <1>7 DEF cdrVars, schedVars, ServedInv, Served, Batching, TurnedOff
<1> QED
  BY <1>1, <1>2, <1>3, <1>4, <1>5, <1>6, <1>7 DEF CdrNext

(* Whatever a load changes, and whoever deletes whose event, there is a    *)
(* thread when records go to the batch and only then, and while it lives   *)
(* there is an event or somebody who is about to add one.                  *)
THEOREM BatchAlwaysServed == CdrSpec => []BatchServed
<1>1. CdrInit => LoadInv /\ ServedInv
  <2>1. CdrInit => ServedInv
    BY CdrRoles DEF CdrInit, ServedInv
  <2> QED
    BY <2>1, LoadInvInit
<1>2. LoadInv /\ ServedInv /\ [CdrNext]_cdrVars => LoadInv' /\ ServedInv'
  BY LoadInvNext, ServedInvNext
<1>3. LoadInv /\ ServedInv => BatchServed
  BY CdrRoles DEF LoadInv, ThreadMatches, Deciding, Batching, ServedInv, Served,
     BatchServed
<1> QED
  BY <1>1, <1>2, <1>3, PTL DEF CdrSpec

LEMMA FullInvInit == CdrInit => FullInv
BY CdrRoles, CdrConstants DEF CdrInit, FullInv, SizeType, EventShape, Filled,
   Loaded

(* Who has not enlisted, or has, and what the others do to the batch *)
LEMMA ChannelSize ==
  ASSUME LoadInv, SizeType, NEW c \in Channels, Detach(c) \/ ChannelStep(c)
  PROVE  SizeType'
<1> USE CdrRoles DEF LoadInv, PlaceType, Goto
<1>1. Loaded' <=> Loaded
  BY DEF ChannelStep, Detach, Mode, Enlist, Full, Post, Scheduling, Delete,
     Clear, AddSubmission, Assign, SignalThread, Loaded, cfgVars, sharedVars
<1>2. Loaded
  <2>1. CASE Detach(c)
    BY <2>1 DEF Detach
  <2>2. CASE ChannelStep(c)
    <3>1. pc[c] # "idle"
      BY <2>2 DEF ChannelStep, Mode, Enlist, Full, Post, Scheduling, Delete,
         Clear, AddSubmission, Assign, SignalThread
    <3> QED
      BY <3>1 DEF SizeType
  <2> QED
    BY <2>1, <2>2
<1>3. ASSUME UNCHANGED <<batch, size, curr, hand, ndetached>>,
             \E p : /\ pc' = [pc EXCEPT ![c] = p]
                    /\ p \in {"mode", "append"} => pc[c] \in {"mode", "append"}
      PROVE  SizeType'
  <2>1. \A d \in Channels : pc'[d] \in {"mode", "append"} => pc[d] \in {"mode", "append"}
    BY <1>3
  <2> QED
    BY <1>1, <1>2, <1>3, <2>1 DEF SizeType
<1>4. CASE Detach(c)
  <2>1. UNCHANGED <<batch, size, curr>> /\ ndetached' \in Nat
    BY <1>4 DEF Detach, sharedVars, batchVars, SizeType
  <2>2. CASE cfg.enabled
    <3>1. hand' = [hand EXCEPT ![c] = <<ndetached + 1>>]
          /\ pc' = [pc EXCEPT ![c] = "mode"]
      BY <1>4, <2>2 DEF Detach
    <3>2. <<ndetached + 1>> \in Seq(Nat) /\ Len(<<ndetached + 1>>) = 1
      BY DEF SizeType
    <3>3. \A d \in Channels : pc'[d] \in {"mode", "append"} =>
             hand'[d] \in Seq(Nat) /\ Len(hand'[d]) = 1
      BY <3>1, <3>2 DEF SizeType
    <3> QED
      BY <1>1, <1>2, <2>1, <3>1, <3>3 DEF SizeType
  <2>3. CASE ~cfg.enabled
    <3>1. UNCHANGED <<pc, hand>>
      BY <1>4, <2>3 DEF Detach
    <3> QED
      BY <1>1, <1>2, <2>1, <3>1 DEF SizeType
  <2> QED
    BY <2>2, <2>3
<1>5. CASE Mode(c)
  BY <1>3, <1>5 DEF Mode, sharedVars, batchVars, workVars, bookVars
<1>6. CASE Enlist(c)
  <2>1. /\ batch' = batch \o hand[c] /\ size' = size + 1
        /\ curr' = [curr EXCEPT ![c] = size]
        /\ hand' = [hand EXCEPT ![c] = <<>>]
        /\ pc' = [pc EXCEPT ![c] = "full"] /\ pc[c] = "append"
        /\ UNCHANGED ndetached
    BY <1>6 DEF Enlist, bookVars
  <2>2. batch \in Seq(Nat) /\ hand[c] \in Seq(Nat) /\ Len(hand[c]) = 1
        /\ size = Len(batch)
    BY <2>1 DEF SizeType
  <2>3. batch' \in Seq(Nat) /\ Len(batch') = Len(batch) + 1
    <3>1. \A r, s \in Seq(Nat) : r \o s \in Seq(Nat) /\ Len(r \o s) = Len(r) + Len(s)
      OBVIOUS
    <3>2. /\ batch \o hand[c] \in Seq(Nat)
          /\ Len(batch \o hand[c]) = Len(batch) + Len(hand[c])
      BY <2>2, <3>1
    <3> QED
      BY <2>1, <2>2, <3>2
  <2>4. curr' \in [Channels -> Nat]
    BY <2>1, <2>2 DEF SizeType
  <2>5. \A d \in Channels : pc'[d] \in {"mode", "append"} =>
           hand'[d] \in Seq(Nat) /\ Len(hand'[d]) = 1
    BY <2>1 DEF SizeType
  <2> QED
    BY <1>1, <1>2, <2>1, <2>2, <2>3, <2>4, <2>5 DEF SizeType
<1>7. CASE Full(c)
  <2>1. /\ UNCHANGED <<batch, size, hand, ndetached>>
        /\ curr' = [curr EXCEPT ![c] = 0]
        /\ pc' \in {[pc EXCEPT ![c] = "del"], [pc EXCEPT ![c] = "idle"]}
    BY <1>7 DEF Full, sharedVars, batchVars, bookVars
  <2> QED
    BY <1>1, <1>2, <2>1 DEF SizeType
<1>8. CASE Post(c)
  <2>1. /\ UNCHANGED <<batch, size, curr, ndetached>>
        /\ hand' = [hand EXCEPT ![c] = Tail(@)]
        /\ \E p \in {"idle", "post"} : pc' = [pc EXCEPT ![c] = p]
    BY <1>8, BackOf DEF Post, sharedVars, batchVars
  <2> QED
    BY <1>1, <1>2, <2>1 DEF SizeType
<1>9. CASE Scheduling(c)
  BY <1>3, <1>9 DEF Scheduling, Delete, Clear, AddSubmission, Assign, SignalThread,
     batchVars, workVars, bookVars
<1> QED
  BY <1>4, <1>5, <1>6, <1>7, <1>8, <1>9 DEF ChannelStep

LEMMA ElsewhereSize ==
  ASSUME LoadInv, SizeType,
         \/ UNCHANGED <<batch, size>>
         \/ batch' = <<>> /\ size' = 0,
         UNCHANGED <<curr, ndetached>>,
         hand' = hand \/ \E t \in Threads \ Channels : \E s : hand' = [hand EXCEPT ![t] = s],
         \A c \in Channels : pc'[c] = pc[c],
         Loaded \/ (~Loaded => \A t \in Consoles \cup {Quitter} : pc'[t] = pc[t]),
         Loaded => Loaded'
  PROVE  SizeType'
<1>1. batch' \in Seq(Nat) /\ size' = Len(batch')
  <2>1. <<>> \in Seq(Nat) /\ Len(<<>>) = 0
    OBVIOUS
  <2>2. CASE UNCHANGED <<batch, size>>
    BY <2>2 DEF SizeType
  <2>3. CASE batch' = <<>> /\ size' = 0
    BY <2>1, <2>3
  <2> QED
    BY <2>2, <2>3
<1>2. DOMAIN hand' = Threads /\ \A c \in Channels : hand'[c] = hand[c]
  BY CdrRoles DEF SizeType
<1>3. ~Loaded' => /\ batch' = <<>> /\ pc'[Quitter] = "idle"
                  /\ \A t \in Submitters : pc'[t] = "idle"
  BY DEF SizeType, Submitters
<1> QED
  BY <1>1, <1>2, <1>3 DEF SizeType

LEMMA SizeTypeNext ==
  LoadInv /\ LoadInv' /\ SizeType /\ [CdrNext]_cdrVars => SizeType'
<1> SUFFICES ASSUME LoadInv, LoadInv', SizeType, [CdrNext]_cdrVars
             PROVE  SizeType'
  OBVIOUS
<1> USE CdrRoles DEF LoadInv, PlaceType, Goto
<1>1. ASSUME NEW c \in Channels, Detach(c) \/ ChannelStep(c) PROVE SizeType'
  BY <1>1, ChannelSize
<1>2. ASSUME NEW t \in Consoles, CliSubmit(t) \/ Scheduling(t) PROVE SizeType'
  <2>1. /\ UNCHANGED <<batch, size, curr, ndetached, hand, nreloads>>
        /\ \E p : pc' = [pc EXCEPT ![t] = p]
    BY <1>2 DEF CliSubmit, Scheduling, Delete, Clear, AddSubmission, Assign,
       SignalThread, batchVars, workVars, bookVars, sharedVars, cfgVars
  <2>2. Loaded
    <3>1. CASE CliSubmit(t)
      BY <3>1 DEF CliSubmit
    <3>2. CASE Scheduling(t)
      <4>1. pc[t] # "idle"
        BY <3>2 DEF Scheduling, Delete, Clear, AddSubmission, Assign, SignalThread
      <4> QED
        BY <4>1 DEF SizeType
    <3> QED
      BY <1>2, <3>1, <3>2
  <2>3. pc'[Reloader] = pc[Reloader] /\ \A c \in Channels : pc'[c] = pc[c]
    BY <2>1
  <2> QED
    BY <2>1, <2>2, <2>3, ElsewhereSize DEF Loaded
<1>3. ASSUME CdrStep PROVE SizeType'
  <2>1. /\ UNCHANGED <<curr, ndetached, nreloads>>
        /\ \E p : pc' = [pc EXCEPT ![CdrThread] = p]
    BY <1>3 DEF CdrStep, Plan, Wait, Wake, Awake, RunEvent, EndRunq,
       CancelInWait, CancelInPost, Submission, CheckBatch, TakeBatch, PostHere,
       Spawn, Post, AddSubmission, Assign, workVars, bookVars, sharedVars, cfgVars
  <2>2. UNCHANGED <<batch, size>> \/ (batch' = <<>> /\ size' = 0)
    BY <1>3 DEF CdrStep, Plan, Wait, Wake, Awake, RunEvent, EndRunq,
       CancelInWait, CancelInPost, Submission, CheckBatch, TakeBatch, PostHere,
       Spawn, Post, AddSubmission, Assign, batchVars, sharedVars
  <2>3. hand' = hand \/ \E s : hand' = [hand EXCEPT ![CdrThread] = s]
    BY <1>3 DEF CdrStep, Plan, Wait, Wake, Awake, RunEvent, EndRunq,
       CancelInWait, CancelInPost, Submission, CheckBatch, TakeBatch, PostHere,
       Spawn, Post, AddSubmission, Assign, workVars
  <2>4. /\ pc'[Reloader] = pc[Reloader] /\ pc'[Quitter] = pc[Quitter]
        /\ \A c \in Submitters : pc'[c] = pc[c]
    BY <2>1
  <2> QED
    BY <2>1, <2>2, <2>3, <2>4, ElsewhereSize DEF Loaded
<1>4. ASSUME NEW p \in posters, PosterStep(p) PROVE SizeType'
  <2>1. UNCHANGED <<batch, size, curr, ndetached, nreloads, pc, hand>>
    BY <1>4 DEF PosterStep, batchVars, sharedVars, cfgVars
  <2> QED
    BY <2>1, ElsewhereSize DEF Loaded
<1>5. ASSUME Reload \/ ReloadStep PROVE SizeType'
  <2>1. UNCHANGED <<curr, ndetached>>
    BY <1>5 DEF Reload, ReloadStep, ReadConfig, Decide, Join, UnlockReload,
       Delete, Clear, AddSubmission, Assign, Submission, CheckBatch, TakeBatch,
       PostHere, Spawn, Post, workVars, bookVars
  <2>2. UNCHANGED <<batch, size>> \/ (batch' = <<>> /\ size' = 0)
    BY <1>5 DEF Reload, ReloadStep, ReadConfig, Decide, Join, UnlockReload,
       Delete, Clear, AddSubmission, Assign, Submission, CheckBatch, TakeBatch,
       PostHere, Spawn, Post, batchVars, sharedVars
  <2>3. hand' = hand \/ \E s : hand' = [hand EXCEPT ![Reloader] = s]
    BY <1>5 DEF Reload, ReloadStep, ReadConfig, Decide, Join, UnlockReload,
       Delete, Clear, AddSubmission, Assign, Submission, CheckBatch, TakeBatch,
       PostHere, Spawn, Post, workVars
  <2>4. /\ pc'[Quitter] = pc[Quitter]
        /\ \A c \in Submitters : pc'[c] = pc[c]
    <3>1. \/ \E p : pc' = [pc EXCEPT ![Reloader] = p]
          \/ \E p, q : pc' = [pc EXCEPT ![Reloader] = p, ![CdrThread] = q]
          \/ \E p, q : pc' = [pc EXCEPT ![CdrThread] = q, ![Reloader] = p]
      BY <1>5 DEF Reload, ReloadStep, ReadConfig, Decide, Join, UnlockReload,
         Delete, Clear, AddSubmission, Assign, Submission, CheckBatch, TakeBatch,
         PostHere, Spawn, Post
    <3> QED
      BY <3>1
  <2>5. Loaded => Loaded'
    <3>1. CASE Reload
      <4>1. nreloads' = nreloads + 1
        BY <3>1 DEF Reload
      <4> QED
        BY <4>1 DEF Loaded, LoadType
    <3>2. CASE ReloadStep
      <4>1. nreloads' = nreloads /\ pc[Reloader] # "idle"
        BY <3>2 DEF ReloadStep, ReadConfig, Decide, Join, UnlockReload,
           Delete, Clear, AddSubmission, Assign, Submission, CheckBatch, TakeBatch,
           PostHere, Spawn, Post, cfgVars, sharedVars
      <4> QED
        BY <4>1 DEF Loaded
    <3> QED
      BY <1>5, <3>1, <3>2
  <2> QED
    BY <2>1, <2>2, <2>3, <2>4, <2>5, ElsewhereSize
<1>6. ASSUME Quit \/ QuitCancelled \/ QuitStep PROVE SizeType'
  <2>1. /\ UNCHANGED <<curr, ndetached, nreloads>>
        /\ \E p : pc' = [pc EXCEPT ![Quitter] = p]
    BY <1>6 DEF Quit, QuitCancelled, QuitStep, AtExit, Exit, Terminate,
       Submission, CheckBatch, TakeBatch, PostHere, Spawn, Post, workVars,
       bookVars, sharedVars, cfgVars
  <2>2. UNCHANGED <<batch, size>> \/ (batch' = <<>> /\ size' = 0)
    BY <1>6 DEF Quit, QuitCancelled, QuitStep, AtExit, Exit,
       Submission, CheckBatch, TakeBatch, PostHere, Spawn, Post, batchVars,
       sharedVars
  <2>3. hand' = hand \/ \E s : hand' = [hand EXCEPT ![Quitter] = s]
    BY <1>6 DEF Quit, QuitCancelled, QuitStep, AtExit, Exit,
       Submission, CheckBatch, TakeBatch, PostHere, Spawn, Post, workVars
  <2>4. Loaded
    <3>1. CASE Quit
      BY <3>1 DEF Quit
    <3>2. CASE QuitCancelled \/ QuitStep
      <4>1. pc[Quitter] # "idle"
        BY <3>2 DEF QuitCancelled, QuitStep, AtExit, Exit,
           Submission, CheckBatch, TakeBatch, PostHere, Spawn, Post
      <4> QED
        BY <4>1 DEF SizeType
    <3> QED
      BY <1>6, <3>1, <3>2
  <2>5. /\ pc'[Reloader] = pc[Reloader]
        /\ \A c \in Channels : pc'[c] = pc[c]
    BY <2>1
  <2> QED
    BY <2>1, <2>2, <2>3, <2>4, <2>5, ElsewhereSize DEF Loaded
<1>7. CASE UNCHANGED cdrVars
  <2>1. UNCHANGED <<batch, size, curr, ndetached, nreloads, pc, hand>>
    BY <1>7 DEF cdrVars, batchVars, sharedVars, cfgVars, workVars, bookVars
  <2> QED
    BY <2>1, ElsewhereSize DEF Loaded
<1> QED
  BY <1>1, <1>2, <1>3, <1>4, <1>5, <1>6, <1>7 DEF CdrNext

(* Scheduling leaves an event to run soon, or somebody who will add one. *)
LEMMA SchedulingAnnounced ==
  ASSUME PlaceType, Announced, NEW t \in Submitters, Scheduling(t),
         UNCHANGED <<cfg, curr>>
  PROVE  Announced'
<1> USE CdrRoles DEF PlaceType, Goto
<1>1. CASE Delete(t)
  <2>1. CASE events' = events
    <3>1. /\ pc[t] = "del" /\ pc'[t] \in {"del", "clear"}
      BY <1>1 DEF Delete
    <3> QED
      BY <3>1 DEF Announced
  <2>2. CASE events' # events
    <3>1. {e \in events : e.id = cdrsched} # {}
      BY <1>1, <2>2 DEF Delete
    <3>2. pc'[t] = "clear"
      BY <1>1, <3>1 DEF Delete
    <3> QED
      BY <3>2 DEF Announced
  <2> QED
    BY <2>1, <2>2
<1>2. CASE Clear(t)
  <2>1. pc'[t] = "add"
    BY <1>2 DEF Clear
  <2> QED
    BY <2>1 DEF Announced
<1>3. CASE AddSubmission(t)
  <2>1. [id |-> FreshId, due |-> "soon"] \in events'
    BY <1>3 DEF AddSubmission
  <2>2. \E e \in events' : e.due \in {"soon", "now"}
    BY <2>1
  <2> QED
    BY <2>2 DEF Announced
<1>4. CASE Assign(t) \/ SignalThread(t)
  <2>1. /\ events' = events /\ pc[t] \in {"assign", "signal"}
        /\ \E p : pc' = [pc EXCEPT ![t] = p]
    BY <1>4 DEF Assign, SignalThread, schedVars
  <2>2. pc'[CdrThread] = pc[CdrThread]
        /\ \A u \in Threads : u # t => pc'[u] = pc[u]
    BY <2>1
  <2> QED
    BY <2>1, <2>2 DEF Announced
<1> QED
  BY <1>1, <1>2, <1>3, <1>4 DEF Scheduling

(* Others do not take an announcement back. *)
LEMMA ElsewhereAnnounced ==
  ASSUME PlaceType, Announced, NEW t \in Threads,
         t # CdrThread, pc[t] \notin {"full", "del", "clear", "add"},
         pc' = pc \/ \E p : pc' = [pc EXCEPT ![t] = p],
         UNCHANGED <<cfg, events, curr>>
  PROVE  Announced'
<1>1. \A u \in Threads : u # t => pc'[u] = pc[u]
  BY DEF PlaceType
<1>2. pc'[CdrThread] = pc[CdrThread]
  BY <1>1, CdrRoles
<1> QED
  BY <1>1, <1>2, CdrRoles DEF Announced

(* What is due when the thread wakes is run. *)
LEMMA ThreadAnnounced ==
  ASSUME PlaceType, EventShape, Announced, CdrStep, ~cancelled,
         batch' # <<>>, UNCHANGED batch
  PROVE  Announced'
<1> USE CdrRoles, BackOf DEF PlaceType, Goto
<1>1. /\ \A u \in Submitters : pc'[u] = pc[u]
      /\ UNCHANGED <<cfg, curr>>
  <2>1. \E p : pc' = [pc EXCEPT ![CdrThread] = p]
    BY DEF CdrStep, Plan, Wait, Wake, Awake, RunEvent, EndRunq,
       CancelInWait, CancelInPost, Submission, CheckBatch, TakeBatch, PostHere,
       Spawn, Post, AddSubmission, Assign
  <2>2. UNCHANGED <<cfg, curr>>
    BY DEF CdrStep, Plan, Wait, Wake, Awake, RunEvent, EndRunq,
       CancelInWait, CancelInPost, Submission, CheckBatch, TakeBatch, PostHere,
       Spawn, Post, AddSubmission, Assign, workVars, sharedVars, cfgVars
  <2> QED
    BY <2>1, <2>2
<1>2. CASE RunEvent
  <2>1. pc'[CdrThread] = "check"
    BY <1>2 DEF RunEvent
  <2> QED
    BY <2>1 DEF Announced
<1>3. CASE CheckBatch(CdrThread)
  <2>1. pc'[CdrThread] = "take"
    BY <1>3 DEF CheckBatch
  <2> QED
    BY <2>1 DEF Announced
<1>4. CASE TakeBatch(CdrThread)
  BY <1>4 DEF TakeBatch
<1>5. CASE CancelInWait \/ CancelInPost
  BY <1>5 DEF CancelInWait, CancelInPost
<1>6. CASE \/ Plan \/ Wait \/ Wake \/ EndRunq \/ PostHere(CdrThread)
           \/ Spawn(CdrThread) \/ Post(CdrThread) \/ AddSubmission(CdrThread)
           \/ Assign(CdrThread)
  <2>1. pc[CdrThread] \notin {"check", "take"}
    BY <1>6 DEF Plan, Wait, Wake, Awake, EndRunq, PostHere, Spawn, Post,
       AddSubmission, Assign
  <2>2. ASSUME NEW e \in events, e.due \in {"soon", "now"}
        PROVE  \E f \in events' : f.due \in {"soon", "now"}
    <3>1. CASE Wake
      <4>1. PICK ripe \in SUBSET events : Awake(ripe)
        BY <3>1 DEF Wake
      <4>2. events' = (events \ ripe) \cup {[f EXCEPT !.due = "now"] : f \in ripe}
        BY <4>1 DEF Awake
      <4>3. CASE e \in ripe
        <5>1. [e EXCEPT !.due = "now"] \in events'
          BY <4>2, <4>3
        <5>2. e = [id |-> e.id, due |-> e.due]
          BY DEF EventShape
        <5>3. [e EXCEPT !.due = "now"].due = "now"
          BY <5>2
        <5> QED
          BY <5>1, <5>3
      <4>4. CASE e \notin ripe
        BY <2>2, <4>2, <4>4
      <4> QED
        BY <4>3, <4>4
    <3>2. CASE AddSubmission(CdrThread)
      <4>1. e \in events'
        BY <3>2 DEF AddSubmission
      <4> QED
        BY <2>2, <4>1
    <3>3. CASE \/ Plan \/ Wait \/ EndRunq \/ PostHere(CdrThread)
               \/ Spawn(CdrThread) \/ Post(CdrThread) \/ Assign(CdrThread)
      <4>1. events' = events
        BY <3>3 DEF Plan, Wait, EndRunq, PostHere, Spawn, Post, Assign,
           schedVars, sharedVars
      <4> QED
        BY <2>2, <4>1
    <3> QED
      BY <1>6, <3>1, <3>2, <3>3
  <2> QED
    BY <1>1, <2>1, <2>2 DEF Announced
<1> QED
  BY <1>2, <1>3, <1>4, <1>5, <1>6 DEF CdrStep, Submission

LEMMA EventShapeNext == EventShape /\ [CdrNext]_cdrVars => EventShape'
<1> SUFFICES ASSUME EventShape, [CdrNext]_cdrVars PROVE EventShape'
  OBVIOUS
<1>1. ASSUME NEW t, Delete(t) PROVE EventShape'
  <2>1. events' \subseteq events
    BY <1>1 DEF Delete
  <2> QED
    BY <2>1 DEF EventShape
<1>2. ASSUME NEW t, AddSubmission(t) PROVE EventShape'
  <2>1. PICK i, d : events' = events \cup {[id |-> i, due |-> d]}
    BY <1>2 DEF AddSubmission
  <2> QED
    BY <2>1 DEF EventShape
<1>3. CASE Wake
  <2>1. PICK ripe \in SUBSET events : Awake(ripe)
    BY <1>3 DEF Wake
  <2>2. events' = (events \ ripe) \cup {[f EXCEPT !.due = "now"] : f \in ripe}
    BY <2>1 DEF Awake
  <2>3. ASSUME NEW e \in ripe
        PROVE  [e EXCEPT !.due = "now"] = [id |-> e.id, due |-> "now"]
    <3>1. e = [id |-> e.id, due |-> e.due]
      BY DEF EventShape
    <3> QED
      BY <3>1
  <2>4. ASSUME NEW e \in events' PROVE e = [id |-> e.id, due |-> e.due]
    <3>1. CASE e \in events
      BY <3>1 DEF EventShape
    <3>2. CASE e \notin events
      <4>1. PICK f \in ripe : e = [f EXCEPT !.due = "now"]
        BY <2>2, <3>2
      <4>2. e = [id |-> f.id, due |-> "now"]
        BY <2>3, <4>1
      <4> QED
        BY <4>2
    <3> QED
      BY <3>1, <3>2
  <2> QED
    BY <2>4 DEF EventShape
<1>4. CASE CancelInPost
  <2>1. events' = {[f EXCEPT !.due = IF @ = "now" THEN "soon" ELSE @] : f \in events}
    BY <1>4 DEF CancelInPost
  <2>2. ASSUME NEW e \in events' PROVE e = [id |-> e.id, due |-> e.due]
    <3>1. PICK f \in events :
            e = [f EXCEPT !.due = IF f.due = "now" THEN "soon" ELSE f.due]
      BY <2>1
    <3>2. f = [id |-> f.id, due |-> f.due]
      BY DEF EventShape
    <3>3. e = [id |-> f.id, due |-> IF f.due = "now" THEN "soon" ELSE f.due]
      BY <3>1, <3>2
    <3> QED
      BY <3>3
  <2> QED
    BY <2>2 DEF EventShape
<1>5. CASE RunEvent
  <2>1. events' \subseteq events
    BY <1>5 DEF RunEvent
  <2> QED
    BY <2>1 DEF EventShape
<1>6. ASSUME events' = events PROVE EventShape'
  BY <1>6 DEF EventShape
<1> USE DEF schedVars, sharedVars
<1>7. ASSUME NEW t, Clear(t) \/ Assign(t) \/ SignalThread(t) \/ Submission(t)
      PROVE  events' = events
  BY <1>7 DEF Clear, Assign, SignalThread, Submission, CheckBatch, TakeBatch,
     PostHere, Spawn, Post
<1>8. ASSUME NEW t, Scheduling(t) PROVE EventShape'
  BY <1>1, <1>2, <1>6, <1>7, <1>8 DEF Scheduling
<1>9. ASSUME NEW c \in Channels, Detach(c) \/ ChannelStep(c) PROVE EventShape'
  <2>1. CASE Detach(c) \/ Mode(c) \/ Enlist(c) \/ Full(c) \/ Post(c)
    <3>1. events' = events
      BY <2>1 DEF Detach, Mode, Enlist, Full, Post
    <3> QED
      BY <1>6, <3>1
  <2> QED
    BY <1>8, <1>9, <2>1 DEF ChannelStep
<1>10. ASSUME CdrStep PROVE EventShape'
  <2>1. CASE Plan \/ Wait \/ EndRunq \/ CancelInWait
    <3>1. events' = events
      BY <2>1 DEF Plan, Wait, EndRunq, CancelInWait
    <3> QED
      BY <1>6, <3>1
  <2> QED
    BY <1>2, <1>3, <1>4, <1>5, <1>6, <1>7, <1>10, <2>1 DEF CdrStep
<1>11. ASSUME ReloadStep PROVE EventShape'
  <2>1. CASE ReadConfig \/ Decide \/ Join \/ UnlockReload
    <3>1. events' = events
      BY <2>1 DEF ReadConfig, Decide, Join, UnlockReload
    <3> QED
      BY <1>6, <3>1
  <2> QED
    BY <1>1, <1>2, <1>6, <1>7, <1>11, <2>1 DEF ReloadStep
<1>12. ASSUME NEW t \in Consoles, CliSubmit(t) PROVE events' = events
  BY <1>12 DEF CliSubmit
<1>13. ASSUME NEW p \in posters, PosterStep(p) PROVE events' = events
  BY <1>13 DEF PosterStep
<1>14. ASSUME Reload \/ Quit \/ QuitCancelled \/ AtExit \/ Exit PROVE events' = events
  BY <1>14 DEF Reload, Quit, QuitCancelled, AtExit, Exit
<1>15. ASSUME QuitStep PROVE events' = events
  BY <1>7, <1>14, <1>15 DEF QuitStep
<1>16. CASE UNCHANGED cdrVars
  BY <1>6, <1>16 DEF cdrVars
<1> QED
  BY <1>6, <1>8, <1>9, <1>10, <1>11, <1>12, <1>13, <1>14, <1>15, <1>16 DEF CdrNext

(* The channel that fills the batch knows. *)
LEMMA EnlistAnnounced ==
  ASSUME LoadInv, SizeType, NEW c \in Channels, Enlist(c), Filled'
  PROVE  Announced'
<1> USE CdrRoles DEF LoadInv, PlaceType, Goto
<1>1. /\ curr' = [curr EXCEPT ![c] = size] /\ pc' = [pc EXCEPT ![c] = "full"]
      /\ size' = size + 1 /\ UNCHANGED cfg
  BY DEF Enlist, cfgVars
<1>2. pc'[c] = "full" /\ curr'[c] = size
  BY <1>1 DEF SizeType
<1>3. size' = Len(batch') /\ Len(batch') \in Nat
  <2>1. SizeType'
    BY ChannelSize DEF ChannelStep
  <2> QED
    BY <2>1 DEF SizeType
<1>4. size \in Nat /\ cfg.size \in Nat
  BY DEF SizeType, LoadType, Configs
<1>5. curr'[c] >= cfg'.size - 1
  <2>1. Len(batch') >= cfg'.size
    BY DEF Filled
  <2> QED
    BY <1>1, <1>2, <1>3, <1>4, <2>1
<1> QED
  BY <1>2, <1>5 DEF Announced

(* The channel that knows the batch is full goes to schedule. *)
LEMMA FullAnnounced ==
  ASSUME LoadInv, SizeType, Announced, NEW c \in Channels, Full(c)
  PROVE  Announced'
<1> USE CdrRoles DEF LoadInv, PlaceType, Goto
<1>1. /\ UNCHANGED <<cfg, events>> /\ pc[c] = "full"
      /\ curr' = [curr EXCEPT ![c] = 0]
      /\ pc' = [pc EXCEPT ![c] = IF curr[c] >= cfg.size - 1 THEN "del" ELSE "idle"]
  BY DEF Full, sharedVars, cfgVars, schedVars
<1>2. CASE curr[c] >= cfg.size - 1
  <2>1. pc'[c] = "del"
    BY <1>1, <1>2
  <2> QED
    BY <2>1 DEF Announced
<1>3. CASE ~(curr[c] >= cfg.size - 1)
  <2>1. /\ \A u \in Threads : u # c => pc'[u] = pc[u]
        /\ \A d \in Channels : d # c => curr'[d] = curr[d]
    BY <1>1 DEF SizeType
  <2>2. pc'[CdrThread] = pc[CdrThread]
    BY <2>1
  <2> QED
    BY <1>1, <1>3, <2>1, <2>2 DEF Announced
<1> QED
  BY <1>2, <1>3

LEMMA FullInvNext ==
  LoadInv /\ LoadInv' /\ FullInv /\ [CdrNext]_cdrVars => FullInv'
<1> SUFFICES ASSUME LoadInv, LoadInv', FullInv, [CdrNext]_cdrVars PROVE FullInv'
  OBVIOUS
<1>1. SizeType' /\ EventShape'
  BY SizeTypeNext, EventShapeNext DEF FullInv
<1>2. Filled' => Announced'
  <2> SUFFICES ASSUME Filled' PROVE Announced'
    OBVIOUS
  <2> USE CdrRoles DEF LoadInv, PlaceType, Goto, FullInv
  <2> USE DEF cfgVars, sharedVars
  <2>1. ASSUME NEW c \in Channels, Detach(c) \/ ChannelStep(c) PROVE Announced'
    <3>1. CASE Enlist(c)
      BY <3>1, EnlistAnnounced
    <3>2. CASE ~Enlist(c)
      <4>1. UNCHANGED <<cfg, nreloads, batch>> /\ pc'[Reloader] = pc[Reloader]
        BY <2>1, <3>2 DEF ChannelStep, Detach, Mode, Full, Post, Scheduling,
           Delete, Clear, AddSubmission, Assign, SignalThread, batchVars
      <4>2. Announced
        BY <4>1 DEF Filled, Loaded
      <4>3. CASE Full(c)
        BY <4>2, <4>3, FullAnnounced
      <4>4. CASE Scheduling(c)
        <5>1. UNCHANGED curr
          BY <4>4 DEF Scheduling, Delete, Clear, AddSubmission, Assign, SignalThread,
             workVars
        <5> QED
          BY <4>1, <4>2, <4>4, <5>1, SchedulingAnnounced
      <4>5. CASE Detach(c) \/ Mode(c) \/ Post(c)
        <5>1. /\ pc[c] \notin {"full", "del", "clear", "add"}
              /\ pc' = pc \/ \E p : pc' = [pc EXCEPT ![c] = p]
              /\ UNCHANGED <<events, curr>>
          BY <4>5 DEF Detach, Mode, Post, schedVars, workVars
        <5> QED
          BY <4>1, <4>2, <5>1, ElsewhereAnnounced
      <4> QED
        BY <2>1, <3>2, <4>3, <4>4, <4>5 DEF ChannelStep
    <3> QED
      BY <3>1, <3>2
  <2>2. ASSUME NEW t \in Consoles, CliSubmit(t) \/ Scheduling(t) PROVE Announced'
    <3>1. UNCHANGED <<cfg, nreloads, batch, curr>> /\ pc'[Reloader] = pc[Reloader]
      BY <2>2 DEF CliSubmit, Scheduling, Delete, Clear, AddSubmission, Assign,
         SignalThread, batchVars, workVars
    <3>2. Announced
      BY <3>1 DEF Filled, Loaded
    <3>3. CASE Scheduling(t)
      BY <3>1, <3>2, <3>3, SchedulingAnnounced
    <3>4. CASE CliSubmit(t)
      <4>1. /\ pc[t] = "idle" /\ pc' = [pc EXCEPT ![t] = "del"]
            /\ UNCHANGED events
        BY <3>4 DEF CliSubmit, schedVars
      <4> QED
        BY <3>1, <3>2, <4>1, ElsewhereAnnounced
    <3> QED
      BY <2>2, <3>3, <3>4
  <2>3. ASSUME CdrStep PROVE Announced'
    <3>1. UNCHANGED <<cfg, nreloads>> /\ pc'[Reloader] = pc[Reloader]
      BY <2>3 DEF CdrStep, Plan, Wait, Wake, Awake, RunEvent, EndRunq,
         CancelInWait, CancelInPost, Submission, CheckBatch, TakeBatch,
         PostHere, Spawn, Post, AddSubmission, Assign
    <3>2. batch' # <<>>
      BY DEF Filled
    <3>3. UNCHANGED batch
      BY <2>3, <3>2 DEF CdrStep, Plan, Wait, Wake, Awake, RunEvent, EndRunq,
         CancelInWait, CancelInPost, Submission, CheckBatch, TakeBatch,
         PostHere, Spawn, Post, AddSubmission, Assign, batchVars
    <3>4. Announced
      BY <3>1, <3>3 DEF Filled, Loaded
    <3>5. ~cancelled
      BY <3>1 DEF Filled, ThreadMatches
    <3> QED
      BY <2>3, <3>2, <3>3, <3>4, <3>5, ThreadAnnounced
  <2>4. ASSUME NEW p \in posters, PosterStep(p) PROVE Announced'
    <3>1. UNCHANGED <<cfg, nreloads, batch, pc, events, curr>>
      BY <2>4 DEF PosterStep, batchVars, schedVars
    <3>2. Announced
      BY <3>1 DEF Filled, Loaded
    <3> QED
      BY <3>1, <3>2 DEF Announced
  <2>5. ASSUME Reload \/ ReloadStep PROVE FALSE
    <3>1. CASE Reload
      <4>1. pc'[Reloader] = "del" /\ nreloads' = nreloads + 1
        BY <3>1 DEF Reload
      <4> QED
        BY <4>1 DEF Filled, Loaded
    <3>2. CASE ReloadStep
      <4>1. /\ UNCHANGED nreloads /\ pc[Reloader] # "idle"
            /\ batch' \in {batch, <<>>}
        BY <3>2 DEF ReloadStep, ReadConfig, Decide, Join, UnlockReload,
           Delete, Clear, AddSubmission, Assign, Submission, CheckBatch, TakeBatch,
           PostHere, Spawn, Post, batchVars
      <4>2. ~Loaded
        BY <4>1 DEF Filled, Loaded
      <4>3. batch' = <<>>
        BY <4>1, <4>2 DEF SizeType
      <4> QED
        BY <4>3 DEF Filled
    <3> QED
      BY <2>5, <3>1, <3>2
  <2>6. ASSUME Quit \/ QuitCancelled \/ QuitStep PROVE Announced'
    <3>1. /\ UNCHANGED <<cfg, nreloads, curr, events>>
          /\ pc[Quitter] \notin {"full", "del", "clear", "add"}
          /\ \E p : pc' = [pc EXCEPT ![Quitter] = p]
      BY <2>6 DEF Quit, QuitCancelled, QuitStep, AtExit, Exit, Terminate,
         Submission, CheckBatch, TakeBatch, PostHere, Spawn, Post, workVars,
         schedVars
    <3>2. batch' # <<>>
      BY DEF Filled
    <3>3. UNCHANGED batch
      BY <2>6, <3>2 DEF Quit, QuitCancelled, QuitStep, AtExit, Exit,
         Submission, CheckBatch, TakeBatch, PostHere, Spawn, Post, batchVars
    <3>4. pc'[Reloader] = pc[Reloader]
      BY <3>1
    <3>5. Announced
      BY <3>1, <3>3, <3>4 DEF Filled, Loaded
    <3> QED
      BY <3>1, <3>5, ElsewhereAnnounced
  <2>7. CASE UNCHANGED cdrVars
    BY <2>7 DEF cdrVars, batchVars, schedVars, workVars, Filled, Loaded, Announced
  <2> QED
    BY <2>1, <2>2, <2>3, <2>4, <2>5, <2>6, <2>7 DEF CdrNext
<1> QED
  BY <1>1, <1>2 DEF FullInv

(* As long as no later load deletes it, a full batch has an event that is  *)
(* to run at once, or somebody is about to add one or to take the batch:   *)
(* the channel that filled it sees so in the size it had before, whatever  *)
(* other channels, the CLI command and the thread do to batch and event.   *)
THEOREM FullBatchIsAnnounced == CdrSpec => []FullBatchAnnounced
<1>1. CdrInit => LoadInv /\ FullInv
  BY LoadInvInit, FullInvInit
<1>2. LoadInv /\ FullInv /\ [CdrNext]_cdrVars => LoadInv' /\ FullInv'
  BY LoadInvNext, FullInvNext
<1>3. FullInv => FullBatchAnnounced
  BY CdrRoles DEF FullInv, Filled, Announced, FullBatchAnnounced
<1> QED
  BY <1>1, <1>2, <1>3, PTL DEF CdrSpec

-----------------------------------------------------------------------------
(* Lists of records *)

LEMMA EmptyList ==
  /\ ToSet(<<>>) = {} /\ Distinct(<<>>)
  /\ \A S : <<>> \in Seq(S)
  /\ \A n : ToSet(<<n>>) = {n} /\ Distinct(<<n>>)
BY DEF ToSet, Distinct

LEMMA HeadAndTail ==
  ASSUME NEW S, NEW s \in Seq(S), s # <<>>, Distinct(s)
  PROVE  /\ Head(s) \in S /\ Head(s) \in ToSet(s)
         /\ Tail(s) \in Seq(S) /\ Distinct(Tail(s))
         /\ ToSet(Tail(s)) = ToSet(s) \ {Head(s)}
         /\ Len(s) = 1 <=> Tail(s) = <<>>
<1>1. /\ Len(s) \in Nat \ {0} /\ DOMAIN s = 1 .. Len(s)
      /\ Head(s) = s[1] /\ 1 \in DOMAIN s
  OBVIOUS
<1>2. /\ Tail(s) \in Seq(S) /\ Len(Tail(s)) = Len(s) - 1
      /\ DOMAIN Tail(s) = 1 .. Len(s) - 1
      /\ \A i \in 1 .. Len(s) - 1 : Tail(s)[i] = s[i + 1]
  OBVIOUS
<1>3. Distinct(Tail(s))
  BY <1>1, <1>2 DEF Distinct
<1>4. ToSet(Tail(s)) = ToSet(s) \ {Head(s)}
  <2>1. ASSUME NEW i \in DOMAIN Tail(s)
        PROVE  Tail(s)[i] \in ToSet(s) /\ Tail(s)[i] # Head(s)
    BY <1>1, <1>2 DEF Distinct, ToSet
  <2>2. ASSUME NEW i \in DOMAIN s, s[i] # Head(s)
        PROVE  s[i] \in ToSet(Tail(s))
    <3>1. i - 1 \in DOMAIN Tail(s) /\ Tail(s)[i - 1] = s[i]
      BY <1>1, <1>2, <2>2
    <3> QED
      BY <3>1 DEF ToSet
  <2> QED
    BY <2>1, <2>2 DEF ToSet
<1>5. Len(s) = 1 <=> Tail(s) = <<>>
  <2>1. \A r \in Seq(S) : r = <<>> <=> Len(r) = 0
    OBVIOUS
  <2>2. Tail(s) = <<>> <=> Len(Tail(s)) = 0
    BY <1>2, <2>1
  <2> QED
    BY <1>1, <1>2, <2>2
<1>6. Head(s) \in S /\ Head(s) \in ToSet(s)
  BY <1>1 DEF ToSet
<1> QED
  BY <1>2, <1>3, <1>4, <1>5, <1>6

LEMMA OneAppended ==
  ASSUME NEW S, NEW s \in Seq(S), NEW h \in Seq(S), Len(h) = 1,
         Distinct(s), ToSet(s) \cap ToSet(h) = {}
  PROVE  /\ s \o h \in Seq(S) /\ Distinct(s \o h)
         /\ ToSet(s \o h) = ToSet(s) \cup ToSet(h)
<1> DEFINE j == Len(s) + 1
<1>1. \A r, q \in Seq(S) :
         /\ r \o q \in Seq(S) /\ Len(r \o q) = Len(r) + Len(q)
         /\ \A i \in 1 .. Len(r) + Len(q) :
               (r \o q)[i] = IF i <= Len(r) THEN r[i] ELSE q[i - Len(r)]
  OBVIOUS
<1>2. \A r \in Seq(S) : Len(r) \in Nat /\ DOMAIN r = 1 .. Len(r)
  OBVIOUS
<1>3. /\ s \o h \in Seq(S) /\ Len(s \o h) = Len(s) + 1
      /\ \A i \in 1 .. Len(s) + 1 :
            (s \o h)[i] = IF i <= Len(s) THEN s[i] ELSE h[i - Len(s)]
  BY <1>1
<1>4. Len(s) \in Nat /\ DOMAIN s = 1 .. Len(s) /\ DOMAIN h = 1 .. 1
      /\ DOMAIN (s \o h) = 1 .. Len(s) + 1
  BY <1>2, <1>3
<1>5. (s \o h)[j] = h[1]
  <2>1. j \in 1 .. Len(s) + 1 /\ ~(j <= Len(s)) /\ j - Len(s) = 1
    BY <1>4
  <2> QED
    BY <1>3, <2>1
<1>6. /\ s \o h \in Seq(S) /\ DOMAIN (s \o h) = 1 .. Len(s) + 1
      /\ Len(s) \in Nat /\ DOMAIN s = 1 .. Len(s)
      /\ \A i \in 1 .. Len(s) : (s \o h)[i] = s[i]
      /\ (s \o h)[Len(s) + 1] = h[1] /\ DOMAIN h = {1}
  BY <1>3, <1>4, <1>5
<1>7. ToSet(h) = {h[1]}
  BY <1>6 DEF ToSet
<1>8. \A i \in DOMAIN s : s[i] # h[1]
  BY <1>7 DEF ToSet
<1>9. Distinct(s \o h)
  BY <1>6, <1>8 DEF Distinct
<1>10. ToSet(s \o h) = ToSet(s) \cup {h[1]}
  <2>1. ASSUME NEW i \in DOMAIN (s \o h) PROVE (s \o h)[i] \in ToSet(s) \cup {h[1]}
    BY <1>6 DEF ToSet
  <2>2. ASSUME NEW i \in DOMAIN s PROVE s[i] \in ToSet(s \o h)
    <3>1. i \in DOMAIN (s \o h) /\ (s \o h)[i] = s[i]
      BY <1>6
    <3> QED
      BY <3>1 DEF ToSet
  <2>3. h[1] \in ToSet(s \o h)
    BY <1>6 DEF ToSet
  <2> QED
    BY <2>1, <2>2, <2>3 DEF ToSet
<1> QED
  BY <1>6, <1>7, <1>9, <1>10

(* What there is in a list is of its type. *)
LEMMA ListedIn ==
  ASSUME NEW S, NEW s \in Seq(S)
  PROVE  ToSet(s) \subseteq S /\ (s # <<>> => ToSet(s) # {})
BY DEF ToSet

-----------------------------------------------------------------------------
(* Where the records are *)

Holding == {"mode", "append", "spawn", "post"}

LEMMA RecordInvInit == CdrInit => RecordInv
<1> SUFFICES ASSUME CdrInit PROVE RecordInv
  OBVIOUS
<1> USE CdrRoles, EmptyList DEF CdrInit
<1>1. RecordType
  BY CdrConstants, FS_EmptySet DEF RecordType, Cdrs
<1>2. RecordPlace
  BY DEF RecordPlace
<1>3. Unrepeated
  BY DEF Unrepeated
<1>4. Apart
  BY DEF Apart
<1>5. Accounted
  BY DEF Accounted, Finished, Cdrs
<1> QED
  BY <1>1, <1>2, <1>3, <1>4, <1>5 DEF RecordInv

(* Threads that come and go without records *)
LEMMA PlaceFrame ==
  ASSUME RecordPlace, UNCHANGED hand,
         \A u \in Threads :
               pc'[u] = pc[u] \/ (pc[u] \notin Holding /\ pc'[u] \notin Holding)
  PROVE  RecordPlace'
BY CdrRoles DEF RecordPlace, Holding

(* One thread that has moved, with the records it has then *)
LEMMA PlaceMoved ==
  ASSUME RecordPlace, PlaceType, NEW t \in Threads,
         \A u \in Threads : u # t => pc'[u] = pc[u] /\ hand'[u] = hand[u],
         t \in Channels /\ pc'[t] \in {"mode", "append"} => Len(hand'[t]) = 1,
         pc'[t] = "post" => hand'[t] # <<>>,
         pc'[t] \notin Holding => hand'[t] = <<>>
  PROVE  RecordPlace'
<1>1. \A c \in Channels : pc'[c] \in {"mode", "append"} => Len(hand'[c]) = 1
  BY CdrRoles DEF RecordPlace
<1>2. \A u \in Threads : pc'[u] = "post" => hand'[u] # <<>>
  BY DEF RecordPlace
<1>3. \A u \in Threads : pc'[u] \notin {"mode", "append", "spawn", "post"} =>
         hand'[u] = <<>>
  BY DEF RecordPlace, Holding
<1> QED
  BY <1>1, <1>2, <1>3 DEF RecordPlace

LEMMA RecordsFrame ==
  ASSUME RecordInv, UNCHANGED <<batch, hand, posters, posted, dropped, lost, ndetached>>,
         RecordPlace'
  PROVE  RecordInv'
BY DEF RecordInv, RecordType, Unrepeated, Apart, Accounted, Finished

(* tris_cdr_detach: a record that was nowhere *)
LEMMA DetachRecords ==
  ASSUME LoadInv, RecordInv, NEW c \in Channels, Detach(c)
  PROVE  RecordInv'
<1> USE CdrRoles, EmptyList DEF LoadInv, PlaceType, Goto, RecordInv
<1> DEFINE n == ndetached + 1
<1>1. /\ n \in Cdrs /\ ndetached \in Nat /\ n > ndetached
      /\ UNCHANGED <<batch, posters, posted, lost>> /\ ndetached' = n
  BY CdrConstants DEF Detach, RecordType, Cdrs, sharedVars, batchVars
<1>2. /\ n \notin ToSet(batch)
      /\ \A t \in Threads : n \notin ToSet(hand[t])
      /\ \A p \in posters : n \notin ToSet(p)
      /\ n \notin Finished
  BY <1>1 DEF Accounted
<1>3. \A m \in Cdrs : m <= ndetached' <=> m <= ndetached \/ m = n
  BY <1>1 DEF Cdrs
<1>4. hand[c] = <<>>
  BY DEF Detach, RecordPlace
<1> HIDE DEF n
<1>5. CASE cfg.enabled
  <2>1. /\ hand' = [hand EXCEPT ![c] = <<n>>] /\ UNCHANGED dropped
        /\ pc' = [pc EXCEPT ![c] = "mode"]
    BY <1>5 DEF Detach, n
  <2>2. /\ hand'[c] = <<n>> /\ pc'[c] = "mode"
        /\ \A u \in Threads : u # c => hand'[u] = hand[u] /\ pc'[u] = pc[u]
    BY <2>1 DEF RecordType
  <2>3. <<n>> \in Seq(Cdrs) /\ Len(<<n>>) = 1 /\ ToSet(hand'[c]) = {n}
    BY <1>1, <2>2
  <2>4. RecordType'
    BY <1>1, <2>1, <2>3 DEF RecordType, Cdrs
  <2>5. RecordPlace'
    BY <2>2, <2>3, PlaceMoved DEF Holding
  <2>6. Unrepeated'
    BY <1>1, <2>2 DEF Unrepeated
  <2>7. Apart'
    BY <1>1, <1>2, <2>1, <2>2, <2>3 DEF Apart, Finished
  <2>8. Accounted'
    BY <1>1, <1>3, <1>4, <2>1, <2>2, <2>3 DEF Accounted, Finished
  <2> QED
    BY <2>4, <2>5, <2>6, <2>7, <2>8
<1>6. CASE ~cfg.enabled
  <2>1. UNCHANGED <<hand, pc>> /\ dropped' = dropped \cup {n}
    BY <1>6 DEF Detach, n
  <2>2. n \notin lost /\ posted[n] = 0
    BY <1>1, <1>2 DEF Finished, RecordType
  <2>3. RecordType'
    BY <1>1, <2>1 DEF RecordType, Cdrs
  <2>4. RecordPlace'
    BY <2>1, PlaceFrame
  <2>5. Unrepeated'
    BY <1>1, <2>1 DEF Unrepeated
  <2>6. Finished' = Finished \cup {n}
    BY <1>1, <2>1 DEF Finished
  <2>7. Apart'
    BY <1>1, <1>2, <2>1, <2>2, <2>6 DEF Apart
  <2>8. Accounted'
    BY <1>1, <1>3, <2>1, <2>6 DEF Accounted
  <2> QED
    BY <2>3, <2>4, <2>5, <2>7, <2>8
<1> QED
  BY <1>5, <1>6

(* A record that is put in the batch *)
LEMMA EnlistRecords ==
  ASSUME LoadInv, RecordInv, NEW c \in Channels, Enlist(c)
  PROVE  RecordInv'
<1> USE CdrRoles, EmptyList DEF LoadInv, PlaceType, Goto, RecordInv
<1>1. /\ batch' = batch \o hand[c] /\ hand' = [hand EXCEPT ![c] = <<>>]
      /\ pc[c] = "append" /\ pc' = [pc EXCEPT ![c] = "full"]
      /\ UNCHANGED <<posters, posted, dropped, lost, ndetached>>
  BY DEF Enlist, bookVars, fateVars
<1>2. /\ hand'[c] = <<>> /\ pc'[c] = "full"
      /\ \A u \in Threads : u # c => hand'[u] = hand[u] /\ pc'[u] = pc[u]
  BY <1>1 DEF RecordType
<1>3. /\ batch \in Seq(Cdrs) /\ hand[c] \in Seq(Cdrs) /\ Len(hand[c]) = 1
      /\ Distinct(batch) /\ ToSet(batch) \cap ToSet(hand[c]) = {}
  BY <1>1 DEF RecordType, RecordPlace, Unrepeated, Apart
<1>4. /\ batch' \in Seq(Cdrs) /\ Distinct(batch')
      /\ ToSet(batch') = ToSet(batch) \cup ToSet(hand[c])
  BY <1>1, <1>3, OneAppended
<1>5. RecordType'
  BY <1>1, <1>4 DEF RecordType
<1>6. RecordPlace'
  BY <1>2, PlaceMoved DEF Holding
<1>7. Unrepeated'
  BY <1>1, <1>2, <1>4 DEF Unrepeated
<1>8. Apart'
  <2>1. Finished' = Finished
    BY <1>1 DEF Finished
  <2>2. ASSUME NEW n \in ToSet(batch')
        PROVE  /\ \A u \in Threads : n \notin ToSet(hand'[u])
               /\ \A p \in posters : n \notin ToSet(p)
               /\ n \notin Finished
    <3>1. CASE n \in ToSet(batch)
      BY <1>2, <3>1 DEF Apart
    <3>2. CASE n \in ToSet(hand[c])
      BY <1>2, <3>2 DEF Apart
    <3> QED
      BY <1>4, <3>1, <3>2
  <2>3. ASSUME NEW u \in Threads, NEW n \in ToSet(hand'[u])
        PROVE  /\ \A v \in Threads \ {u} : n \notin ToSet(hand'[v])
               /\ \A p \in posters : n \notin ToSet(p)
               /\ n \notin Finished
    <3>1. u # c /\ n \in ToSet(hand[u])
      BY <1>2
    <3> QED
      BY <1>2, <3>1 DEF Apart
  <2>4. ASSUME NEW p \in posters, NEW n \in ToSet(p)
        PROVE  /\ \A q \in posters \ {p} : n \notin ToSet(q)
               /\ n \notin Finished
    BY DEF Apart
  <2>5. dropped \cap lost = {} /\ \A n \in dropped \cup lost : posted[n] = 0
    BY DEF Apart
  <2> QED
    BY <1>1, <2>1, <2>2, <2>3, <2>4, <2>5 DEF Apart
<1>9. Accounted'
  BY <1>1, <1>2, <1>4 DEF Accounted, Finished
<1> QED
  BY <1>5, <1>6, <1>7, <1>8, <1>9

(* The batch is taken by one thread at once. *)
LEMMA TakeRecords ==
  ASSUME LoadInv, RecordInv, NEW t \in Threads, TakeBatch(t)
  PROVE  RecordInv'
<1> USE CdrRoles, EmptyList DEF LoadInv, PlaceType, Goto, RecordInv
<1>1. /\ batch' = <<>> /\ hand' = [hand EXCEPT ![t] = batch]
      /\ pc[t] = "take" /\ pc' = [pc EXCEPT ![t] = "spawn"]
      /\ UNCHANGED <<posters, posted, dropped, lost, ndetached>>
  BY DEF TakeBatch, bookVars, fateVars
<1>2. /\ hand'[t] = batch /\ pc'[t] = "spawn" /\ hand[t] = <<>>
      /\ \A u \in Threads : u # t => hand'[u] = hand[u] /\ pc'[u] = pc[u]
  BY <1>1 DEF RecordType, RecordPlace
<1>3. RecordType'
  BY <1>1 DEF RecordType
<1>4. RecordPlace'
  BY <1>2, PlaceMoved DEF Holding
<1>5. Unrepeated'
  BY <1>1, <1>2 DEF Unrepeated
<1>6. Apart'
  <2>1. ToSet(batch') = {} /\ Finished' = Finished
    BY <1>1 DEF Finished
  <2>2. ASSUME NEW u \in Threads, NEW n \in ToSet(hand'[u])
        PROVE  /\ \A v \in Threads \ {u} : n \notin ToSet(hand'[v])
               /\ \A p \in posters : n \notin ToSet(p)
               /\ n \notin Finished
    <3>1. CASE u = t
      BY <1>2, <2>2, <3>1 DEF Apart
    <3>2. CASE u # t
      BY <1>2, <2>2, <3>2 DEF Apart
    <3> QED
      BY <3>1, <3>2
  <2>3. ASSUME NEW p \in posters, NEW n \in ToSet(p)
        PROVE  /\ \A q \in posters \ {p} : n \notin ToSet(q)
               /\ n \notin Finished
    BY DEF Apart
  <2>4. dropped \cap lost = {} /\ \A n \in dropped \cup lost : posted[n] = 0
    BY DEF Apart
  <2> QED
    BY <1>1, <2>1, <2>2, <2>3, <2>4 DEF Apart
<1>7. Accounted'
  BY <1>1, <1>2 DEF Accounted, Finished
<1> QED
  BY <1>3, <1>4, <1>5, <1>6, <1>7

(* A detached thread is given what its creator has. *)
LEMMA SpawnRecords ==
  ASSUME LoadInv, RecordInv, NEW t \in Threads, Back(t) \notin Holding, Spawn(t)
  PROVE  RecordInv'
<1> USE CdrRoles, EmptyList DEF LoadInv, PlaceType, Goto, RecordInv
<1>1. /\ posters' = posters \cup ({hand[t]} \ {<<>>})
      /\ hand' = [hand EXCEPT ![t] = <<>>]
      /\ pc' = [pc EXCEPT ![t] = Back(t)]
      /\ UNCHANGED <<batch, posted, dropped, lost, ndetached>>
  BY DEF Spawn, bookVars, fateVars, sharedVars, batchVars
<1>2. /\ hand'[t] = <<>> /\ pc'[t] = Back(t) /\ hand[t] \in Seq(Cdrs)
      /\ \A u \in Threads : u # t => hand'[u] = hand[u] /\ pc'[u] = pc[u]
  BY <1>1 DEF RecordType
<1>3. CASE hand[t] = <<>>
  <2>1. posters' = posters /\ hand' = hand
    BY <1>1, <1>3 DEF RecordType
  <2>2. RecordPlace'
    BY <1>2, PlaceMoved DEF Holding
  <2> QED
    BY <1>1, <2>1, <2>2, RecordsFrame
<1>4. CASE hand[t] # <<>>
  <2>1. posters' = posters \cup {hand[t]}
    BY <1>1, <1>4
  <2>2. RecordType'
    <3>1. IsFiniteSet(posters')
      BY <2>1, FS_AddElement DEF RecordType
    <3> QED
      BY <1>1, <1>2, <2>1, <3>1 DEF RecordType
  <2>3. RecordPlace'
    BY <1>2, PlaceMoved DEF Holding
  <2>4. Unrepeated'
    BY <1>1, <1>2, <2>1 DEF Unrepeated
  <2>5. Finished' = Finished
    BY <1>1 DEF Finished
  <2>6. Apart'
    <3>1. ASSUME NEW n \in ToSet(batch')
          PROVE  /\ \A u \in Threads : n \notin ToSet(hand'[u])
                 /\ \A p \in posters' : n \notin ToSet(p)
                 /\ n \notin Finished
      BY <1>1, <1>2, <2>1 DEF Apart
    <3>2. ASSUME NEW u \in Threads, NEW n \in ToSet(hand'[u])
          PROVE  /\ \A v \in Threads \ {u} : n \notin ToSet(hand'[v])
                 /\ \A p \in posters' : n \notin ToSet(p)
                 /\ n \notin Finished
      <4>1. u # t /\ n \in ToSet(hand[u])
        BY <1>2
      <4> QED
        BY <1>2, <2>1, <4>1 DEF Apart
    <3>3. ASSUME NEW p \in posters', NEW n \in ToSet(p)
          PROVE  /\ \A q \in posters' \ {p} : n \notin ToSet(q)
                 /\ n \notin Finished
      BY <2>1 DEF Apart
    <3>4. dropped \cap lost = {} /\ \A n \in dropped \cup lost : posted[n] = 0
      BY DEF Apart
    <3> QED
      BY <1>1, <2>5, <3>1, <3>2, <3>3, <3>4 DEF Apart
  <2>7. Accounted'
    <3>1. ASSUME NEW n \in Cdrs
          PROVE  (\E u \in Threads : n \in ToSet(hand[u])) \/ (\E p \in posters : n \in ToSet(p))
             <=> (\E u \in Threads : n \in ToSet(hand'[u])) \/ (\E p \in posters' : n \in ToSet(p))
      BY <1>2, <2>1
    <3> QED
      BY <1>1, <2>5, <3>1 DEF Accounted
  <2> QED
    BY <2>2, <2>3, <2>4, <2>6, <2>7
<1> QED
  BY <1>3, <1>4

(* A record that is posted was not before, and is nowhere else. *)
LEMMA PostRecords ==
  ASSUME LoadInv, RecordInv, NEW t \in Threads, Back(t) \notin Holding, Post(t)
  PROVE  RecordInv'
<1> USE CdrRoles, EmptyList DEF LoadInv, PlaceType, Goto, RecordInv
<1> DEFINE m == Head(hand[t])
<1>1. /\ posted' = [posted EXCEPT ![m] = @ + 1]
      /\ hand' = [hand EXCEPT ![t] = Tail(@)] /\ pc[t] = "post"
      /\ pc' = [pc EXCEPT ![t] = IF Len(hand[t]) = 1 THEN Back(t) ELSE "post"]
      /\ UNCHANGED <<batch, posters, dropped, lost, ndetached>>
  BY DEF Post, sharedVars, batchVars
<1>2. hand[t] \in Seq(Cdrs) /\ hand[t] # <<>> /\ Distinct(hand[t])
  BY <1>1 DEF RecordType, RecordPlace, Unrepeated
<1>3. /\ hand'[t] = Tail(hand[t])
      /\ pc'[t] = IF Len(hand[t]) = 1 THEN Back(t) ELSE "post"
      /\ \A u \in Threads : u # t => hand'[u] = hand[u] /\ pc'[u] = pc[u]
  BY <1>1 DEF RecordType
<1>4. /\ m \in Cdrs /\ m \in ToSet(hand[t])
      /\ hand'[t] \in Seq(Cdrs) /\ Distinct(hand'[t])
      /\ ToSet(hand'[t]) = ToSet(hand[t]) \ {m}
      /\ Len(hand[t]) = 1 <=> hand'[t] = <<>>
  BY <1>2, <1>3, HeadAndTail
<1> HIDE DEF m
<1>5. m \notin Finished /\ posted[m] = 0
  BY <1>4 DEF Apart, Finished, RecordType
<1>6. posted'[m] = 1 /\ \A n \in Cdrs : n # m => posted'[n] = posted[n]
  BY <1>1, <1>4, <1>5 DEF RecordType
<1>7. Finished' = Finished \cup {m}
  BY <1>1, <1>4, <1>6 DEF Finished
<1>8. RecordType'
  <2>1. posted' \in [Cdrs -> {0, 1}]
    BY <1>1, <1>4, <1>5 DEF RecordType
  <2>2. hand' \in [Threads -> Seq(Cdrs)]
    BY <1>1, <1>3, <1>4 DEF RecordType
  <2> QED
    BY <1>1, <2>1, <2>2 DEF RecordType
<1>9. RecordPlace'
  <2>1. t \in Channels => pc'[t] \notin {"mode", "append"}
    BY <1>3, BackOf
  <2> QED
    BY <1>3, <1>4, <2>1, PlaceMoved DEF Holding
<1>10. Unrepeated'
  BY <1>1, <1>3, <1>4 DEF Unrepeated
<1>11. Apart'
  <2>1. ASSUME NEW n \in ToSet(batch')
        PROVE  /\ \A u \in Threads : n \notin ToSet(hand'[u])
               /\ \A p \in posters' : n \notin ToSet(p)
               /\ n \notin Finished'
    BY <1>1, <1>3, <1>4, <1>7 DEF Apart
  <2>2. ASSUME NEW u \in Threads, NEW n \in ToSet(hand'[u])
        PROVE  /\ \A v \in Threads \ {u} : n \notin ToSet(hand'[v])
               /\ \A p \in posters' : n \notin ToSet(p)
               /\ n \notin Finished'
    <3>1. n \in ToSet(hand[u]) /\ n # m
      <4>1. CASE u = t
        BY <1>4, <2>2, <4>1
      <4>2. CASE u # t
        BY <1>3, <1>4, <2>2, <4>2 DEF Apart
      <4> QED
        BY <4>1, <4>2
    <3>2. \A v \in Threads : ToSet(hand'[v]) \subseteq ToSet(hand[v])
      BY <1>3, <1>4
    <3> QED
      BY <1>1, <1>7, <3>1, <3>2 DEF Apart
  <2>3. ASSUME NEW p \in posters', NEW n \in ToSet(p)
        PROVE  /\ \A q \in posters' \ {p} : n \notin ToSet(q)
               /\ n \notin Finished'
    BY <1>1, <1>4, <1>7 DEF Apart
  <2>4. dropped \cap lost = {} /\ \A n \in dropped \cup lost : posted'[n] = 0
    BY <1>5, <1>6 DEF Apart, Finished, RecordType
  <2> QED
    BY <1>1, <2>1, <2>2, <2>3, <2>4 DEF Apart
<1>12. Accounted'
  <2>1. ASSUME NEW n \in Cdrs
        PROVE  (\E u \in Threads : n \in ToSet(hand[u])) \/ n \in Finished
           <=> (\E u \in Threads : n \in ToSet(hand'[u])) \/ n \in Finished'
    BY <1>3, <1>4, <1>7
  <2> QED
    BY <1>1, <2>1 DEF Accounted
<1> QED
  BY <1>8, <1>9, <1>10, <1>11, <1>12

(* The same in a detached thread *)
LEMMA PosterRecords ==
  ASSUME LoadInv, RecordInv, NEW p \in posters, PosterStep(p), <<>> \notin posters
  PROVE  RecordInv' /\ <<>> \notin posters'
<1> USE CdrRoles, EmptyList DEF LoadInv, PlaceType, RecordInv
<1> DEFINE m == Head(p)
           r == Tail(p)
<1>1. /\ posted' = [posted EXCEPT ![m] = @ + 1]
      /\ posters' = (posters \ {p}) \cup ({r} \ {<<>>})
      /\ UNCHANGED <<batch, hand, pc, dropped, lost, ndetached>>
  BY DEF PosterStep, sharedVars, batchVars
<1>2. p \in Seq(Cdrs) /\ p # <<>> /\ Distinct(p)
  BY DEF RecordType, Unrepeated
<1>3. /\ m \in Cdrs /\ m \in ToSet(p)
      /\ r \in Seq(Cdrs) /\ Distinct(r)
      /\ ToSet(r) = ToSet(p) \ {m}
  BY <1>2, HeadAndTail
<1> HIDE DEF m, r
<1>4. m \notin Finished /\ posted[m] = 0
  BY <1>3 DEF Apart, Finished, RecordType
<1>5. posted'[m] = 1 /\ \A n \in Cdrs : n # m => posted'[n] = posted[n]
  BY <1>1, <1>3, <1>4 DEF RecordType
<1>6. Finished' = Finished \cup {m}
  BY <1>1, <1>3, <1>5 DEF Finished
<1>7. RecordType'
  <2>1. posted' \in [Cdrs -> {0, 1}]
    BY <1>1, <1>3, <1>4 DEF RecordType
  <2>2. IsFiniteSet(posters')
    <3>1. IsFiniteSet(posters \ {p})
      BY FS_Subset DEF RecordType
    <3>2. IsFiniteSet((posters \ {p}) \cup {r})
      BY <3>1, FS_AddElement
    <3>3. posters' \subseteq (posters \ {p}) \cup {r}
      BY <1>1
    <3> QED
      BY <3>2, <3>3, FS_Subset
  <2>3. posters' \in SUBSET Seq(Cdrs)
    BY <1>1, <1>3 DEF RecordType
  <2> QED
    BY <1>1, <2>1, <2>2, <2>3 DEF RecordType
<1>8. RecordPlace'
  BY <1>1, PlaceFrame
<1>9. Unrepeated'
  BY <1>1, <1>3 DEF Unrepeated
<1>10. \A q \in posters' : \E o \in posters :
          /\ ToSet(q) \subseteq ToSet(o) \ {m}
          /\ q # r => o = q /\ q # p
          /\ q = r => o = p
  <2>1. ASSUME NEW q \in posters', q = r PROVE ToSet(q) \subseteq ToSet(p) \ {m}
    BY <1>3, <2>1
  <2>2. ASSUME NEW q \in posters', q # r
        PROVE  q \in posters /\ q # p /\ ToSet(q) \subseteq ToSet(q) \ {m}
    BY <1>1, <1>3, <2>2 DEF Apart
  <2> QED
    BY <2>1, <2>2
<1>11. Apart'
  <2>1. ASSUME NEW n \in ToSet(batch')
        PROVE  /\ \A u \in Threads : n \notin ToSet(hand'[u])
               /\ \A q \in posters' : n \notin ToSet(q)
               /\ n \notin Finished'
    BY <1>1, <1>3, <1>6, <1>10 DEF Apart
  <2>2. ASSUME NEW u \in Threads, NEW n \in ToSet(hand'[u])
        PROVE  /\ \A v \in Threads \ {u} : n \notin ToSet(hand'[v])
               /\ \A q \in posters' : n \notin ToSet(q)
               /\ n \notin Finished'
    BY <1>1, <1>3, <1>6, <1>10 DEF Apart
  <2>3. ASSUME NEW q \in posters', NEW n \in ToSet(q)
        PROVE  /\ \A o \in posters' \ {q} : n \notin ToSet(o)
               /\ n \notin Finished'
    <3>1. PICK q0 \in posters : /\ ToSet(q) \subseteq ToSet(q0) \ {m}
                                /\ q # r => q0 = q /\ q # p
                                /\ q = r => q0 = p
      BY <1>10
    <3>2. n \in ToSet(q0) /\ n # m
      BY <2>3, <3>1
    <3>3. n \notin Finished'
      BY <1>6, <3>2 DEF Apart
    <3>4. ASSUME NEW o \in posters' \ {q} PROVE n \notin ToSet(o)
      <4>1. PICK o0 \in posters : /\ ToSet(o) \subseteq ToSet(o0) \ {m}
                                  /\ o # r => o0 = o /\ o # p
                                  /\ o = r => o0 = p
        BY <1>10
      <4>2. o0 # q0
        BY <3>1, <4>1
      <4>3. n \notin ToSet(o0)
        BY <3>2, <4>2 DEF Apart
      <4> QED
        BY <4>1, <4>3
    <3> QED
      BY <3>3, <3>4
  <2>4. dropped \cap lost = {} /\ \A n \in dropped \cup lost : posted'[n] = 0
    BY <1>4, <1>5 DEF Apart, Finished, RecordType
  <2> QED
    BY <1>1, <2>1, <2>2, <2>3, <2>4 DEF Apart
<1>12. Accounted'
  <2>1. ASSUME NEW n \in Cdrs
        PROVE  (\E q \in posters : n \in ToSet(q)) \/ n \in Finished
           <=> (\E q \in posters' : n \in ToSet(q)) \/ n \in Finished'
    <3>1. ASSUME NEW q \in posters, n \in ToSet(q), n # m
          PROVE  \E o \in posters' : n \in ToSet(o)
      <4>1. CASE q = p
        <5>1. n \in ToSet(r)
          BY <1>3, <3>1, <4>1
        <5>2. r # <<>>
          BY <5>1
        <5> QED
          BY <1>1, <5>1, <5>2
      <4>2. CASE q # p
        BY <1>1, <3>1, <4>2
      <4> QED
        BY <4>1, <4>2
    <3>2. ASSUME NEW q \in posters', n \in ToSet(q)
          PROVE  \E o \in posters : n \in ToSet(o)
      BY <1>10, <3>2
    <3> QED
      BY <1>3, <1>6, <3>1, <3>2
  <2> QED
    BY <1>1, <2>1 DEF Accounted
<1>13. <<>> \notin posters'
  BY <1>1
<1> QED
  BY <1>7, <1>8, <1>9, <1>11, <1>12, <1>13

(* What the thread has in its hands when it is cancelled is lost. *)
LEMMA CancelRecords ==
  ASSUME LoadInv, RecordInv, CancelInPost
  PROVE  RecordInv'
<1> USE CdrRoles, EmptyList DEF LoadInv, PlaceType, Goto, RecordInv
<1> DEFINE t == CdrThread
<1>1. /\ lost' = lost \cup ToSet(hand[t])
      /\ hand' = [hand EXCEPT ![t] = <<>>]
      /\ pc' = [pc EXCEPT ![t] = "dead"]
      /\ UNCHANGED <<batch, posters, posted, dropped, ndetached>>
  BY DEF CancelInPost, batchVars
<1>2. /\ hand'[t] = <<>> /\ pc'[t] = "dead"
      /\ \A u \in Threads : u # t => hand'[u] = hand[u] /\ pc'[u] = pc[u]
  BY <1>1 DEF RecordType
<1>3. ToSet(hand[t]) \subseteq Cdrs
  BY ListedIn DEF RecordType
<1>4. Finished' = Finished \cup ToSet(hand[t])
  BY <1>1 DEF Finished
<1>5. RecordType'
  BY <1>1, <1>3 DEF RecordType
<1>6. RecordPlace'
  BY <1>2, PlaceMoved DEF Holding
<1>7. Unrepeated'
  BY <1>1, <1>2 DEF Unrepeated
<1>8. Apart'
  <2>1. ASSUME NEW n \in ToSet(batch')
        PROVE  /\ \A u \in Threads : n \notin ToSet(hand'[u])
               /\ \A p \in posters' : n \notin ToSet(p)
               /\ n \notin Finished'
    BY <1>1, <1>2, <1>4 DEF Apart
  <2>2. ASSUME NEW u \in Threads, NEW n \in ToSet(hand'[u])
        PROVE  /\ \A v \in Threads \ {u} : n \notin ToSet(hand'[v])
               /\ \A p \in posters' : n \notin ToSet(p)
               /\ n \notin Finished'
    <3>1. u # t /\ n \in ToSet(hand[u])
      BY <1>2
    <3> QED
      BY <1>1, <1>2, <1>4, <3>1 DEF Apart
  <2>3. ASSUME NEW p \in posters', NEW n \in ToSet(p)
        PROVE  /\ \A q \in posters' \ {p} : n \notin ToSet(q)
               /\ n \notin Finished'
    BY <1>1, <1>4 DEF Apart
  <2>4. \A n \in ToSet(hand[t]) : n \notin dropped /\ posted[n] = 0
    BY <1>3 DEF Apart, Finished, RecordType
  <2>5. dropped \cap lost' = {} /\ \A n \in dropped \cup lost' : posted[n] = 0
    BY <1>1, <2>4 DEF Apart
  <2> QED
    BY <1>1, <2>1, <2>2, <2>3, <2>5 DEF Apart
<1>9. Accounted'
  <2>1. ASSUME NEW n \in Cdrs
        PROVE  (\E u \in Threads : n \in ToSet(hand[u])) \/ n \in Finished
           <=> (\E u \in Threads : n \in ToSet(hand'[u])) \/ n \in Finished'
    BY <1>2, <1>4
  <2> QED
    BY <1>1, <2>1 DEF Accounted
<1> QED
  BY <1>5, <1>6, <1>7, <1>8, <1>9

(* Records stay where they are while a thread decides, waits or schedules. *)
LEMMA ModeRecords ==
  ASSUME LoadInv, RecordInv, NEW c \in Channels, Mode(c)
  PROVE  RecordInv'
<1> USE CdrRoles, EmptyList DEF LoadInv, PlaceType, Goto, RecordInv
<1>1. /\ UNCHANGED <<batch, hand, posters, posted, dropped, lost, ndetached>>
      /\ pc[c] = "mode" /\ \E p \in {"append", "post"} : pc' = [pc EXCEPT ![c] = p]
  BY DEF Mode, sharedVars, batchVars, workVars, bookVars, fateVars
<1>2. Len(hand[c]) = 1 /\ hand[c] # <<>>
  <2>1. Len(hand[c]) = 1
    BY <1>1 DEF RecordPlace
  <2>2. Len(<<>>) = 0
    OBVIOUS
  <2> QED
    BY <2>1, <2>2
<1>3. pc'[c] \in {"append", "post"}
      /\ \A u \in Threads : u # c => hand'[u] = hand[u] /\ pc'[u] = pc[u]
  BY <1>1
<1>4. RecordPlace'
  BY <1>1, <1>2, <1>3, PlaceMoved DEF Holding
<1> QED
  BY <1>1, <1>4, RecordsFrame

LEMMA PostHereRecords ==
  ASSUME LoadInv, RecordInv, NEW t \in Threads, Back(t) \notin Holding, PostHere(t)
  PROVE  RecordInv'
<1> USE CdrRoles DEF LoadInv, PlaceType, Goto, RecordInv
<1>1. /\ UNCHANGED <<batch, hand, posters, posted, dropped, lost, ndetached>>
      /\ pc' = [pc EXCEPT ![t] = IF hand[t] = <<>> THEN Back(t) ELSE "post"]
  BY DEF PostHere, sharedVars, batchVars, workVars, bookVars, fateVars
<1>2. /\ pc'[t] = IF hand[t] = <<>> THEN Back(t) ELSE "post"
      /\ \A u \in Threads : u # t => hand'[u] = hand[u] /\ pc'[u] = pc[u]
  BY <1>1
<1>3. RecordPlace'
  BY <1>1, <1>2, PlaceMoved DEF Holding
<1> QED
  BY <1>1, <1>3, RecordsFrame

(* tris_cdr_submit_batch *)
LEMMA SubmissionRecords ==
  ASSUME LoadInv, RecordInv, NEW t \in {CdrThread, Reloader, Quitter}, Submission(t)
  PROVE  RecordInv'
<1> USE CdrRoles DEF LoadInv, PlaceType, Goto, RecordInv
<1>1. t \in Threads /\ Back(t) \notin Holding
  BY BackOf DEF Holding
<1>2. CASE CheckBatch(t)
  <2>1. /\ UNCHANGED <<batch, hand, posters, posted, dropped, lost, ndetached>>
        /\ pc[t] = "check" /\ \E p \in {"take", Back(t)} : pc' = [pc EXCEPT ![t] = p]
    BY <1>2 DEF CheckBatch, sharedVars, batchVars, workVars, bookVars, fateVars
  <2>2. \A u \in Threads :
              pc'[u] = pc[u] \/ (pc[u] \notin Holding /\ pc'[u] \notin Holding)
    BY <1>1, <2>1 DEF Holding
  <2> QED
    BY <2>1, <2>2, PlaceFrame, RecordsFrame
<1> QED
  BY <1>1, <1>2, TakeRecords, PostHereRecords, SpawnRecords, PostRecords
     DEF Submission

LEMMA QuietRecords ==
  ASSUME RecordInv, UNCHANGED <<batch, hand, posters, posted, dropped, lost, ndetached>>,
         \A u \in Threads :
               pc'[u] = pc[u] \/ (pc[u] \notin Holding /\ pc'[u] \notin Holding)
  PROVE  RecordInv'
BY PlaceFrame, RecordsFrame DEF RecordInv

LEMMA SchedulingRecords ==
  ASSUME LoadInv, RecordInv, NEW t \in Threads, Scheduling(t)
  PROVE  RecordInv'
<1> USE CdrRoles DEF LoadInv, PlaceType, Goto
<1>1. /\ UNCHANGED <<batch, hand, posters, posted, dropped, lost, ndetached>>
      /\ pc[t] \in {"del", "clear", "add", "assign", "signal"}
      /\ \E p \in {"del", "clear", "config", "add", "assign", "runq", "decide",
                   "signal", "idle"} : pc' = [pc EXCEPT ![t] = p]
  BY DEF Scheduling, Delete, Clear, AddSubmission, Assign, SignalThread, batchVars,
     workVars, bookVars, fateVars
<1>2. \A u \in Threads :
            pc'[u] = pc[u] \/ (pc[u] \notin Holding /\ pc'[u] \notin Holding)
  BY <1>1 DEF Holding
<1> QED
  BY <1>1, <1>2, QuietRecords

LEMMA RecordInvNext ==
  LoadInv /\ RecordInv /\ <<>> \notin posters /\ [CdrNext]_cdrVars
    => RecordInv' /\ <<>> \notin posters'
<1> SUFFICES ASSUME LoadInv, RecordInv, <<>> \notin posters, [CdrNext]_cdrVars
             PROVE  RecordInv' /\ <<>> \notin posters'
  OBVIOUS
<1> USE CdrRoles DEF LoadInv, PlaceType, Goto
<1> USE DEF batchVars, workVars, bookVars, fateVars, sharedVars
<1>1. ASSUME NEW c \in Channels, Detach(c) \/ ChannelStep(c) PROVE RecordInv'
  <2>1. Back(c) \notin Holding
    BY BackOf DEF Holding
  <2>2. CASE Full(c)
    <3>1. /\ UNCHANGED <<batch, hand, posters, posted, dropped, lost, ndetached>>
          /\ pc[c] = "full"
          /\ \E p \in {"del", "idle"} : pc' = [pc EXCEPT ![c] = p]
      BY <2>2 DEF Full
    <3>2. \A u \in Threads :
                pc'[u] = pc[u] \/ (pc[u] \notin Holding /\ pc'[u] \notin Holding)
      BY <3>1 DEF Holding
    <3> QED
      BY <3>1, <3>2, QuietRecords
  <2> QED
    BY <1>1, <2>1, <2>2, DetachRecords, ModeRecords, EnlistRecords, PostRecords,
       SchedulingRecords DEF ChannelStep
<1>2. ASSUME NEW t \in Consoles, CliSubmit(t) PROVE RecordInv'
  <2>1. /\ UNCHANGED <<batch, hand, posters, posted, dropped, lost, ndetached>>
        /\ pc[t] = "idle" /\ pc' = [pc EXCEPT ![t] = "del"]
    BY <1>2 DEF CliSubmit
  <2>2. \A u \in Threads :
              pc'[u] = pc[u] \/ (pc[u] \notin Holding /\ pc'[u] \notin Holding)
    BY <2>1 DEF Holding
  <2> QED
    BY <2>1, <2>2, QuietRecords
<1>3. ASSUME CdrStep PROVE RecordInv'
  <2>1. CASE Plan \/ Wait \/ Wake \/ RunEvent \/ EndRunq \/ CancelInWait
    <3>1. /\ UNCHANGED <<batch, hand, posters, posted, dropped, lost, ndetached>>
          /\ pc[CdrThread] \in {"plan", "lock", "wait", "runq"}
          /\ \E p \in {"lock", "wait", "runq", "check", "plan", "dead"} :
                pc' = [pc EXCEPT ![CdrThread] = p]
      BY <2>1 DEF Plan, Wait, Wake, Awake, RunEvent, EndRunq, CancelInWait
    <3>2. \A u \in Threads :
                pc'[u] = pc[u] \/ (pc[u] \notin Holding /\ pc'[u] \notin Holding)
      BY <3>1 DEF Holding
    <3> QED
      BY <3>1, <3>2, QuietRecords
  <2> QED
    BY <1>3, <2>1, CancelRecords, SubmissionRecords, SchedulingRecords
       DEF CdrStep, Scheduling
<1>4. ASSUME Reload \/ ReloadStep PROVE RecordInv'
  <2>1. CASE Reload \/ ReadConfig \/ UnlockReload
    <3>1. /\ UNCHANGED <<batch, hand, posters, posted, dropped, lost, ndetached>>
          /\ pc[Reloader] \in {"idle", "config", "unlock"}
          /\ \E p \in {"del", "add", "decide", "idle"} :
                pc' = [pc EXCEPT ![Reloader] = p]
      BY <2>1 DEF Reload, ReadConfig, UnlockReload
    <3>2. \A u \in Threads :
                pc'[u] = pc[u] \/ (pc[u] \notin Holding /\ pc'[u] \notin Holding)
      BY <3>1 DEF Holding
    <3> QED
      BY <3>1, <3>2, QuietRecords
  <2>2. CASE Decide
    <3>1. UNCHANGED <<batch, hand, posters, posted, dropped, lost, ndetached>>
      BY <2>2 DEF Decide
    <3>2. /\ pc[Reloader] = "decide" /\ pc'[Reloader] \notin Holding
          /\ \A u \in Threads \ {Reloader, CdrThread} : pc'[u] = pc[u]
      BY <2>2 DEF Decide, Holding
    <3>3. pc'[CdrThread] = pc[CdrThread]
            \/ (pc[CdrThread] \notin Holding /\ pc'[CdrThread] \notin Holding)
      BY <2>2 DEF Decide, Holding, ThreadMatches
    <3>4. \A u \in Threads :
                pc'[u] = pc[u] \/ (pc[u] \notin Holding /\ pc'[u] \notin Holding)
      BY <3>2, <3>3 DEF Holding
    <3> QED
      BY <3>1, <3>4, QuietRecords
  <2>3. CASE Join
    <3>1. UNCHANGED <<batch, hand, posters, posted, dropped, lost, ndetached>>
      BY <2>3 DEF Join
    <3>2. /\ pc[Reloader] = "join" /\ pc'[Reloader] \notin Holding
          /\ pc[CdrThread] = "dead" /\ pc'[CdrThread] \notin Holding
          /\ \A u \in Threads \ {Reloader, CdrThread} : pc'[u] = pc[u]
      BY <2>3 DEF Join, Holding
    <3>3. \A u \in Threads :
                pc'[u] = pc[u] \/ (pc[u] \notin Holding /\ pc'[u] \notin Holding)
      BY <3>2 DEF Holding
    <3> QED
      BY <3>1, <3>3, QuietRecords
  <2> QED
    BY <1>4, <2>1, <2>2, <2>3, SubmissionRecords, SchedulingRecords
       DEF ReloadStep, Scheduling
<1>5. ASSUME Quit \/ QuitCancelled \/ QuitStep PROVE RecordInv'
  <2>1. CASE Quit \/ QuitCancelled \/ AtExit \/ Exit
    <3>1. /\ UNCHANGED <<batch, hand, posters, posted, dropped, lost, ndetached>>
          /\ pc[Quitter] \in {"idle", "hangup", "exit"}
          /\ \E p \in {"check", "idle", "exit", "gone"} :
                pc' = [pc EXCEPT ![Quitter] = p]
      BY <2>1 DEF Quit, QuitCancelled, AtExit, Exit, Terminate
    <3>2. \A u \in Threads :
                pc'[u] = pc[u] \/ (pc[u] \notin Holding /\ pc'[u] \notin Holding)
      BY <3>1 DEF Holding
    <3> QED
      BY <3>1, <3>2, QuietRecords
  <2> QED
    BY <1>5, <2>1, SubmissionRecords DEF QuitStep
<1>6. ASSUME NEW p \in posters, PosterStep(p)
      PROVE  RecordInv' /\ <<>> \notin posters'
  BY <1>6, PosterRecords
<1>7. CASE UNCHANGED cdrVars
  BY <1>7, QuietRecords DEF cdrVars
<1>8. ASSUME NEW t, Spawn(t) PROVE <<>> \notin posters'
  BY <1>8 DEF Spawn
<1>9. ASSUME NEW t, Submission(t) PROVE <<>> \notin posters'
  BY <1>8, <1>9 DEF Submission, CheckBatch, TakeBatch, PostHere, Post
<1>10. ASSUME NEW c \in Channels, Detach(c) \/ ChannelStep(c) PROVE <<>> \notin posters'
  BY <1>10 DEF ChannelStep, Detach, Mode, Enlist, Full, Post, Scheduling,
     Delete, Clear, AddSubmission, Assign, SignalThread
<1>11. ASSUME NEW t \in Consoles, CliSubmit(t) \/ Scheduling(t)
       PROVE  <<>> \notin posters'
  BY <1>11 DEF CliSubmit, Scheduling, Delete, Clear, AddSubmission, Assign, SignalThread
<1>12. ASSUME CdrStep PROVE <<>> \notin posters'
  BY <1>9, <1>12 DEF CdrStep, Plan, Wait, Wake, Awake, RunEvent, EndRunq,
     CancelInWait, CancelInPost, AddSubmission, Assign
<1>13. ASSUME Reload \/ ReloadStep PROVE <<>> \notin posters'
  BY <1>9, <1>13 DEF Reload, ReloadStep, ReadConfig, Decide, Join, UnlockReload,
     Delete, Clear, AddSubmission, Assign
<1>14. ASSUME Quit \/ QuitCancelled \/ QuitStep PROVE <<>> \notin posters'
  BY <1>9, <1>14 DEF Quit, QuitCancelled, QuitStep, AtExit, Exit
<1> QED
  BY <1>1, <1>2, <1>3, <1>4, <1>5, <1>6, <1>7, <1>10, <1>11, <1>12, <1>13,
     <1>14, SchedulingRecords DEF CdrNext, cdrVars

-----------------------------------------------------------------------------
(* How often a record is counted *)

(* Induction over the natural numbers, for a set of them *)
LEMMA Induction ==
  ASSUME NEW G \in SUBSET Nat, 0 \in G, \A n \in G : n + 1 \in G
  PROVE  G = Nat
<1> SUFFICES ASSUME Nat \ G # {} PROVE FALSE
  OBVIOUS
<1>1. PICK x \in Nat \ G : \A y \in Nat \ G : ~ (<<y, x>> \in OpToRel(<, Nat))
  <2> DEFINE T == Nat \ G
  <2>1. T \subseteq Nat /\ T # {}
    OBVIOUS
  <2>2. \E x \in T : \A y \in T : ~ (<<y, x>> \in OpToRel(<, Nat))
    <3> HIDE DEF T
    <3> QED
      BY <2>1, NatLessThanWellFounded, WFMin
  <2> QED
    BY <2>2
<1>2. \A y \in Nat \ G : ~ (y < x)
  BY <1>1 DEF OpToRel
<1>3. x - 1 \in Nat
  OBVIOUS
<1>4. x - 1 \in G
  BY <1>2, <1>3
<1>5. (x - 1) + 1 \in G
  BY <1>4
<1>6. (x - 1) + 1 = x
  OBVIOUS
<1> QED
  BY <1>1, <1>5, <1>6

(* A fold over a finite set takes out one element after the other; g is the *)
(* function of its subsets that it computes.                               *)
Foldable(S, V, base, pick, step) ==
  /\ IsFiniteSet(S)
  /\ base \in V
  /\ \A s \in SUBSET S : s # {} => pick[s] \in s
  /\ \A x \in S, v \in V : step[x][v] \in V

FoldOf(g, S, V, base, pick, step) ==
  /\ g \in [SUBSET S -> V]
  /\ g[{}] = base
  /\ \A s \in SUBSET S : s # {} => g[s] = step[pick[s]][g[s \ {pick[s]}]]

LEMMA FoldExists ==
  ASSUME NEW S, NEW V, NEW base, NEW pick, NEW step,
         Foldable(S, V, base, pick, step)
  PROVE  \E g : FoldOf(g, S, V, base, pick, step)
<1> USE DEF Foldable
<1> DEFINE Small(n) == {s \in SUBSET S : Cardinality(s) <= n}
           Rule(g, s) == IF s = {} THEN base ELSE step[pick[s]][g[s \ {pick[s]}]]
           Good == {n \in Nat : \E g \in [Small(n) -> V] :
                      \A s \in Small(n) : g[s] = Rule(g, s)}
<1>1. \A s \in SUBSET S : IsFiniteSet(s) /\ Cardinality(s) \in Nat
  BY FS_Subset, FS_CardinalityType
<1>2. 0 \in Good
  <2> DEFINE g == [s \in Small(0) |-> base]
  <2>1. ASSUME NEW s \in Small(0) PROVE s = {}
    <3>1. s \in SUBSET S /\ Cardinality(s) <= 0
      OBVIOUS
    <3>2. Cardinality(s) \in Nat
      BY <1>1, <3>1
    <3>3. Cardinality(s) = 0
      BY <3>1, <3>2
    <3> QED
      BY <1>1, <3>1, <3>3, FS_EmptySet
  <2>2. g \in [Small(0) -> V] /\ \A s \in Small(0) : g[s] = Rule(g, s)
    BY <2>1
  <2> HIDE DEF g
  <2> QED
    BY <2>2
<1>3. ASSUME NEW n \in Good PROVE n + 1 \in Good
  <2>1. PICK g \in [Small(n) -> V] : \A s \in Small(n) : g[s] = Rule(g, s)
    OBVIOUS
  <2> DEFINE h == [s \in Small(n + 1) |-> Rule(g, s)]
  <2>2. ASSUME NEW s \in Small(n + 1), s # {}
        PROVE  s \ {pick[s]} \in Small(n) /\ pick[s] \in S
    <3>1. IsFiniteSet(s) /\ Cardinality(s) \in Nat /\ Cardinality(s) <= n + 1
      BY <1>1
    <3>2. pick[s] \in s
      BY <2>2
    <3>3. Cardinality(s \ {pick[s]}) = Cardinality(s) - 1
      BY <3>1, <3>2, FS_RemoveElement
    <3>4. Cardinality(s \ {pick[s]}) <= n /\ s \ {pick[s]} \in SUBSET S
      BY <3>1, <3>3
    <3> QED
      BY <3>2, <3>4
  <2>3. ASSUME NEW s \in Small(n) PROVE s \in Small(n + 1)
    <3>1. Cardinality(s) \in Nat /\ Cardinality(s) <= n /\ n \in Nat
      BY <1>1
    <3> QED
      BY <3>1
  <2>4. \A s \in Small(n) : h[s] = g[s]
    BY <2>1, <2>3
  <2>5. \A s \in Small(n + 1) : h[s] = Rule(h, s)
    BY <2>2, <2>4
  <2>6. \A s \in Small(n + 1) : Rule(g, s) \in V
    BY <2>2
  <2>7. h \in [Small(n + 1) -> V]
    BY <2>6
  <2>8. \E f \in [Small(n + 1) -> V] : \A s \in Small(n + 1) : f[s] = Rule(f, s)
    <3> HIDE DEF h, Small, Rule
    <3> QED
      BY <2>5, <2>7
  <2>9. n + 1 \in Nat
    OBVIOUS
  <2> QED
    <3> HIDE DEF h, Small, Rule
    <3> QED
      BY <2>8, <2>9
<1>4. Good = Nat
  <2> HIDE DEF Good
  <2>1. Good \subseteq Nat
    BY DEF Good
  <2> QED
    BY <1>2, <1>3, <2>1, Induction
<1>5. Cardinality(S) \in Good
  BY <1>1, <1>4
<1>6. Small(Cardinality(S)) = SUBSET S
  BY FS_Subset
<1>7. PICK g \in [SUBSET S -> V] : \A s \in SUBSET S : g[s] = Rule(g, s)
  BY <1>5, <1>6
<1>8. FoldOf(g, S, V, base, pick, step)
  BY <1>7 DEF FoldOf
<1> QED
  BY <1>8

(* The function of the subsets of S that FoldSet computes when it adds up f *)
SumOf(g, f, S) ==
  g = [s \in SUBSET S |->
         IF s = {} THEN 0
         ELSE g[s \ {CHOOSE x \in s : TRUE}] + f[CHOOSE x \in s : TRUE]]

Countable(f, S) == IsFiniteSet(S) /\ \A x \in S : f[x] \in {0, 1}

LEMMA SumExists ==
  ASSUME NEW S, NEW f, Countable(f, S)
  PROVE  \E g : SumOf(g, f, S)
<1> USE DEF Countable
<1> DEFINE pick == [s \in SUBSET S |-> CHOOSE x \in s : TRUE]
           step == [x \in S |-> [v \in Nat |-> v + f[x]]]
<1>1. \A s \in SUBSET S : s # {} => pick[s] \in s
  OBVIOUS
<1>2. \A x \in S, v \in Nat : step[x][v] \in Nat
  OBVIOUS
<1>3. PICK g : FoldOf(g, S, Nat, 0, pick, step)
  <2>1. Foldable(S, Nat, 0, pick, step)
    BY <1>1, <1>2 DEF Foldable
  <2> HIDE DEF pick, step
  <2> QED
    BY <2>1, FoldExists
<1>4. \A s \in SUBSET S : s # {} =>
         step[pick[s]][g[s \ {pick[s]}]]
           = g[s \ {CHOOSE x \in s : TRUE}] + f[CHOOSE x \in s : TRUE]
  BY <1>3 DEF FoldOf
<1>5. SumOf(g, f, S)
  <2> HIDE DEF pick, step
  <2> QED
    BY <1>3, <1>4 DEF FoldOf, SumOf
<1> QED
  BY <1>5

(* A sum in which at most one summand is not zero *)
Once(f, s) == \E x \in s : f[x] = 1 /\ \A y \in s \ {x} : f[y] = 0
None(f, s) == \A x \in s : f[x] = 0

LEMMA SumOfOnce ==
  ASSUME NEW S, NEW f, NEW g, Countable(f, S), SumOf(g, f, S)
  PROVE  \A s \in SUBSET S : /\ None(f, s) => g[s] = 0
                             /\ Once(f, s) => g[s] = 1
<1> DEFINE Right(s) == (None(f, s) => g[s] = 0) /\ (Once(f, s) => g[s] = 1)
           Good == {n \in Nat : \A s \in SUBSET S : Cardinality(s) = n => Right(s)}
<1>1. \A s \in SUBSET S : IsFiniteSet(s) /\ Cardinality(s) \in Nat
  BY FS_Subset, FS_CardinalityType DEF Countable
<1>2. 0 \in Good
  <2>1. ASSUME NEW s \in SUBSET S, Cardinality(s) = 0 PROVE Right(s)
    <3>1. s = {}
      BY <1>1, <2>1, FS_EmptySet
    <3>2. g[s] = 0
      BY <3>1 DEF SumOf
    <3> QED
      BY <3>1, <3>2 DEF Once
  <2> QED
    BY <2>1
<1>3. ASSUME NEW n \in Good PROVE n + 1 \in Good
  <2>1. ASSUME NEW s \in SUBSET S, Cardinality(s) = n + 1 PROVE Right(s)
    <3>0. n \in Nat
      OBVIOUS
    <3>1. s # {}
      <4>1. Cardinality({}) # n + 1
        BY <3>0, FS_EmptySet
      <4> QED
        BY <2>1, <4>1
    <3>2. PICK x : x = CHOOSE y \in s : TRUE
      OBVIOUS
    <3>3. x \in s /\ f[x] \in {0, 1}
      BY <3>1, <3>2 DEF Countable
    <3> DEFINE r == s \ {x}
    <3>4. r \in SUBSET S /\ Cardinality(r) = n
      <4>1. IsFiniteSet(s) /\ Cardinality(s \ {x}) = Cardinality(s) - 1
        BY <1>1, <3>3, FS_RemoveElement
      <4> QED
        BY <2>1, <3>0, <4>1
    <3>5. Right(r)
      BY <3>4
    <3>6. g[s] = g[r] + f[x]
      BY <3>1, <3>2 DEF SumOf
    <3>7. None(f, s) => g[s] = 0
      BY <3>3, <3>5, <3>6 DEF None
    <3>8. ASSUME Once(f, s) PROVE g[s] = 1
      <4>1. PICK z \in s : f[z] = 1 /\ \A y \in s \ {z} : f[y] = 0
        BY <3>8 DEF Once
      <4>2. CASE z = x
        <5>1. None(f, r)
          BY <4>1, <4>2 DEF None
        <5> QED
          BY <3>5, <3>6, <4>1, <4>2, <5>1
      <4>3. CASE z # x
        <5>1. Once(f, r) /\ f[x] = 0
          BY <3>3, <4>1, <4>3 DEF Once
        <5> QED
          BY <3>5, <3>6, <5>1
      <4> QED
        BY <4>2, <4>3
    <3> QED
      BY <3>7, <3>8
  <2>2. n + 1 \in Nat
    OBVIOUS
  <2> QED
    BY <2>1, <2>2
<1>4. Good = Nat
  <2> HIDE DEF Good
  <2>1. Good \subseteq Nat
    BY DEF Good
  <2> QED
    BY <1>2, <1>3, <2>1, Induction
<1> QED
  BY <1>1, <1>4

(* A list without repetitions has a record once or not at all. *)
In(s, n) == IF n \in ToSet(s) THEN 1 ELSE 0

LEMMA CountedIn ==
  ASSUME NEW S, NEW s \in Seq(S), Distinct(s), NEW n
  PROVE  Cardinality({k \in DOMAIN s : s[k] = n}) = In(s, n)
<1>1. CASE n \in ToSet(s)
  <2>1. PICK k \in DOMAIN s : s[k] = n
    BY <1>1 DEF ToSet
  <2>2. {j \in DOMAIN s : s[j] = n} = {k}
    BY <2>1 DEF Distinct
  <2>3. Cardinality({k}) = 1
    BY FS_Singleton
  <2> QED
    BY <1>1, <2>2, <2>3 DEF In
<1>2. CASE n \notin ToSet(s)
  <2>1. {j \in DOMAIN s : s[j] = n} = {}
    BY <1>2 DEF ToSet
  <2> QED
    BY <1>2, <2>1, FS_EmptySet DEF In
<1> QED
  BY <1>1, <1>2

(* The lists of all threads together *)
LEMMA HandsCounted ==
  ASSUME RecordInv, NEW n \in Cdrs
  PROVE  LET sum == FoldSet(LAMBDA t, total : total
                       + Cardinality({k \in DOMAIN hand[t] : hand[t][k] = n}),
                     0, Threads)
         IN  /\ (\A t \in Threads : n \notin ToSet(hand[t])) => sum = 0
             /\ (\E t \in Threads : n \in ToSet(hand[t])) => sum = 1
<1> DEFINE f == [t \in Threads |-> In(hand[t], n)]
           sum == FoldSet(LAMBDA t, total : total
                       + Cardinality({k \in DOMAIN hand[t] : hand[t][k] = n}),
                     0, Threads)
           H == CHOOSE h : h = [s \in SUBSET Threads |->
                  IF s = {} THEN 0
                  ELSE h[s \ {CHOOSE x \in s : TRUE}]
                         + Cardinality({k \in DOMAIN hand[CHOOSE x \in s : TRUE] :
                             hand[CHOOSE x \in s : TRUE][k] = n})]
<1>1. IsFiniteSet(Threads)
  <2>1. IsFiniteSet(Submitters \cup {CdrThread})
    BY CdrConstants, FS_AddElement
  <2>2. IsFiniteSet((Submitters \cup {CdrThread}) \cup {Reloader})
    BY <2>1, FS_AddElement
  <2>3. IsFiniteSet(((Submitters \cup {CdrThread}) \cup {Reloader}) \cup {Quitter})
    BY <2>2, FS_AddElement
  <2>4. Threads = ((Submitters \cup {CdrThread}) \cup {Reloader}) \cup {Quitter}
    BY DEF Threads
  <2> QED
    BY <2>3, <2>4
<1>2. Countable(f, Threads)
  BY <1>1 DEF Countable, In
<1>3. \A t \in Threads :
         f[t] = Cardinality({k \in DOMAIN hand[t] : hand[t][k] = n})
  <2>1. ASSUME NEW t \in Threads
        PROVE  Cardinality({k \in DOMAIN hand[t] : hand[t][k] = n}) = In(hand[t], n)
    <3>1. hand[t] \in Seq(Cdrs) /\ Distinct(hand[t])
      BY DEF RecordInv, RecordType, Unrepeated
    <3> QED
      BY <3>1, CountedIn
  <2> QED
    BY <2>1
<1>4. sum = H[Threads]
  BY Zenon DEF FoldSet, MapThenFoldSet
<1> HIDE DEF f
<1>5. PICK g : SumOf(g, f, Threads)
  BY <1>2, SumExists
<1>6. \A s \in SUBSET Threads : s # {} =>
         f[CHOOSE x \in s : TRUE]
           = Cardinality({k \in DOMAIN hand[CHOOSE x \in s : TRUE] :
                             hand[CHOOSE x \in s : TRUE][k] = n})
  BY <1>3
<1>7. SumOf(H, f, Threads)
  <2>1. g = [s \in SUBSET Threads |->
               IF s = {} THEN 0
               ELSE g[s \ {CHOOSE x \in s : TRUE}]
                      + Cardinality({k \in DOMAIN hand[CHOOSE x \in s : TRUE] :
                          hand[CHOOSE x \in s : TRUE][k] = n})]
    BY <1>5, <1>6 DEF SumOf
  <2>2. H = [s \in SUBSET Threads |->
               IF s = {} THEN 0
               ELSE H[s \ {CHOOSE x \in s : TRUE}]
                      + Cardinality({k \in DOMAIN hand[CHOOSE x \in s : TRUE] :
                          hand[CHOOSE x \in s : TRUE][k] = n})]
    BY <2>1, Zenon
  <2> HIDE DEF H
  <2> QED
    BY <1>6, <2>2 DEF SumOf
<1> HIDE DEF H, sum
<1>8. (None(f, Threads) => H[Threads] = 0) /\ (Once(f, Threads) => H[Threads] = 1)
  BY <1>2, <1>7, SumOfOnce
<1>9. ASSUME \A t \in Threads : n \notin ToSet(hand[t]) PROVE sum = 0
  BY <1>4, <1>8, <1>9 DEF None, f, In
<1>10. ASSUME NEW t \in Threads, n \in ToSet(hand[t]) PROVE sum = 1
  <2>1. \A u \in Threads \ {t} : n \notin ToSet(hand[u])
    BY <1>10 DEF RecordInv, Apart
  <2>2. Once(f, Threads)
    BY <1>10, <2>1 DEF Once, f, In
  <2> QED
    BY <1>4, <1>8, <2>2
<1> QED
  BY <1>9, <1>10 DEF sum

(* The lists of all detached threads together *)
LEMMA PostersCounted ==
  ASSUME RecordInv, NEW n \in Cdrs
  PROVE  LET sum == FoldSet(LAMBDA p, total : total
                       + Cardinality({k \in DOMAIN p : p[k] = n}),
                     0, posters)
         IN  /\ (\A p \in posters : n \notin ToSet(p)) => sum = 0
             /\ (\E p \in posters : n \in ToSet(p)) => sum = 1
<1> DEFINE f == [p \in posters |-> In(p, n)]
           sum == FoldSet(LAMBDA p, total : total
                       + Cardinality({k \in DOMAIN p : p[k] = n}),
                     0, posters)
           H == CHOOSE h : h = [s \in SUBSET posters |->
                  IF s = {} THEN 0
                  ELSE h[s \ {CHOOSE x \in s : TRUE}]
                         + Cardinality({k \in DOMAIN (CHOOSE x \in s : TRUE) :
                             (CHOOSE x \in s : TRUE)[k] = n})]
<1>2. Countable(f, posters)
  BY DEF Countable, In, RecordInv, RecordType
<1>3. \A p \in posters :
         f[p] = Cardinality({k \in DOMAIN p : p[k] = n})
  <2>1. ASSUME NEW p \in posters
        PROVE  Cardinality({k \in DOMAIN p : p[k] = n}) = In(p, n)
    <3>1. p \in Seq(Cdrs) /\ Distinct(p)
      BY DEF RecordInv, RecordType, Unrepeated
    <3> QED
      BY <3>1, CountedIn
  <2> QED
    BY <2>1
<1>4. sum = H[posters]
  BY Zenon DEF FoldSet, MapThenFoldSet
<1> HIDE DEF f
<1>5. PICK g : SumOf(g, f, posters)
  BY <1>2, SumExists
<1>6. \A s \in SUBSET posters : s # {} =>
         f[CHOOSE x \in s : TRUE]
           = Cardinality({k \in DOMAIN (CHOOSE x \in s : TRUE) :
                             (CHOOSE x \in s : TRUE)[k] = n})
  BY <1>3
<1>7. SumOf(H, f, posters)
  <2>1. g = [s \in SUBSET posters |->
               IF s = {} THEN 0
               ELSE g[s \ {CHOOSE x \in s : TRUE}]
                      + Cardinality({k \in DOMAIN (CHOOSE x \in s : TRUE) :
                          (CHOOSE x \in s : TRUE)[k] = n})]
    BY <1>5, <1>6 DEF SumOf
  <2>2. H = [s \in SUBSET posters |->
               IF s = {} THEN 0
               ELSE H[s \ {CHOOSE x \in s : TRUE}]
                      + Cardinality({k \in DOMAIN (CHOOSE x \in s : TRUE) :
                          (CHOOSE x \in s : TRUE)[k] = n})]
    BY <2>1, Zenon
  <2> HIDE DEF H
  <2> QED
    BY <1>6, <2>2 DEF SumOf
<1> HIDE DEF H, sum
<1>8. (None(f, posters) => H[posters] = 0) /\ (Once(f, posters) => H[posters] = 1)
  BY <1>2, <1>7, SumOfOnce DEF RecordInv, RecordType
<1>9. ASSUME \A p \in posters : n \notin ToSet(p) PROVE sum = 0
  BY <1>4, <1>8, <1>9 DEF None, f, In
<1>10. ASSUME NEW p \in posters, n \in ToSet(p) PROVE sum = 1
  <2>1. \A q \in posters \ {p} : n \notin ToSet(q)
    BY <1>10 DEF RecordInv, Apart
  <2>2. Once(f, posters)
    BY <1>10, <2>1 DEF Once, f, In
  <2> QED
    BY <1>4, <1>8, <2>2
<1> QED
  BY <1>9, <1>10 DEF sum


(* Of the two sets of records that are not posted, one has it, or none. *)
LEMMA FatesCounted ==
  ASSUME RecordInv, NEW n \in Cdrs
  PROVE  Cardinality({s \in {dropped, lost} : n \in s})
           = IF n \in dropped \cup lost THEN 1 ELSE 0
<1>1. dropped \cap lost = {}
  BY DEF RecordInv, Apart
<1>2. CASE n \in dropped
  <2>1. {s \in {dropped, lost} : n \in s} = {dropped}
    BY <1>1, <1>2
  <2> QED
    BY <1>2, <2>1, FS_Singleton
<1>3. CASE n \in lost
  <2>1. {s \in {dropped, lost} : n \in s} = {lost}
    BY <1>1, <1>3
  <2> QED
    BY <1>3, <2>1, FS_Singleton
<1>4. CASE n \notin dropped \cup lost
  <2>1. {s \in {dropped, lost} : n \in s} = {}
    BY <1>4
  <2> QED
    BY <1>4, <2>1, FS_EmptySet
<1> QED
  BY <1>2, <1>3, <1>4

LEMMA InOnePlace ==
  ASSUME RecordInv
  PROVE  RecordInOnePlace
<1> SUFFICES ASSUME NEW n \in Cdrs
             PROVE  Occurrences(n) = IF n <= ndetached THEN 1 ELSE 0
  BY DEF RecordInOnePlace
<1> DEFINE hands == FoldSet(LAMBDA t, total : total
                       + Cardinality({k \in DOMAIN hand[t] : hand[t][k] = n}),
                     0, Threads)
           posting == FoldSet(LAMBDA p, total : total
                       + Cardinality({k \in DOMAIN p : p[k] = n}),
                     0, posters)
           held    == \E t \in Threads : n \in ToSet(hand[t])
           taken == \E p \in posters : n \in ToSet(p)
<1>1. Occurrences(n) = In(batch, n) + posted[n] + hands + posting
                         + (IF n \in dropped \cup lost THEN 1 ELSE 0)
  <2>1. Cardinality({k \in DOMAIN batch : batch[k] = n}) = In(batch, n)
    BY CountedIn DEF RecordInv, RecordType, Unrepeated
  <2>2. Occurrences(n) = Cardinality({k \in DOMAIN batch : batch[k] = n}) + posted[n]
                           + hands + posting
                           + Cardinality({s \in {dropped, lost} : n \in s})
    BY Zenon DEF Occurrences
  <2> QED
    BY <2>1, <2>2, FatesCounted
<1>2. (~held => hands = 0) /\ (held => hands = 1)
  BY HandsCounted
<1>3. (~taken => posting = 0) /\ (taken => posting = 1)
  BY PostersCounted
<1> HIDE DEF hands, posting
<1>4. posted[n] \in {0, 1}
  BY DEF RecordInv, RecordType
<1>5. n <= ndetached <=> \/ n \in ToSet(batch) \/ held \/ taken
                         \/ n \in dropped \cup lost \/ posted[n] = 1
  BY DEF RecordInv, Accounted, Finished
<1>6. /\ n \in ToSet(batch) => ~held /\ ~taken
      /\ held => ~taken
      /\ n \in ToSet(batch) \/ held \/ taken =>
           n \notin dropped \cup lost /\ posted[n] = 0
      /\ n \in dropped \cup lost => posted[n] = 0
  BY <1>4 DEF RecordInv, Apart, Finished
<1> HIDE DEF held, taken
<1> QED
  BY <1>1, <1>2, <1>3, <1>4, <1>5, <1>6 DEF In

(* RecordInOnePlace: a record that was detached is in one place, the batch, *)
(* the hands of a thread or of one detached thread, or it has had one      *)
(* fate: posted once, dropped, or lost with the thread.                    *)
THEOREM RecordsInOnePlace == CdrSpec => []RecordInOnePlace
<1>1. CdrInit => LoadInv /\ RecordInv /\ <<>> \notin posters
  BY LoadInvInit, RecordInvInit DEF CdrInit
<1>2. LoadInv /\ RecordInv /\ <<>> \notin posters /\ [CdrNext]_cdrVars
        => (LoadInv /\ RecordInv /\ <<>> \notin posters)'
  BY LoadInvNext, RecordInvNext
<1>3. RecordInv => RecordInOnePlace
  BY InOnePlace
<1> QED
  BY <1>1, <1>2, <1>3, PTL DEF CdrSpec
=============================================================================
