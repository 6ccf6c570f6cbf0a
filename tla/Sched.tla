------------------------------- MODULE Sched -------------------------------
(***************************************************************************)
(* The scheduler of main/sched.c and include/trismedia/sched.h with its    *)
(* dedicated thread (sched_run), and the code that uses it: owners, each   *)
(* of which has data with at most one event, whose id it keeps in a        *)
(* variable, and for which the scheduler holds a reference of the data.    *)
(*                                                                         *)
(* The heap and the hash table of a context are sets of event ids; that    *)
(* the heap of main/heap.c is a priority queue is shown in Heap.  Time is  *)
(* counted in ticks, several of which make a millisecond.  The critical    *)
(* section of con->lock is a step.  st->lock is held by the thread from    *)
(* "lock" until it waits; everybody else's critical section is a step.     *)
(* Local variables are reset where they go out of use.                     *)
(***************************************************************************)
EXTENDS Integers, FiniteSets

CONSTANTS
  Owners,    \* pieces of data with an event, each with a thread of its own
  Ops,       \* the macros that its thread uses
  Locked,    \* whether it holds a lock in them that the callback takes, too
  MaxId,     \* bound: events ever added
  MaxTime,   \* bound: when the last of them is due
  MaxAgain,  \* bound: how often a callback asks to be run again
  Delays,    \* the milliseconds an event is added for
  Ms,        \* ticks in a millisecond
  DelTries,  \* attempts of TRIS_SCHED_DEL, 10 in the code
  MayFail,   \* whether allocation may fail
  NoOwner    \* NULL

ASSUME SchedConstants ==
  /\ IsFiniteSet(Owners)
  /\ Ops \subseteq {"del", "unref", "replace"}
  /\ Locked \in BOOLEAN
  /\ MaxId \in Nat /\ MaxTime \in Nat /\ MaxAgain \in Nat
  /\ Delays \subseteq Nat
  /\ Ms \in Nat \ {0}
  /\ DelTries \in Nat \ {0}
  /\ MayFail \in BOOLEAN
  /\ NoOwner \notin Owners

Ids    == 1 .. MaxId
NoId   == -1
Never  == -1        \* no deadline: tris_cond_wait
NoTime == 0

VARIABLES
  now,      \* tris_tvnow()
  eventcnt, \* con->eventcnt, the next id
  heap,     \* the events in con->sched_heap
  table,    \* the events in con->schedq_ht
  due,      \* s->when of each event
  resched,  \* s->resched
  owner,    \* s->data
  tpc,      \* where sched_run is
  ms,       \* its variable ms
  deadline, \* when its tris_cond_timedwait ends
  limit,    \* the variable when of tris_sched_runq
  cur,      \* the variable current of tris_sched_runq
  stop,     \* st->stop
  dpc,      \* where tris_sched_thread_destroy is
  opc,      \* where each owner is
  oid,      \* the variable in which it keeps the id of its event
  oop,      \* the macro it uses
  seen,     \* _data in TRIS_SCHED_REPLACE_VARIABLE_UNREF is not NULL
  tries,    \* _count
  refs,     \* references of its data that belong to the scheduler
  nagain,   \* callbacks that asked to be run again so far
  head,     \* history: the event the thread sleeps or has slept for
  deleted,  \* history: events of which tris_sched_del returned 0
  gaveup    \* history: owners whose macro ran out of attempts

conVars   == <<eventcnt, heap, table, due, resched, owner>>
runVars   == <<ms, deadline, limit, cur, head>>
ownerVars == <<opc, oid, oop, seen, tries, refs>>
histVars  == <<deleted, gaveup>>
vars == <<now, conVars, tpc, runVars, stop, dpc, ownerVars, nagain, histVars>>

TypeOK ==
  /\ now \in 0 .. MaxTime
  /\ eventcnt \in 1 .. MaxId + 1
  /\ heap \in SUBSET Ids
  /\ table \in SUBSET Ids
  /\ due \in [Ids -> 0 .. MaxTime]
  /\ resched \in [Ids -> Delays \cup {0}]
  /\ owner \in [Ids -> Owners \cup {NoOwner}]
  /\ tpc \in {"top", "lock", "sleep", "wait", "woken", "timedout", "runq",
              "loop", "callback", "exit"}
  /\ ms \in Nat \cup {Never}
  /\ deadline \in Nat \cup {Never}
  /\ limit \in Nat
  /\ cur \in Ids \cup {NoId}
  /\ stop \in BOOLEAN
  /\ dpc \in {"no", "join", "gone"}
  /\ opc \in [Owners -> {"idle", "del", "add", "poke"}]
  /\ oid \in [Owners -> Ids \cup {NoId}]
  /\ oop \in [Owners -> {"del", "unref", "replace"}]
  /\ seen \in [Owners -> BOOLEAN]
  /\ tries \in [Owners -> 0 .. DelTries]
  /\ refs \in [Owners -> Int]
  /\ nagain \in 0 .. MaxAgain
  /\ head \in Ids \cup {NoId}
  /\ deleted \in SUBSET Ids
  /\ gaveup \in SUBSET Owners

(* tris_sched_thread_create and sched_context_create *)
Init ==
  /\ now = 0
  /\ eventcnt = 1
  /\ heap = {}
  /\ table = {}
  /\ due = [id \in Ids |-> NoTime]
  /\ resched = [id \in Ids |-> 0]
  /\ owner = [id \in Ids |-> NoOwner]
  /\ tpc = "top"
  /\ ms = Never
  /\ deadline = Never
  /\ limit = NoTime
  /\ cur = NoId
  /\ stop = FALSE
  /\ dpc = "no"
  /\ opc = [o \in Owners |-> "idle"]
  /\ oid = [o \in Owners |-> NoId]
  /\ oop = [o \in Owners |-> "del"]
  /\ seen = [o \in Owners |-> FALSE]
  /\ tries = [o \in Owners |-> 0]
  /\ refs = [o \in Owners |-> 0]
  /\ nagain = 0
  /\ head = NoId
  /\ deleted = {}
  /\ gaveup = {}

-----------------------------------------------------------------------------
(* Helpers *)

Later(t, u) == IF t < u THEN u ELSE t

(* sched_settime: when ms from t, but not in the past *)
sched_settime(t, when) == Later(t + when * Ms, now)

(* tris_heap_peek(con->sched_heap, 1) is one of these. *)
Soonest == {id \in heap : \A other \in heap : due[id] <= due[other]}

(* schedule: its caller is not told when tris_heap_push fails, in which    *)
(* case the heap is left empty.                                            *)
schedule(id) ==
  /\ \/ heap' = heap \cup {id}
     \/ MayFail /\ heap' = {}
  /\ table' = table \cup {id}

(* tris_sched_add_variable for owner o, due in when ms *)
AddEvent(o, when) ==
  LET id == eventcnt IN
  /\ id <= MaxId
  /\ sched_settime(now, when) <= MaxTime
  /\ eventcnt' = id + 1
  /\ owner' = [owner EXCEPT ![id] = o]
  /\ due' = [due EXCEPT ![id] = sched_settime(now, when)]
  /\ resched' = [resched EXCEPT ![id] = when]
  /\ schedule(id)

(* The part of tris_sched_del that removes an event it has found.  The     *)
(* heap finds it by an index which, if the heap has lost it, is another's  *)
(* or nobody's.                                                            *)
RemoveEvent(id) ==
  /\ table' = table \ {id}
  /\ IF id \in heap
       THEN heap' = heap \ {id}
       ELSE heap' = heap \/ \E other \in heap : heap' = heap \ {other}
  /\ deleted' = deleted \cup {id}

(* tris_cond_signal(&st->cond), with st->lock *)
SignalNobody == UNCHANGED tpc  \* mutant: the signal is forgotten
Signal ==
  /\ tpc # "sleep"
  /\ tpc' = IF tpc = "wait" THEN "woken" ELSE tpc

OwnerAt(o, pc) == opc' = [opc EXCEPT ![o] = pc]
Ref(o, n)      == refs' = [refs EXCEPT ![o] = @ + n]
Id(o, id)      == oid' = [oid EXCEPT ![o] = id]

-----------------------------------------------------------------------------
(* Owners *)

(* tris_sched_thread_add(_variable), with a reference for the scheduler *)
Add(o, when) ==
  /\ dpc = "no"
  /\ opc[o] = "idle"
  /\ oid[o] = NoId
  /\ AddEvent(o, when)
  /\ Signal
  /\ Id(o, eventcnt)
  /\ Ref(o, 1)
  /\ UNCHANGED <<now, runVars, stop, dpc, opc, oop, seen, tries, nagain,
                 histVars>>

(* A macro begins.  TRIS_SCHED_REPLACE_VARIABLE_UNREF first looks up the   *)
(* event's data.                                                           *)
Begin(o, op) ==
  /\ dpc = "no"
  /\ opc[o] = "idle"
  /\ oid[o] # NoId
  /\ oop' = [oop EXCEPT ![o] = op]
  /\ seen' = [seen EXCEPT ![o] = oid[o] \in table]
  /\ OwnerAt(o, "del")
  /\ UNCHANGED <<now, conVars, tpc, runVars, stop, dpc, oid, tries, refs,
                 nagain, histVars>>

(* The macro's loop has ended and drops the scheduler's reference if unref *)
(* holds; the macros that replace an event go on to add one.               *)
LoopEnds(o, unref) ==
  /\ Ref(o, IF unref THEN -1 ELSE 0)
  /\ OwnerAt(o, IF oop[o] = "replace" THEN "add" ELSE "idle")
  /\ Id(o, NoId)
  /\ seen' = [seen EXCEPT ![o] = FALSE]
  /\ tries' = [tries EXCEPT ![o] = 0]
  /\ oop' = [oop EXCEPT ![o] = "del"]
  /\ UNCHANGED <<now, eventcnt, due, resched, owner, tpc, runVars, stop, dpc,
                 nagain>>

(* tris_sched_del returns 0.  After TRIS_SCHED_DEL it is the caller who    *)
(* then drops the reference.                                               *)
DelFound(o) ==
  /\ opc[o] = "del"
  /\ oid[o] \in table
  /\ RemoveEvent(oid[o])
  /\ LoopEnds(o, oop[o] = "replace" => seen[o])
  /\ UNCHANGED gaveup

(* mutant: the reference is dropped without a look at the id *)
DelGoneUnref(o) ==
  /\ opc[o] = "del"
  /\ oid[o] = NoId
  /\ LoopEnds(o, oop[o] = "unref")
  /\ UNCHANGED <<heap, table, histVars>>

(* The callback has set the id to -1: there is nothing left to delete. *)
DelGone(o) ==
  /\ opc[o] = "del"
  /\ oid[o] = NoId
  /\ LoopEnds(o, FALSE)
  /\ UNCHANGED <<heap, table, histVars>>

(* tris_sched_del returns -1: usleep(1) and try again. *)
DelRetry(o) ==
  /\ opc[o] = "del"
  /\ oid[o] \notin table \cup {NoId}
  /\ tries[o] + 1 < DelTries
  /\ tries' = [tries EXCEPT ![o] = @ + 1]
  /\ UNCHANGED <<now, conVars, tpc, runVars, stop, dpc, opc, oid, oop, seen,
                 refs, nagain, histVars>>

(* The last attempt fails.  TRIS_SCHED_DEL_UNREF drops the reference all   *)
(* the same, and so does TRIS_SCHED_REPLACE_VARIABLE_UNREF, for which      *)
(* _res is then 0, if it found the data.                                   *)
DelGivesUp(o) ==
  /\ opc[o] = "del"
  /\ oid[o] \notin table \cup {NoId}
  /\ tries[o] + 1 >= DelTries
  /\ LoopEnds(o, oop[o] = "unref" \/ (oop[o] = "replace" /\ seen[o]))
  /\ gaveup' = gaveup \cup {o}
  /\ UNCHANGED <<heap, table, deleted>>

(* The macros that replace an event: tris_sched_add_variable, and then     *)
(* tris_sched_thread_poke.  The reference taken for the event is dropped   *)
(* again when it cannot be added.                                          *)
ReplaceAdd(o, when) ==
  /\ opc[o] = "add"
  /\ AddEvent(o, when)
  /\ Id(o, eventcnt)
  /\ Ref(o, 1)
  /\ OwnerAt(o, "poke")
  /\ UNCHANGED <<now, tpc, runVars, stop, dpc, oop, seen, tries, nagain,
                 histVars>>

ReplaceAddFails(o) ==
  /\ opc[o] = "add"
  /\ MayFail \/ eventcnt > MaxId
  /\ OwnerAt(o, "idle")
  /\ UNCHANGED <<now, conVars, tpc, runVars, stop, dpc, oid, oop, seen, tries,
                 refs, nagain, histVars>>

Poke(o) ==
  /\ opc[o] = "poke"
  /\ Signal
  /\ OwnerAt(o, "idle")
  /\ UNCHANGED <<now, conVars, runVars, stop, dpc, oid, oop, seen, tries,
                 refs, nagain, histVars>>

-----------------------------------------------------------------------------
(* sched_run *)

ThreadUnchanged ==
  UNCHANGED <<now, eventcnt, resched, stop, dpc, opc, oop, seen, tries,
              histVars>>
QueueUnchanged == UNCHANGED <<heap, table, due, owner, oid, refs, nagain>>

(* while (!st->stop), read without the lock *)
ThreadTop ==
  /\ tpc = "top"
  /\ tpc' = IF stop THEN "exit" ELSE "lock"
  /\ UNCHANGED runVars
  /\ QueueUnchanged
  /\ ThreadUnchanged

(* tris_sched_wait: milliseconds until the first event, rounded down *)
WaitMs(id) == Later((due[id] - now) \div Ms, 0)

(* mutant: st->stop is not tested again with the lock *)
ThreadLockOnce ==
  /\ tpc = "lock"
  /\ tpc' = "sleep"
  /\ IF heap = {} THEN ms' = Never /\ head' = NoId
     ELSE \E id \in Soonest : ms' = WaitMs(id) /\ head' = id
  /\ UNCHANGED <<deadline, limit, cur>>
  /\ QueueUnchanged
  /\ ThreadUnchanged

(* Take the lock, test st->stop again and ask for the time to wait. *)
ThreadLock ==
  /\ tpc = "lock"
  /\ IF stop
       THEN tpc' = "exit" /\ UNCHANGED <<ms, head>>
       ELSE /\ tpc' = "sleep"
            /\ IF heap = {} THEN ms' = Never /\ head' = NoId
               ELSE \E id \in Soonest : ms' = WaitMs(id) /\ head' = id
  /\ UNCHANGED <<deadline, limit, cur>>
  /\ QueueUnchanged
  /\ ThreadUnchanged

(* tris_cond_wait or tris_cond_timedwait, which release the lock *)
ThreadSleep ==
  /\ tpc = "sleep"
  /\ tpc' = "wait"
  /\ deadline' = IF ms = Never THEN Never ELSE now + ms * Ms
  /\ ms' = Never
  /\ UNCHANGED <<limit, cur, head>>
  /\ QueueUnchanged
  /\ ThreadUnchanged

(* The wait times out.  From MaxTime on every event is due and times are   *)
(* not told apart: a deadline after it is then reached.                    *)
ThreadTimeout ==
  /\ tpc = "wait"
  /\ deadline # Never
  /\ now >= deadline \/ now = MaxTime
  /\ tpc' = "timedout"
  /\ UNCHANGED runVars
  /\ QueueUnchanged
  /\ ThreadUnchanged

(* POSIX lets a wait end although nobody signalled. *)
ThreadSpurious ==
  /\ tpc = "wait"
  /\ tpc' = "woken"
  /\ UNCHANGED runVars
  /\ QueueUnchanged
  /\ ThreadUnchanged

ThreadWoken ==
  /\ tpc \in {"woken", "timedout"}
  /\ tpc' = IF stop THEN "exit" ELSE "runq"
  /\ head' = IF tpc = "timedout" THEN head ELSE NoId
  /\ UNCHANGED <<ms, deadline, limit, cur>>
  /\ QueueUnchanged
  /\ ThreadUnchanged

(* mutant: only what is due now is run *)
RunqStartStrict ==
  /\ tpc = "runq"
  /\ tpc' = "loop"
  /\ limit' = now
  /\ deadline' = Never
  /\ UNCHANGED <<ms, cur, head>>
  /\ QueueUnchanged
  /\ ThreadUnchanged

(* tris_sched_runq: what is due within a millisecond from now is run. *)
RunqStart ==
  /\ tpc = "runq"
  /\ tpc' = "loop"
  /\ limit' = now + Ms
  /\ deadline' = Never
  /\ UNCHANGED <<ms, cur, head>>
  /\ QueueUnchanged
  /\ ThreadUnchanged

(* mutant: the event stays in the hash table while its callback runs *)
RunqPopHeap ==
  /\ tpc = "loop"
  /\ \E id \in Soonest :
       /\ due[id] < limit
       /\ heap' = heap \ {id}
       /\ cur' = id
  /\ tpc' = "callback"
  /\ head' = NoId
  /\ UNCHANGED <<table, due, owner, oid, refs, nagain, ms, deadline, limit>>
  /\ ThreadUnchanged

(* mutant: the test of the first event's time is dropped *)
RunqPopAny ==
  /\ tpc = "loop"
  /\ \E id \in Soonest :
       /\ heap' = heap \ {id}
       /\ table' = table \ {id}
       /\ cur' = id
  /\ tpc' = "callback"
  /\ head' = NoId
  /\ UNCHANGED <<due, owner, oid, refs, nagain, ms, deadline, limit>>
  /\ ThreadUnchanged

(* The first event leaves the heap and the hash table; its callback runs   *)
(* without the context's lock.                                             *)
RunqPop ==
  /\ tpc = "loop"
  /\ \E id \in Soonest :
       /\ due[id] < limit
       /\ heap' = heap \ {id}
       /\ table' = table \ {id}
       /\ cur' = id
       /\ head' = IF id = head THEN NoId ELSE head
  /\ tpc' = "callback"
  /\ UNCHANGED <<due, owner, oid, refs, nagain, ms, deadline, limit>>
  /\ ThreadUnchanged

RunqEnd ==
  /\ tpc = "loop"
  /\ \A id \in heap : due[id] >= limit
  /\ tpc' = "top"
  /\ limit' = NoTime
  /\ head' = NoId
  /\ UNCHANGED <<ms, deadline, cur>>
  /\ QueueUnchanged
  /\ ThreadUnchanged

-----------------------------------------------------------------------------
(* The callback.  It does what it does under the lock of its data, if that *)
(* is how the owner works, and then returns.                               *)

CallbackReturns(o) ==
  /\ tpc = "callback"
  /\ owner[cur] = o
  /\ Locked => opc[o] = "idle"
  /\ tpc' = "loop"
  /\ cur' = NoId
  /\ UNCHANGED <<now, ms, deadline, limit, head, stop, dpc, opc, oop, seen,
                 tries, histVars>>

(* It forgets its id, drops the reference and returns 0. *)
CallbackDone(o) ==
  /\ CallbackReturns(o)
  /\ Id(o, NoId)
  /\ Ref(o, -1)
  /\ UNCHANGED <<conVars, nagain>>

(* It returns another number: the event is scheduled again under the same  *)
(* id, after the time it was added for or, if it is variable, the number.  *)
CallbackAgain(o, when) ==
  /\ CallbackReturns(o)
  /\ nagain < MaxAgain
  /\ nagain' = nagain + 1
  /\ when = resched[cur] \/ when > 0
  /\ sched_settime(due[cur], when) <= MaxTime
  /\ due' = [due EXCEPT ![cur] = sched_settime(due[cur], when)]
  /\ schedule(cur)
  /\ UNCHANGED <<eventcnt, resched, owner, oid, refs>>

(* mutant: the callback's new id is not kept *)
CallbackAddsForgets(o, when) ==
  /\ CallbackReturns(o)
  /\ AddEvent(o, when)
  /\ UNCHANGED <<oid, refs, nagain>>

(* It adds a new event, keeps its id and returns 0. *)
CallbackAdds(o, when) ==
  /\ CallbackReturns(o)
  /\ AddEvent(o, when)
  /\ Id(o, eventcnt)
  /\ UNCHANGED <<refs, nagain>>

-----------------------------------------------------------------------------
(* tris_sched_thread_destroy, when no owner uses the scheduler any more *)

DestroyStop ==
  /\ dpc = "no"
  /\ \A o \in Owners : opc[o] = "idle"
  /\ stop' = TRUE
  /\ Signal
  /\ dpc' = "join"
  /\ UNCHANGED <<now, conVars, runVars, ownerVars, nagain, histVars>>

DestroyJoin ==
  /\ dpc = "join"
  /\ tpc = "exit"
  /\ dpc' = "gone"
  /\ heap' = {}
  /\ table' = {}
  /\ UNCHANGED <<now, eventcnt, due, resched, owner, tpc, runVars, stop,
                 ownerVars, nagain, histVars>>

Tick ==
  /\ now < MaxTime
  /\ now' = now + 1
  /\ UNCHANGED <<conVars, tpc, runVars, stop, dpc, ownerVars, nagain,
                 histVars>>

-----------------------------------------------------------------------------
OwnerStep(o) ==
  \/ \E when \in Delays : Add(o, when) \/ ReplaceAdd(o, when)
  \/ \E op \in Ops : Begin(o, op)
  \/ DelFound(o) \/ DelGone(o) \/ DelRetry(o) \/ DelGivesUp(o)
  \/ ReplaceAddFails(o) \/ Poke(o)

ThreadStep ==
  \/ ThreadTop \/ ThreadLock \/ ThreadSleep \/ ThreadTimeout
  \/ ThreadSpurious \/ ThreadWoken \/ RunqStart \/ RunqPop \/ RunqEnd

CallbackStep(o) ==
  \/ CallbackDone(o)
  \/ \E when \in Delays : CallbackAgain(o, when) \/ CallbackAdds(o, when)

Next ==
  \/ \E o \in Owners : OwnerStep(o) \/ CallbackStep(o)
  \/ ThreadStep
  \/ DestroyStop \/ DestroyJoin
  \/ Tick

Spec == Init /\ [][Next]_vars

(* Time passes, the thread is scheduled and callbacks return; a wait ends  *)
(* by its deadline or by a signal.  A macro, once begun, goes on.          *)
Fairness ==
  /\ WF_vars(Tick)
  /\ WF_vars(DestroyJoin)
  /\ WF_vars(ThreadTop \/ ThreadLock \/ ThreadSleep \/ ThreadTimeout
               \/ ThreadWoken \/ RunqStart \/ RunqPop \/ RunqEnd)
  /\ \A o \in Owners :
       /\ WF_vars(CallbackStep(o))
       /\ WF_vars(DelFound(o) \/ DelGone(o) \/ DelRetry(o) \/ DelGivesUp(o))
       /\ WF_vars(ReplaceAddFails(o)
                    \/ \E when \in Delays : ReplaceAdd(o, when))
       /\ WF_vars(Poke(o))

FairSpec == Spec /\ Fairness

-----------------------------------------------------------------------------
(* Properties *)

(* The events of an owner that may still run, or are running *)
Live(o) == {id \in table : owner[id] = o}
             \cup {id \in {cur} \ {NoId} : owner[id] = o}

(* An event of which tris_sched_del returned 0 never runs again: it is not *)
(* running at that moment, and a callback that returns does not bring it   *)
(* back.                                                                   *)
DeletedStaysDeleted == deleted \cap (heap \cup table \cup {cur}) = {}

(* The scheduler has exactly as many references of an owner's data as it   *)
(* has events of it, whichever way callback and macro meet, unless a macro *)
(* has run out of attempts.  (Destroying the scheduler throws events away, *)
(* and their references with them.)                                        *)
RefsExact ==
  dpc # "gone" =>
    \A o \in Owners \ gaveup : refs[o] = Cardinality(Live(o))

(* An owner's variable names its only event, unless a macro has run out of *)
(* attempts: no event is forgotten, also when the callback gives it a new  *)
(* id while a macro is at work.                                            *)
IdNamesEvent ==
  dpc # "gone" =>
    \A o \in Owners \ gaveup : Live(o) = {oid[o]} \ {NoId}

(* A callback never runs a millisecond or more before its event is due.    *)
NotEarly == tpc = "callback" => due[cur] < now + Ms

(* When the thread's wait has timed out and the event it waited for is     *)
(* still there, tris_sched_runq takes it for due: that tris_sched_wait     *)
(* rounds down to whole milliseconds does not make the thread spin.        *)
TimeoutIsEnough ==
  tpc = "loop" /\ head \in heap => due[head] < limit

(* Every event that is added is run, deleted or thrown away: no signal to  *)
(* the thread is lost.                                                     *)
EventHandled == \A id \in Ids : (id \in heap) ~> (id \notin heap)

(* tris_sched_thread_destroy returns. *)
DestroyEnds == (dpc = "join") ~> (dpc = "gone")

=============================================================================
