--------------------------- MODULE TaskProcessor ---------------------------
(***************************************************************************)
(* The task processor of main/taskprocessor.c: a reference counted object, *)
(* one per name, that owns a queue and a thread which executes the queued  *)
(* tasks one after the other.                                              *)
(*                                                                         *)
(* One name is modelled; the objects created for it, one after the other,  *)
(* are the instances 1..MaxInst (an address is never reused, so that a use *)
(* of a freed object shows).  Users are the threads of modules that call   *)
(* tris_taskprocessor_get, _push and _unreference; CliThreads run the CLI  *)
(* commands, which take and drop references without _unreference.          *)
(*                                                                         *)
(* A critical section of an instance's taskprocessor_lock is one step, and *)
(* so is one of the container lock, except in _unreference: there the CLI, *)
(* which drops its reference without that lock, runs between the calls.    *)
(***************************************************************************)
EXTENDS Integers, Sequences, FiniteSets

CONSTANTS
  Users,        \* threads of the modules that use the processor
  CliThreads,   \* threads that run "core ping/show taskprocessors"
  MaxInst,      \* bound: instances ever allocated
  MaxTask,      \* bound: tasks ever pushed
  MayFail,      \* whether allocations and thread creation may fail
  NoThread      \* nobody: the value of a free lock

ASSUME TPConstants ==
  /\ MaxInst \in Nat
  /\ MaxTask \in Nat
  /\ MayFail \in BOOLEAN
  /\ IsFiniteSet(Users)
  /\ IsFiniteSet(CliThreads)
  /\ Users \cap CliThreads = {}
  /\ NoThread \notin Users \cup CliThreads

Threads == Users \cup CliThreads
Inst    == 1 .. MaxInst
NoInst  == 0
Kinds   == {"user", "ping"}
Task    == [id : 1 .. MaxTask, kind : Kinds]
NoTask  == [id |-> 0, kind |-> "user"]

VARIABLES
  nalloc,     \* instances allocated so far
  npush,      \* tasks pushed so far; a task's id is its place in push order
  contlock,   \* holder of the lock of tps_singletons
  linked,     \* the instances tps_singletons holds
  refc,       \* reference counter of each instance
  life,       \* whether an instance's memory is unused, live or freed
  run,        \* poll_thread_run
  queue,      \* tps_queue; tps_queue_size is its length
  wpc,        \* where tps_processing_function is
  wsize,      \* its local variable size
  wtask,      \* its local variable t
  processed,  \* stats->_tasks_processed_count
  maxq,       \* stats->max_qsize
  executed,   \* history: ids of the tasks executed, in order
  tpc,        \* where each thread is in the operation it performs
  tinst,      \* the instance it performs it on
  pinglock    \* holder of cli_ping_cond_lock

instVars   == <<refc, life, run>>
workerVars == <<wpc, wsize, wtask, processed, maxq, executed>>
vars == <<nalloc, npush, contlock, linked, instVars, queue, workerVars,
          tpc, tinst, pinglock>>

WorkerPcs == {"never", "top", "check", "wait", "woken", "pop", "exec",
              "stats", "drain", "done"}
ThreadPcs == {"idle", "hold", "unref", "relink", "cli", "pinging", "drop",
              "destroy", "join", "crash"}

(* The places at which a thread owns one reference of tinst[t]. *)
OwnerPcs == {"hold", "unref", "cli", "pinging", "drop"}

TypeOK ==
  /\ nalloc \in 0 .. MaxInst
  /\ npush \in 0 .. MaxTask
  /\ contlock \in Threads \cup {NoThread}
  /\ linked \in SUBSET Inst
  /\ refc \in [Inst -> Nat]
  /\ life \in [Inst -> {"unused", "live", "freed"}]
  /\ run \in [Inst -> BOOLEAN]
  /\ queue \in [Inst -> Seq(Task)]
  /\ wpc \in [Inst -> WorkerPcs]
  /\ wsize \in [Inst -> Nat]
  /\ wtask \in [Inst -> Task \cup {NoTask}]
  /\ processed \in [Inst -> Nat]
  /\ maxq \in [Inst -> Nat]
  /\ executed \in [Inst -> Seq(1 .. MaxTask)]
  /\ tpc \in [Threads -> ThreadPcs]
  /\ tinst \in [Threads -> Inst \cup {NoInst}]
  /\ pinglock \in CliThreads \cup {NoThread}

Init ==
  /\ nalloc = 0
  /\ npush = 0
  /\ contlock = NoThread
  /\ linked = {}
  /\ refc = [i \in Inst |-> 0]
  /\ life = [i \in Inst |-> "unused"]
  /\ run = [i \in Inst |-> FALSE]
  /\ queue = [i \in Inst |-> <<>>]
  /\ wpc = [i \in Inst |-> "never"]
  /\ wsize = [i \in Inst |-> 0]
  /\ wtask = [i \in Inst |-> NoTask]
  /\ processed = [i \in Inst |-> 0]
  /\ maxq = [i \in Inst |-> 0]
  /\ executed = [i \in Inst |-> <<>>]
  /\ tpc = [t \in Threads |-> "idle"]
  /\ tinst = [t \in Threads |-> NoInst]
  /\ pinglock = NoThread

-----------------------------------------------------------------------------
(* Threads: helpers *)

Goto(t, pc) == tpc' = [tpc EXCEPT ![t] = pc]

(* tris_cond_signal(&poll_cond): a worker asleep in tris_cond_wait wakes. *)
NoSignal(i) == UNCHANGED wpc  \* mutant: the signal is forgotten
SignalWorker(i) ==
  wpc' = [wpc EXCEPT ![i] = IF @ = "wait" THEN "woken" ELSE @]

(* ao2_link: the container takes a reference of its own. *)
LinkNoRef(i) == linked' = linked \cup {i} /\ UNCHANGED refc  \* mutant
Link(i) ==
  /\ linked' = linked \cup {i}
  /\ refc' = [refc EXCEPT ![i] = @ + 1]

(* TRIS_LIST_INSERT_TAIL, tps_queue_size++ and tris_cond_signal *)
EnqueueAtHead(i, kind) ==  \* mutant
  /\ npush < MaxTask
  /\ npush' = npush + 1
  /\ queue' = [queue EXCEPT ![i] = <<[id |-> npush + 1, kind |-> kind]>> \o @]
  /\ SignalWorker(i)
Enqueue(i, kind) ==
  /\ npush < MaxTask
  /\ npush' = npush + 1
  /\ queue' = [queue EXCEPT ![i] =
                 Append(@, [id |-> npush + 1, kind |-> kind])]
  /\ SignalWorker(i)

(* mutant: the destructor runs one reference too early *)
DropRefEarly(t, pc) ==
  LET i == tinst[t] IN
  /\ refc' = [refc EXCEPT ![i] = @ - 1]
  /\ Goto(t, IF refc[i] <= 2 THEN "destroy" ELSE pc)

(* ao2_ref(tps, -1): whoever drops the last reference runs the destructor, *)
(* the others go on at pc.                                                 *)
DropRef(t, pc) ==
  LET i == tinst[t] IN
  /\ refc' = [refc EXCEPT ![i] = @ - 1]
  /\ Goto(t, IF refc[i] = 1 THEN "destroy" ELSE pc)

(* ao2_find or ao2_iterator_next: a reference of an instance in the        *)
(* container, taken under its lock.                                        *)
TakeRef(t, pc) ==
  /\ tpc[t] = "idle"
  /\ contlock = NoThread
  /\ \E i \in linked : /\ refc' = [refc EXCEPT ![i] = @ + 1]
                       /\ tinst' = [tinst EXCEPT ![t] = i]
  /\ Goto(t, pc)
  /\ UNCHANGED <<nalloc, npush, contlock, linked, life, run, queue,
                 workerVars, pinglock>>

-----------------------------------------------------------------------------
(* tris_taskprocessor_get *)

(* The name is in the container: take a reference of the linked instance. *)
GetExisting(t) == t \in Users /\ TakeRef(t, "hold")

(* The name is not there: allocate an instance whose reference count is    *)
(* refs, whose worker is at wstart, and that is linked if link says so.    *)
Create(t, refs, wstart, link, pc) ==
  LET i == nalloc + 1 IN
  /\ t \in Users
  /\ tpc[t] = "idle"
  /\ contlock = NoThread
  /\ linked = {}
  /\ nalloc < MaxInst
  /\ nalloc' = i
  /\ life' = [life EXCEPT ![i] = "live"]
  /\ refc' = [refc EXCEPT ![i] = refs]
  /\ run' = [run EXCEPT ![i] = link \/ wstart = "top"]
  /\ wpc' = [wpc EXCEPT ![i] = wstart]
  /\ linked' = IF link THEN {i} ELSE {}
  /\ tinst' = [tinst EXCEPT ![t] = i]
  /\ Goto(t, pc)
  /\ UNCHANGED <<npush, contlock, queue, wsize, wtask, processed, maxq,
                 executed, pinglock>>

GetCreate(t) == Create(t, 2, "top", TRUE, "hold")

(* pthread_create reports an error with a positive number, and the test is *)
(* for a negative one: the instance is linked although nothing runs it.    *)
GetThreadFails(t) == MayFail /\ Create(t, 2, "never", TRUE, "hold")

(* No memory for the statistics or the name: the only reference is dropped *)
(* before there is a thread.                                               *)
GetAllocFails(t) == MayFail /\ Create(t, 0, "never", FALSE, "destroy")

(* ao2_link fails: the only reference is dropped while the thread runs. *)
GetLinkFails(t) == MayFail /\ Create(t, 0, "top", FALSE, "destroy")

-----------------------------------------------------------------------------
(* tris_taskprocessor_push and tris_taskprocessor_unreference *)

Push(t) ==
  /\ tpc[t] = "hold"
  /\ Enqueue(tinst[t], "user")
  /\ UNCHANGED <<nalloc, contlock, linked, instVars, wsize, wtask, processed,
                 maxq, executed, tpc, tinst, pinglock>>

(* ao2_lock(tps_singletons); ao2_unlink: the container's reference goes. *)
UnrefUnlink(t) ==
  LET i == tinst[t] IN
  /\ tpc[t] = "hold"
  /\ contlock = NoThread
  /\ contlock' = t
  /\ linked' = linked \ {i}
  /\ refc' = [refc EXCEPT ![i] = IF i \in linked THEN @ - 1 ELSE @]
  /\ Goto(t, "unref")
  /\ UNCHANGED <<nalloc, npush, life, run, queue, workerVars, tinst,
                 pinglock>>

(* mutant: the container is unlocked before the destructor runs *)
UnrefDropUnlocked(t) ==
  /\ tpc[t] = "unref"
  /\ DropRef(t, "relink")
  /\ contlock' = IF refc[tinst[t]] = 1 THEN NoThread ELSE contlock
  /\ UNCHANGED <<nalloc, npush, linked, life, run, queue, workerVars, tinst,
                 pinglock>>

(* ao2_ref(tps, -1) > 1: somebody else still has a reference. *)
UnrefDrop(t) ==
  /\ tpc[t] = "unref"
  /\ DropRef(t, "relink")
  /\ UNCHANGED <<nalloc, npush, contlock, linked, life, run, queue,
                 workerVars, tinst, pinglock>>

(* ao2_link(tps_singletons, tps), whose result is ignored; ao2_unlock *)
UnrefRelink(t) ==
  LET i == tinst[t] IN
  /\ tpc[t] = "relink"
  /\ \/ Link(i)
     \/ MayFail /\ UNCHANGED <<linked, refc>>
  /\ contlock' = NoThread
  /\ tinst' = [tinst EXCEPT ![t] = NoInst]
  /\ Goto(t, "idle")
  /\ UNCHANGED <<nalloc, npush, life, run, queue, workerVars, pinglock>>

-----------------------------------------------------------------------------
(* tps_taskprocessor_destroy, run by whoever dropped the last reference *)

DestroyStop(t) ==
  LET i == tinst[t] IN
  /\ tpc[t] = "destroy"
  /\ run' = [run EXCEPT ![i] = FALSE]
  /\ SignalWorker(i)
  /\ Goto(t, "join")
  /\ UNCHANGED <<nalloc, npush, contlock, linked, refc, life, queue, wsize,
                 wtask, processed, maxq, executed, tinst, pinglock>>

(* pthread_join returns and the object is freed; _unreference then unlocks *)
(* the container.  Joining a thread that was never created is undefined:   *)
(* the call may also return at once, or the process may crash.             *)
DestroyJoin(t) ==
  LET i == tinst[t] IN
  /\ tpc[t] = "join"
  /\ wpc[i] \in {"done", "never"}
  /\ \/ /\ life' = [life EXCEPT ![i] = "freed"]
        /\ contlock' = IF contlock = t THEN NoThread ELSE contlock
        /\ tinst' = [tinst EXCEPT ![t] = NoInst]
        /\ Goto(t, "idle")
     \/ /\ wpc[i] = "never"
        /\ Goto(t, "crash")
        /\ UNCHANGED <<life, contlock, tinst>>
  /\ UNCHANGED <<nalloc, npush, linked, refc, run, queue, workerVars,
                 pinglock>>

-----------------------------------------------------------------------------
(* The CLI commands *)

(* TPS_REF_IF_EXISTS in cli_tps_ping; ao2_iterator_next in the others. *)
CliRef(t) == t \in CliThreads /\ TakeRef(t, "cli")

(* "core show taskprocessors" and tab completion only read the instance. *)
CliReport(t) ==
  /\ tpc[t] = "cli"
  /\ Goto(t, "drop")
  /\ UNCHANGED <<nalloc, npush, contlock, linked, instVars, queue,
                 workerVars, tinst, pinglock>>

(* Lock cli_ping_cond_lock, push, and release the lock in the timed wait. *)
CliPing(t) ==
  /\ tpc[t] = "cli"
  /\ pinglock = NoThread
  /\ Enqueue(tinst[t], "ping")
  /\ Goto(t, "pinging")
  /\ UNCHANGED <<nalloc, contlock, linked, instVars, wsize, wtask, processed,
                 maxq, executed, tinst, pinglock>>

(* No memory for the task: return without unlocking cli_ping_cond_lock. *)
CliPingFails(t) ==
  /\ MayFail
  /\ tpc[t] = "cli"
  /\ pinglock = NoThread
  /\ pinglock' = t
  /\ Goto(t, "drop")
  /\ UNCHANGED <<nalloc, npush, contlock, linked, instVars, queue,
                 workerVars, tinst>>

(* The wait ends, by the signal or after a second; the lock is taken back. *)
CliPinged(t) ==
  /\ tpc[t] = "pinging"
  /\ pinglock = NoThread
  /\ Goto(t, "drop")
  /\ UNCHANGED <<nalloc, npush, contlock, linked, instVars, queue,
                 workerVars, tinst, pinglock>>

(* ao2_ref(tps, -1), outside the container lock *)
CliDrop(t) ==
  /\ tpc[t] = "drop"
  /\ DropRef(t, "idle")
  /\ tinst' = IF refc[tinst[t]] = 1 THEN tinst
              ELSE [tinst EXCEPT ![t] = NoInst]
  /\ UNCHANGED <<nalloc, npush, contlock, linked, life, run, queue,
                 workerVars, pinglock>>

-----------------------------------------------------------------------------
(* tps_processing_function *)

WorkerGoto(i, pc) == wpc' = [wpc EXCEPT ![i] = pc]

WorkerUnchanged == UNCHANGED <<nalloc, npush, contlock, linked, instVars,
                               tpc, tinst, pinglock>>

(* while (i->poll_thread_run), read without the lock *)
WorkerTop(i) ==
  /\ wpc[i] = "top"
  /\ WorkerGoto(i, IF run[i] THEN "check" ELSE "drain")
  /\ UNCHANGED <<queue, wsize, wtask, processed, maxq, executed>>
  /\ WorkerUnchanged

(* mutant: the flag is not tested again under the lock *)
WorkerCheckOnce(i) ==
  /\ wpc[i] = "check"
  /\ wsize' = [wsize EXCEPT ![i] = Len(queue[i])]
  /\ WorkerGoto(i, IF queue[i] = <<>> THEN "wait" ELSE "pop")
  /\ UNCHANGED <<queue, wtask, processed, maxq, executed>>
  /\ WorkerUnchanged

(* Under the lock: stop, sleep on an empty queue, or note its size. *)
WorkerCheck(i) ==
  /\ wpc[i] = "check"
  /\ IF ~run[i]
       THEN WorkerGoto(i, "drain") /\ UNCHANGED wsize
       ELSE /\ wsize' = [wsize EXCEPT ![i] = Len(queue[i])]
            /\ WorkerGoto(i, IF queue[i] = <<>> THEN "wait" ELSE "pop")
  /\ UNCHANGED <<queue, wtask, processed, maxq, executed>>
  /\ WorkerUnchanged

(* POSIX lets tris_cond_wait return although nobody signalled. *)
WorkerSpurious(i) ==
  /\ wpc[i] = "wait"
  /\ WorkerGoto(i, "woken")
  /\ UNCHANGED <<queue, wsize, wtask, processed, maxq, executed>>
  /\ WorkerUnchanged

(* Back from tris_cond_wait: the flag is tested again, size is not. *)
WorkerWoken(i) ==
  /\ wpc[i] = "woken"
  /\ WorkerGoto(i, IF run[i] THEN "pop" ELSE "drain")
  /\ UNCHANGED <<queue, wsize, wtask, processed, maxq, executed>>
  /\ WorkerUnchanged

(* tps_taskprocessor_pop; popping nothing is logged and the loop goes on. *)
WorkerPop(i) ==
  /\ wpc[i] = "pop"
  /\ IF queue[i] = <<>>
       THEN WorkerGoto(i, "top") /\ UNCHANGED <<queue, wtask>>
       ELSE /\ wtask' = [wtask EXCEPT ![i] = Head(queue[i])]
            /\ queue' = [queue EXCEPT ![i] = Tail(@)]
            /\ WorkerGoto(i, "exec")
  /\ UNCHANGED <<wsize, processed, maxq, executed>>
  /\ WorkerUnchanged

(* t->execute(t->datap); tps_ping_handler takes cli_ping_cond_lock. *)
WorkerExec(i) ==
  /\ wpc[i] = "exec"
  /\ wtask[i].kind = "ping" => pinglock = NoThread
  /\ executed' = [executed EXCEPT ![i] = Append(@, wtask[i].id)]
  /\ WorkerGoto(i, "stats")
  /\ UNCHANGED <<queue, wsize, wtask, processed, maxq>>
  /\ WorkerUnchanged

(* The statistics, and tps_task_free *)
WorkerStats(i) ==
  /\ wpc[i] = "stats"
  /\ processed' = [processed EXCEPT ![i] = @ + 1]
  /\ maxq' = [maxq EXCEPT ![i] = IF wsize[i] > @ THEN wsize[i] ELSE @]
  /\ wtask' = [wtask EXCEPT ![i] = NoTask]
  /\ WorkerGoto(i, "top")
  /\ UNCHANGED <<queue, wsize, executed>>
  /\ WorkerUnchanged

(* After the loop: what is left in the queue is freed unexecuted. *)
WorkerDrain(i) ==
  /\ wpc[i] = "drain"
  /\ IF queue[i] = <<>>
       THEN WorkerGoto(i, "done") /\ UNCHANGED queue
       ELSE queue' = [queue EXCEPT ![i] = Tail(@)] /\ UNCHANGED wpc
  /\ UNCHANGED <<wsize, wtask, processed, maxq, executed>>
  /\ WorkerUnchanged

-----------------------------------------------------------------------------

UserStep(t) ==
  \/ GetExisting(t) \/ GetCreate(t)
  \/ GetThreadFails(t) \/ GetAllocFails(t) \/ GetLinkFails(t)
  \/ Push(t)
  \/ UnrefUnlink(t) \/ UnrefDrop(t) \/ UnrefRelink(t)

CliStep(t) ==
  \/ CliRef(t) \/ CliReport(t)
  \/ CliPing(t) \/ CliPingFails(t) \/ CliPinged(t)
  \/ CliDrop(t)

DestroyStep(t) == DestroyStop(t) \/ DestroyJoin(t)

WorkerStep(i) ==
  \/ WorkerTop(i) \/ WorkerCheck(i) \/ WorkerSpurious(i) \/ WorkerWoken(i)
  \/ WorkerPop(i) \/ WorkerExec(i) \/ WorkerStats(i) \/ WorkerDrain(i)

(* After a crash there is no process left to take a step. *)
Crashed == \E t \in Threads : tpc[t] = "crash"

Next ==
  /\ ~Crashed
  /\ \/ \E t \in Threads : UserStep(t) \/ CliStep(t) \/ DestroyStep(t)
     \/ \E i \in Inst : WorkerStep(i)

Spec == Init /\ [][Next]_vars

(* Threads that hold a lock or run a destructor are scheduled, handlers    *)
(* return, and a worker that can go on does; modules need not do anything. *)
Fairness ==
  /\ \A t \in Threads : /\ WF_vars(UnrefDrop(t) \/ UnrefRelink(t))
                        /\ WF_vars(DestroyStep(t))
                        /\ WF_vars(CliReport(t) \/ CliPinged(t) \/ CliDrop(t))
  /\ \A i \in Inst : /\ WF_vars(WorkerTop(i) \/ WorkerCheck(i))
                     /\ WF_vars(WorkerWoken(i) \/ WorkerPop(i))
                     /\ WF_vars(WorkerExec(i) \/ WorkerStats(i))
                     /\ WF_vars(WorkerDrain(i))

FairSpec == Spec /\ Fairness

-----------------------------------------------------------------------------
(* Properties *)

Owners(i) == {t \in Threads : tpc[t] \in OwnerPcs /\ tinst[t] = i}

(* The reference counter of an instance is, between any two calls of any   *)
(* thread, the number of threads that own a reference plus the one of the  *)
(* container (ao2_ref, ao2_link and ao2_unlink in _get, _unreference and   *)
(* the CLI commands).                                                      *)
RefCountExact ==
  \A i \in Inst :
    refc[i] = Cardinality(Owners(i)) + (IF i \in linked THEN 1 ELSE 0)

(* No instance is used after tps_taskprocessor_destroy freed it: neither   *)
(* by the container, nor by a thread inside an operation, nor by the       *)
(* worker that runs on it.                                                 *)
NoUseAfterFree ==
  /\ \A i \in linked : life[i] = "live"
  /\ \A t \in Threads : tinst[t] # NoInst => life[tinst[t]] = "live"
  /\ \A i \in Inst : wpc[i] \notin {"never", "done"} => life[i] = "live"

(* A task processor is a singleton by name: at most one instance's thread  *)
(* executes tasks, also while an old instance is being destroyed and a new *)
(* one requested (_unreference destroys under the container lock).         *)
OneWorker ==
  \A i, j \in Inst :
    wpc[i] \notin {"never", "done"} /\ wpc[j] \notin {"never", "done"}
      => i = j

(* Tasks are processed in FIFO order: what was executed, what is in the    *)
(* worker's hand and what waits are, in this order, in push order.         *)
ExecutedInOrder ==
  \A i \in Inst :
    LET hand == IF wpc[i] = "exec" THEN <<wtask[i].id>> ELSE <<>>
        ids  == executed[i] \o hand
                  \o [k \in 1 .. Len(queue[i]) |-> queue[i][k].id]
    IN  \A m, n \in 1 .. Len(ids) : m < n => ids[m] < ids[n]

(* Every task that is pushed is executed or, if its processor is           *)
(* destroyed, purged: it does not stay in the queue (no wake-up is lost    *)
(* between _push and the sleep of tps_processing_function).                *)
Waits(n) ==
  \E i \in Inst :
    \/ \E k \in 1 .. Len(queue[i]) : queue[i][k].id = n
    \/ wpc[i] = "exec" /\ wtask[i].id = n
TaskHandled == \A n \in 1 .. MaxTask : Waits(n) ~> ~Waits(n)

(* A destructor that asked the worker to stop gets it joined: the worker   *)
(* cannot go to sleep after poll_thread_run was cleared.                   *)
DestroyEnds == \A t \in Threads : (tpc[t] = "join") ~> (tpc[t] = "idle")

=============================================================================
