# A TLA+ development of the Trismedia server core

Trismedia is a telephone server: a fork of Asterisk 1.6 with voicemail,
announcements, conferences, broadcast, call centre and SS7 on top.  About
640 000 lines of C, one process, hundreds of threads.  This directory holds
TLA+ models of parts of it, the TLC configurations that check them, and proofs
that TLAPS checks.

The parts modelled are those on which others rest (the scheduler and its heap,
the task processor, autoservice), the way of a device state from a driver
through the event bus to the watchers of a hint, the bridging core, the
transport of IAX2 calls, the dialplan locks, and the batch of call records.
They are where threads meet; most of the remaining code is sequential, media or
text.

* [Inventory](#inventory)
* [Plan](#plan)
* [Modules and code](#modules-and-code)
* [Runs](#runs)
* [Fairness](#fairness)
* [Proofs](#proofs)
* [Where the code leaves its comments](#where-the-code-leaves-its-comments)
* [Not modelled](#not-modelled)
* [Running it](#running-it)

## Inventory

Names are those of the source; `tris_` replaces Asterisk's `ast_`.

| Component | State it keeps | Operations | Talks to | Hard behaviour | Correct when |
|---|---|---|---|---|---|
| scheduler `main/sched.c`, `sched.h` | heap and hash table of events, id counter, thread with stop flag | add, delete, replace, wait, runq, thread create/destroy/poke, the `TRIS_SCHED_*` macros | callbacks into every driver, under the driver's locks | a callback runs without the context's lock while its event is deleted; timeouts; lost wake-ups | a deleted event never runs, references of an event's data are dropped once, no event is early or forgotten |
| heap `main/heap.c` | array, length, room; index fields in the elements | push, pop, remove, peek, verify | scheduler, loader, timing | removal from the middle; storage that cannot grow | a priority queue; index fields exact |
| task processor `main/taskprocessor.c` | named, counted objects with queue and worker | get, push, unreference, CLI ping/show | event bus, device state, app_queue, pbx hints | last reference against lookup; worker asleep against push and destroy | nothing freed is used, one worker per name, FIFO, all tasks handled |
| autoservice `main/autoservice.c` | list of entries, deferred frames, list-state counter | start, stop, thread | the channel's owner, the channel's read queue | hand-over between thread and owner by a counter polled without a lock; nested starts | the thread never touches what the owner took back; frames kept, in order |
| counted objects `main/astobj2.c` | counters, buckets | ref, alloc, link, unlink, find, iterate | almost everything | destructor against lookup | no use after free, no leak |
| channels `main/channel.c` | read queue, alert pipe, state, soft hangup, masquerade, bridge | alloc, read, write, queue, indicate, masquerade, bridge, hangup | drivers, PBX threads, autoservice | any thread may masquerade or hang up a channel another one uses | a channel is used by its owner only, no frame is lost, a masquerade swaps all or nothing |
| bridging core `main/bridging.c` | bridges with channel arrays and a thread | join, depart, suspend, merge, dissolve | channels, bridge technologies | thread polls with the lock released | every channel leaves; the array is the set of joined channels |
| features `main/features.c` | parking lots, dynamic features | park, retrieve, time out, transfer | PBX, channels | retriever against timeout | a parked call is handed out once |
| local channels `channels/chan_local.c` | pairs of channels with private data | queue, call, hangup, optimise away | channels | three locks, taken in different orders | no deadlock, no use of a freed half |
| device state `main/devicestate.c` | change list, provider list, per-device cache | changed, query, collect | event bus, drivers, hints, queues | state computed and published without a lock | what is published last is true |
| event bus `main/event.c` | subscriptions, cache | subscribe, queue, cache | task processor | dispatch in another thread | every subscriber sees every later event in order |
| jitter buffers | frames ordered by timestamp, history of delays | put, get, reset | drivers | late, doubled and jumping timestamps | nothing is played twice or backwards |
| dial API `main/dial.c` | one thread per dial | run, join, state, hangup | channels | join against answer and timeout | one winner; all others hung up |
| dialplan locks `funcs/func_lock.c` | named locks with owners and requesters, a broker thread | lock, try, unlock | channels' datastores | who waits for whom | mutual exclusion; no self-deadlock |
| call records `main/cdr.c` | batch, the id of an event, a thread with a scheduler, configuration | detach, submit, schedule, reload, terminate | scheduler, backends | the id has no lock; reload and shutdown between batch and post | each record posted once; a full batch is posted at once; reloads end |
| IAX2 `channels/chan_iax2.c` | calls by number, sequence numbers, retransmission | send, acknowledge, retransmit, destroy | scheduler, network | loss, reordering, wrap at 256 | frames delivered once and in order |
| SS7 `channels/ss7` | links, sequence numbers, retransmission buffer, circuits | MTP2 alignment and retransmission, MTP3, ISUP | hardware, cluster | wrap at 128, link changeover | signal units delivered once and in order |
| SIP family `chan_sip.c`, `chan_switch.c`, `chan_service.c`, `chan_gateway.c` | dialogs, transactions, registrations | requests, responses, timers | scheduler, channels | timers against responses | each dialog is destroyed once |
| conferences, queues, agents | members and their states | join, leave, ring, connect | device state, channels | members leave while served | each caller is served once |
| the rest: PBX, manager, voicemail, applications, functions, formats, media, configuration | | | | mostly sequential or data | |

`PROJECT.json` lists each component with its files, and under `hazards` the
places where the modelled code is hard to test, with the properties that would
notice it going wrong.

## Plan

Done, in this order:

1. `PriorityQueue`, `Heap`, `Sched` (the heap implements what the scheduler
   assumes of it), `TaskProcessor`, `AutoService`, each with proofs.
2. `DeviceState`: reports, the change thread, the cache, the collector of a
   cluster, the dispatcher and the hints.  It relies on task processors being
   FIFO queues, which `TaskProcessor` shows.
3. `ReliableLink`, `Iax2Transport`: the numbered full frames implement an
   abstract reliable link over a network that loses, doubles and reorders.
4. `Bridging`: the bridging core with its two threading models.
5. `DialplanLock`: the dialplan locks, with masquerade as far as it moves them.
6. `CdrBatch`: call records in batch mode against reloads and shutdown.

Next would be `Masquerade` and `LocalChannel`, which need a model of channel
locking, then `Parking` on top of it, `Mtp2` and `JitterBuffer` (queues and
sequence numbers against `ReliableLink`).

## Modules and code

| Module | Code | Extends / instantiated by |
|---|---|---|
| `TaskProcessor` | `main/taskprocessor.c`, `__ao2_ref` of `main/astobj2.c` | `MCTaskProcessor`, `TaskProcessorProofs` |
| `AutoService` | `main/autoservice.c`; read queue and hangup of `main/channel.c` | `MCAutoService`, `AutoServiceProofs` |
| `PriorityQueue` | what `heap.h` promises | instantiated by `Heap` |
| `Heap` | `main/heap.c` | `MCHeap`, `HeapProofs` |
| `Sched` | `main/sched.c`, macros of `sched.h`; owners like those of `chan_switch.c` and `chan_iax2.c` | `MCSched`, `SchedProofs` |
| `DeviceState` | `main/devicestate.c`, cache and dispatcher of `main/event.c`, hints of `main/pbx.c`, `res/ais/evt.c` | `MCDeviceState`, `DeviceStateProofs` |
| `ReliableLink` | what an IAX2 call promises its ends | instantiated by `Iax2Transport` |
| `Iax2Transport` | full frames, acknowledgement and retransmission of `channels/chan_iax2.c` | `MCIax2Transport`, `Iax2TransportProofs` |
| `Bridging` | `main/bridging.c`; threads of `bridges/bridge_softmix.c` | `MCBridging`, `BridgingProofs` |
| `DialplanLock` | `funcs/func_lock.c`; datastores of `main/channel.c` | `MCDialplanLock`, `DialplanLockProofs` |
| `CdrBatch` | batch mode of `main/cdr.c`; `quit_handler` of `main/trismedia.c` | `MCCdrBatch`, `SchedProofs` |

Operators whose comment begins with "mutant" are faulty variants of the operator
that follows them.  Each property of a passing run has one that violates it.

### TaskProcessor

One name; the objects created for it one after the other are instances.  A step
is a critical section of `taskprocessor_lock` or of the container's lock, with
one exception that matters: `tris_taskprocessor_unreference` keeps the container
locked over three calls, and the CLI commands drop their reference with a plain
`ao2_ref` that does not take that lock, so each call is a step and `contlock` is
a variable.  The worker's program counter follows the reads of
`poll_thread_run` with and without the lock, the sleep, and the pop, which is a
second critical section.  `pthread_join` on a thread that was never created may
return or crash.  `tps_queue_size` is the length of the queue; the statistics
keep the local variable `size` that the code uses.

### AutoService

An entry is a number in the order of insertion, so that the list, into whose
head entries go, is a set.  The thread's arrays `ents` and `mons` are one set
of entries, taken from the list when it is copied.  Its loop has five steps:
lock and count, wake up, wait for a channel, read a frame, defer it.  The caller
of `tris_autoservice_stop` removes its entry, polls the counter, and takes the
entry apart, each in a step.  Frames have a kind: to be saved, to be dropped, or
a hangup.  `tris_waitfor_n` returns any watched channel with something to read,
or none; a `tris_read` that finds the channel locked returns a null frame, which
is the same as nothing to read.  The owner's own reads between two services are
left out: they take frames from the head of the read queue and cannot reorder it.

`as_chan_list_state` wraps at `StateMod`, which is 2 in the runs.
With `MayLap` the thread may turn its loop that many times between two polls of
a caller; in `as_owner`, which checks liveness, it may not, as 2^32 turns within
the millisecond of a poll are out of the question.

### Heap and PriorityQueue

An operation writes its first place and then walks up and down, one loop
iteration a step.  `MayFail` lets `tris_realloc` fail, which empties the heap
without the elements noticing.  `held` is what the caller believes to be in the
heap: it pushes what it does not hold and removes what it holds, as the
scheduler does with its hash table.  The refinement maps `lost` to "the heap
does not hold what is held": while elements are lost the abstract queue promises
nothing, and it promises everything as soon as the owners of the lost ones have
tried to remove them.

### Sched

Each owner has data with at most one event, its id in a variable, and a thread
that adds the event and uses one of the macros: `del` is `TRIS_SCHED_DEL`
(where the caller drops the reference when told so, as with
`tris_sched_thread_del` in `chan_iax2.c`), `unref` is `TRIS_SCHED_DEL_UNREF`,
and `replace` is `TRIS_SCHED_REPLACE_VARIABLE_UNREF` as in `chan_switch.c`. The
attempts of a macro are steps; `DelTries` is 2 in the runs where the code has
10 (11 in the replacing macro, whose count is incremented after the
comparison). With `Locked` the owner holds a lock during a macro that the
callback needs, as in `chan_switch.c`; without, as with
`TRIS_SCHED_DEL_SPINLOCK`, they run freely, and so it is in the passing runs. A
callback ends its event, asks for another run, or adds a new event and keeps
its id (`__send_ping` of `chan_iax2.c`). Time has `Ms` ticks to the millisecond
so that rounding shows. The heap is a set of which a soonest event is taken,
which is what `IsPriorityQueue` shows of `main/heap.c`.

### DeviceState

A driver changes `actual` and reports it in a later step: with the state
(`Known`), or without, in which case the change thread asks the driver
(`Asked`); a device in both sets is reported either way, as `chan_switch.c`
does.  Each of five kinds of threads has a place in `at`, and
`tris_event_queue_and_cache` is three steps of whichever thread calls it:
remove what is cached, link the copy, queue the event.  The cache holds a
sequence for each key, so that two publishers can leave two events.  The
collector's aggregation and its comparison with what was published last are two
steps; the hint reads its devices one a step while they change.  `enabled`
makes the server part of a cluster, from whose other servers reports arrive at
any time.  Task processors (the dispatcher, pbx-core) are FIFO queues.  A driver
may answer any state, `UNKNOWN` included, which is what `tris_parse_device_state`
says of an idle device whose driver keeps no states (`devicestate.c:275-276`);
reporting `UNKNOWN` is asking the change thread (`devicestate.c:485-487`).

Every allocation on the way may fail, up to `MaxFails` of them, and the code
gives up where it is without undoing what it has done:

| What fails | Action | What the code does |
|---|---|---|
| the entry for the change thread (`devicestate.c:487`) | `ChangedNoMemory` | the driver's thread does its work |
| the event (`devicestate.c:442-447`) | `DriverEventFails`, `ChangeEventFails` | the report is lost |
| the cached copy (`event.c:1076-1083`) | `LinkFails` | the event is queued, nothing is cached |
| the reference or the task of the event (`event.c:1174-1180`) | `QueueFails` | the cache has changed, nobody is told |
| the copy of another server's event (`evt.c:149-150`) | `DeliverFails` | the report is lost |
| the change or task of the subscriber (`devicestate.c:708-709`, `pbx.c:9409-9414`) | `DispatchFails` | the collector, or the hint, is not told |
| the collector's subscription (`devicestate.c:655-664`) | `CollectFails` | the change is not collected |
| the copy of the state published last (`event.c:983-1061`) | `CollectUnread` | it is taken to differ |
| the collected event (`devicestate.c:634-641`) | `CollectEventFails` | the aggregate is not published |
| the copy of a state that the hint reads (`devicestate.c:288-305`) | `HintReadFails` | the driver is asked instead |

`untold` is a history variable: the devices of which one of these losses has
kept something from the hint since it was last looked at.  Nothing in the code
remembers them; the next announcement of any device of the hint makes them good.
`HintFollowsCache` promises nothing while a device of the hint is in `untold`, and
without that exemption the run finds it violated: after a failed push the
watchers have a stale state until something else happens to a device of the hint.
It also exempts a device of which the servers of a cluster say nothing (`Vague`):
the aggregate `UNKNOWN` is cached, `tris_device_state` does not take it for an
answer and asks the driver each time, and where a report could not be cached the
driver's answer has changed and the aggregate has not.

`AggregateAll` is what adding a set of states makes, in whatever order;
`AggregateOfMore` of `DeviceStateProofs` shows that `AggregateAdd`, which is
`tris_devstate_aggregate_add`, does that.

### Iax2Transport and ReliableLink

A step is what a thread does with `iaxsl[callno]` held.  A frame is known by its
number, counted from 1 without wrapping; the code sees `Seqno(n)`, a byte.  The
network is the set of the datagrams ever sent to an end: any of them may arrive
at any time, again, or never.  Sending by the owner and the first transmission
by the network thread are two steps; a frame may be acknowledged in between.
The refinement maps `confirmed` to the frames an end does not retransmit any
more.

### Bridging

A step is a section under the lock of the bridge up to a spin or a wait, or
from it.  The bridge thread waits (`thread = "poll"`) without the lock; whoever
changes the array first spins with the lock held until it has returned, so
`lock` is a variable and joining, leaving and suspending are two steps each.
The thread of a channel waits for a signal (`"wait"`, where the bridge thread
reads the channel), for its channel (`"poll"`, where it reads it itself), or
for the end of a suspension (`"cond"`); before each there is a place without the
lock where a signal is lost (`"sleep"`, `"pause"`).  `refs` counts the
references to the bridge.  `use` says how a bridge is used; the instances have
six uses, among them features, a conference, swaps, a dissolving bridge and the
bridge of an attended transfer.  A bridge dissolves when a channel ends and
either the bridge has the flag for it (`use.flags`) or the channel brought it in
features of its own (`use.drops`), as an attended transfer has it
(`bridges/bridge_builtin_features.c:190-194`).  What the callback of a feature
decides is a choice of `bridge_channel_feature`: on with the call, hangup,
departure, an aborted transfer, which tells another channel to hang up, or a
blind transfer that succeeded, after which the channel leaves with its state
untouched.  `LeavesWhenTold` promises two things.  A channel that was told to
leave does, unless a feature or digits played to it overwrite that.  A channel
whose far end hangs up leaves whatever features and digits do, on bridges where
nothing stops the bridge thread: one that dissolves in either way, or is
destroyed, may leave a channel behind that nobody reads.

### DialplanLock

The mutex of a lock is held from the link of the requester to its unlink except
while it waits, so `Request` and `Awake` are the steps of `get_lock`, after a
first that finds or makes the frames.  `unlock_read` takes no mutex: lowering
the count and clearing the owner are two steps.  `has` is history: how often
the calls of a channel have returned a lock that it has not given back.
`spoilt` is history, too: the locks to which one of three mishaps has happened,
which the code does not handle (see below): a waiter was woken after somebody
else had taken the lock; a masquerade took the channel of a call away under it;
a masquerade moved a second list.  `Exclusive` and `Available` are about all
others.

### CdrBatch

A record is a number; `batch`, `hand` and `posters` say who has it, `posted`,
`dropped` and `lost` what became of it.  Each thread is at a place: `Submitters`
(channels and the CLI) go through `tris_cdr_detach` and
`submit_unscheduled_batch`, `CdrThread` is `do_cdr` with its callback, `Reloader`
is `do_reload`, `Quitter` is `quit_handler`, which submits before the hangup of
the channels and, when the function is registered for exit, after it.
`tris_cdr_submit_batch` is the same steps for the three that call it: look
without the lock, take, post or hand to a detached thread.

`cdr_sched` has no lock, so `TRIS_SCHED_DEL` is an attempt a step and then the
assignment of -1, and `tris_sched_add` is the insertion and then the assignment
of the id (`newid` in between).  `cdr_batch_lock` is a variable because a reload
holds it throughout; `cdr_pending_lock` because the thread posts with it, and
because a cancelled thread takes it along.

The scheduler is a set of events.  An event is to run soon (1 ms), later
(`batchtime`), or now, once `tris_sched_runq` has found it due.  There is no
clock: any event may be found due at any wake-up, and a wait may time out at any
time.  What is lost by that is only that a wait is long or short, so `sleep`
records which of the two the thread has chosen, for `WakesEarly`.  `Ask` bounds
how often the CLI, a load or a shutdown comes between.

Names that the scheduler has too carry a prefix here (`CdrInit`, `CdrNext`,
`CdrSpec`, `AddSubmission`), so that `SchedProofs` can extend both modules: the
scheduler and the client of it whose use of ids without a lock is hardest.

## Runs

All runs pass, and finish within about two minutes on two cores.

| Run | Instance | Shows |
|---|---|---|
| `tps_users` | 3 modules, 2 instances, 3 tasks | `NoUseAfterFree`, `OneWorker`, `ExecutedInOrder`, `TaskHandled`, `DestroyEnds` |
| `tps_cli` | 2 modules, 1 CLI thread, 2 instances, 1 task, failures | `RefCountExact` |
| `as_owner` | 1 thread with two channels, 3 entries, room for 1 in the array, 2 frames | `ReadqInOrder`, `FramesKeptUntilHangup`, `DtmfFlagRestored`, `StopReturns` |
| `as_shared` | 2 threads on one channel, nesting, failures, laps of the counter | `EntryExclusive`, `ChannelInUse`, `UseCountExact` |
| `heap` | 6 elements, 3 keys, growing from 1 to 7 places, failures | `HeapVerified`, `IndexExact`, `IsPriorityQueue` |
| `sched_race` | 1 owner, `del` and `unref`, 3 events, failures | `DeletedStaysDeleted`, `RefsExact`, `IdNamesEvent` |
| `sched_live` | 2 owners, `replace`, rounding to milliseconds | `NotEarly`, `TimeoutIsEnough`, `EventHandled`, `DestroyEnds` |
| `devstate` | 3 devices, two of them in a hint, 2 servers, 4 states, one of them `UNKNOWN`, 2 changes, 1 failure of any kind | `HintFollowsCache`, `CacheFollowsDriver`, `Settles` |
| `iax_link` | two frames one way, one the other, 3 retries, numbers up to 255 | `CancelledReceived`, `LinkSpec`, `AnswerTrue`, `Handled` |
| `bridge` | 3 channels, six uses, one digit, one call of the API | `ArrayExact`, `TechnologyExact`, `FreedUnused`, `FrozenWhileWaiting`, `LeavesWhenTold` |
| `dlock` | 3 channels, 2 locks, taken twice, 2 masquerades | `Exclusive`, `Available` |
| `cdr_batch` | 1 channel, the CLI, 2 records, batches of 2, four configurations, 2 loads, or a load and a use of the CLI or a shutdown | `RecordInOnePlace`, `FullBatchAnnounced`, `BatchServed` |

`as_owner` is the thread of `main/features.c:993-1003`, which puts the two
channels of a transfer in autoservice and takes them out again.

Bounds and why they are enough.  Two instances of a processor are the old one
being destroyed and the new one being requested; a third is created only after
the container's lock was free.  Three tasks are one executed, one in the
worker's hand and one waiting.  Three entries are one being handed back, one in
the list and one to come.  Seven places are three levels of the heap, with
inner nodes of one and two children.  Three event ids are one running, its
successor and one deleted.  Two changes of state are one that is overtaken by
another at each of the places where a report can be.  Two frames one way and one
the other let acknowledgements and frames overtake each other; the theorems
cover longer calls.  With three channels a smart bridge moves to
`bridge_softmix`, and back when one leaves; each use of a bridge has the
operations that meet in it, and one call, since the calls of one client follow
each other.  Two masquerades give a channel a second list of locks; three
channels are the holder, one that waits and one that comes between.  Two records
fill a batch of two; with the CLI two threads schedule the submission at once,
beside the callback; two attempts of `TRIS_SCHED_DEL` (10 in the code) are one
that is followed by another and the last.  After the first load one of a second
load, a use of the CLI and a shutdown comes between; a load may change from each
of the configurations to each.

Every run that bounds a counter stops when the counter is used up, so deadlock
is checked only where the system never stops: for the heap, for device
states, whose change thread may always wake up, and for the IAX2 link, whose
datagrams may always arrive again.  `heap` and `dlock` use symmetry, `tps_cli`
too; none of them checks liveness.  The view of `heap` leaves out the result of
the last operation and the fields that the next push overwrites, which no step
reads.

What a passing run does not say.  Where the code goes wrong, the model shows it
and the property exempts it, so the run is about the rest; "Where the code
leaves its comments" describes each mishap.  `NoUseAfterFree` is checked without
the CLI, whose lookup may spoil the decision of `_unreference`.
`FramesKeptUntilHangup` ends with a queued hangup, `DtmfFlagRestored` has one
caller for each channel.  `RefsExact` and `IdNamesEvent` exempt owners that gave
up a deletion, `CacheFollowsDriver` devices that two threads publish,
`HintFollowsCache` a hint whose announcement was lost, `LeavesWhenTold` a channel
whose order to leave was overwritten, `Exclusive` and `Available` locks that were
spoilt.  No frame number of the IAX2 run wraps, and
the theorems assume that none does (`NoWrap`).  `BatchServed` says that the
thread of the batch and its chain of events exist, not that the thread comes to
post: it may wait for a lock for good (`ThreadWaits`).

## Fairness

Fairness is on threads that run, not on what modules choose to do.

* Task processor: a thread inside `_unreference`, the destructor or a CLI
  command goes on; the worker goes on unless it sleeps in `tris_cond_wait`.
  No module need ever push or unreference.
* Autoservice: the thread goes on, its waits end after 10 µs or 50 ms; a
  sleeping thread needs its signal (`ThreadAwake` from "asleep" is a spurious
  wake-up and gets no fairness); a polling caller goes on once the counter
  differs.
* Scheduler: time passes, the thread goes on, callbacks return, a macro that
  has begun goes on.  A wait ends by its deadline or a signal; spurious wake-ups
  get no fairness.
* Device states: the threads of drivers that have something to report, the
  change thread, the collector, the dispatcher and pbx-core go on.  No driver
  need change a state, no server report one, and no wait end for no reason.
* IAX2: the threads transmit what is queued or due.  The network need not
  deliver anything: `Handled` holds because retransmissions are counted.
* Bridging: the threads of the channels and of the bridge go on, and who has
  suspended a channel gives it back.  Nobody need join, hang up or call.
* Dialplan locks: none is stated; nothing says that a lock is ever given back.
* Call records: `CdrLiveSpec` says that threads that are in a function go on; no run
  uses it, as a record need not be posted once a reload may take the thread away.

All are weak fairness of threads that stay enabled, which the operating system
gives.  (`CdrLiveSpec` of `CdrBatch` adds strong fairness of two steps: the thread
releases `cdr_pending_lock` whenever it waits, so that who signals gets it some
time, and time passes.)

## Proofs

Each theorem holds for every value of the constants that satisfies the module's
assumptions: any number of threads, channels, elements and events.

* `TypeCorrect` and `RefCountsExact` (`TaskProcessorProofs`).  `RefCountExact`
  is nearly inductive: it counts the threads at places where they own a
  reference.  The strengthening says what a thread's place implies about the
  instance it works on, that unused instances have no owners and are not
  linked, and that threads holding the container's lock are where they should
  be.  The cardinality of the owners changes by one in each step that changes a
  counter, by lemmas on adding and removing one thread.
* `NoUseAfterFreeWithoutCli`: under `CliThreads = {}`.  The invariant adds that
  an instance is freed only when it is not linked, has no owner and its worker
  has ended, which holds because without the CLI every drop of a reference is
  under the container's lock.  With a CLI thread it fails (see below).
* `OneWorkerAtATime`, under `CliThreads = {}` and `~MayFail`: an instance that is
  neither linked nor finished is in the hands of the one thread that holds the
  container's lock (`Known`), and that thread holds the lock until the worker
  has ended or the new instance is linked.
* `TasksExecutedInOrder`: the executed tasks, the one in the worker's hand and
  the queue are, in this order, in the order of their numbers, and all numbers
  are below the next one (`Ordered`).  It has no assumption.
* `EntriesExclusive` (`AutoServiceProofs`): the argument behind the counter.  A
  caller that polls has a removed entry; an entry in the thread's array whose
  owner polls was copied at a turn equal to the counter value the owner saved,
  and the thread changes the counter before it copies again.  So when the
  values differ the entry has left the array.  It needs no bound on laps: a
  lapped caller just waits longer.
* `NoEntryWithoutThread` (`AutoServiceProofs`): an entry is added and the
  thread looked for under one lock, and a thread that cannot be created takes
  the entry back before the lock is released.
* `AutoServiceTypesHold` (`AutoServiceProofs`) collects the types that the
  invariants below keep.
* `UseCountsExact` and `ChannelsInUse` (`AutoServiceProofs`).  A sum of use
  counts is the cardinality of a set of pairs, one for each use (`SumOfPairs`);
  a start and a stop add or remove one pair on each side (`UseInv`, `Balanced`),
  whoever else uses the channel.  What the thread has in its array is in the
  list or belongs to a caller that still waits, so somebody holds the channel.
* `DtmfFlagPutBack` (`FlagInv`), for any number of callers of a channel: the
  flag of a channel that has it is never read as not set, and that of another is
  set only while somebody who has read that it was not set, or the entry that
  remembers it, is there to clear it (`Clearing`).  Of callers that start at
  once only the first reads that, so the flag is cleared when that caller's
  entry goes, perhaps before the others have stopped.  It assumes `~MayFail`, as
  a thread that cannot be created leaves the flag set.
* `NoFrameLost` (`FrameInv`) and `FramesInOrder` (`OrderInv`).  A number that
  was given to a frame belongs to one channel and one kind, deferred frames are
  those of entries that are not yet taken apart, newest first, and every one of
  them is older than what is in the read queue.  The loop that puts them back is
  a fold over the places of `deferred_frames`; `PutBack` says for any length what
  is in the queue afterwards and in which order.  The first assumes `~MayFail`
  (a frame that cannot be copied is lost), the second `OneOwner`: two callers
  that start at once make two entries of one channel, whose frames are put back
  one entry after the other (see below).
* `HeapTypesHold`, `HeapAlwaysVerified`, `IndexAlwaysExact`, `HeapRefinesQueue`
  (`HeapProofs`).  The invariant says that the heap order holds everywhere
  except, on the way up, between `i` and its parent, and on the way down,
  between `i` and its children, and that the parent of `i` dominates the
  children of `i` (`Around`), which is what allows a swap.  That the root is a
  greatest element follows by taking the least place whose element exceeds it.
  All four hold also when storage cannot grow.
* `SchedProofs`.  `DeletedNeverRuns` (`EventInv`): the hash table, the running
  event and the deleted events are disjoint, and what is in the heap is in the
  table.  `SchedTypesHold` and `NeverEarly` (`TimeInv`): what `tris_sched_runq`
  takes is due before the limit it set itself, which is at most a millisecond
  ahead.  `TimeoutsAreEnough` (`HeadInv`): the wait that `tris_sched_wait`
  returns loses less than a millisecond by rounding, which is what
  `tris_sched_runq` looks ahead.  `IdsNameEvents` (`IdInv`): an owner that has not given up has at most
  the one event its variable names, wherever that event is, and no variable
  names somebody else's.  `ReferencesExact` (`RefInv`): there is one reference
  if the variable names an event and none otherwise, corrected by what thread
  and macro have in hand; under `"replace" \notin Ops`, as the third macro looks
  its data up too early (see below).
* `Iax2TransportProofs`, for calls whose numbers do not wrap
  (`NoWrap`: `First + MaxFrames[e] <= 255`).  The invariant `IInv` relates each
  byte to the count it stands for (`Counted`), says of every frame in a queue
  and every datagram under way that what it acknowledges has been received
  (`Window`), and that what the peer has not received is still to be
  transmitted (`Kept`).  `CancelledHasArrived` is `Kept`; `LinkImplemented`
  maps each step to a step of `ReliableLink` or to none; `AnswersAreTrue` needs
  at most 127 frames an end, half of what a byte tells apart.
* `BridgingProofs`.  `Basic` says where the holder of the lock is and that the
  listed channels are those between entry and removal.  `BridgeFreedUnused`
  counts references (`RefsCounted`): the creator's, the bridge thread's and one
  for each channel on the way.  `BridgeTechnologyExact`: every listed channel
  but the one being added is set up by the technology of the bridge (`SetUp`),
  and the thread runs its function or is told to refresh (`InFunction`).
  `BridgeFrozenWhileWaiting` needs no invariant but the spin.
  `BridgeArrayExact` needs to know who has suspended which channel (`Held`,
  `Marked`), and which entries are missing or too many at each place of a
  thread (`Placed`); it assumes that calls do not suspend channels of a bridge
  with features, because both write the same flag.
* `DialplanLockProofs`.  `Inv` says that of a lock that is not spoilt the
  holder is the owner, the count is how often it has it (except between the two
  steps of the last unlock), and both are named by a frame in the first list of
  the holder, which is what unlocking, hangup and masquerade look at.
* `DeviceStateProofs`, for any devices, servers and hint, whatever the drivers
  answer (`UNKNOWN` and `INVALID` included) and whatever fails.  `HintTold` follows
  a state on its way: what the hint was last told of a device is what is known of
  it (`Right`) unless something that makes the hint look again is in one of the
  queues (`Told`) or in the hands of a publisher (`Changing`), and where nothing is
  cached the next publication differs (`Hollow`), or the device is `untold` or
  `Vague`.  `HintInv` says this for the states that the scan of the hint has read
  so far, which exist but which no variable holds.  `CacheTold` (`CacheInv`)
  follows a state to the cache, as long as nothing has failed, for devices that
  one thread publishes (`Single`: the driver never passes the state, or always
  passes one and never `UNKNOWN`): each key has one source (`OneSource`), which
  has the state of the driver in hand or has cached it, unless the driver has
  yet to be asked (`Fresh`); in a cluster the same again for what the collector
  makes of what the servers have reported (`UpToDate`, `HeardOf`).  Where the
  aggregate of a cluster is `UNKNOWN` the theorem says what `tris_device_state`
  does: it is the driver that answers.
* `CdrBatch`, in `SchedProofs`, for any number of attempts of `TRIS_SCHED_DEL`
  and any configurations, also with `Lacking`, where memory and threads run out.
  `LoadInv` says where each thread can be and when the thread of the batch
  exists: as the old configuration wants until a load decides, as the new one
  wants afterwards.  `BatchAlwaysServed` (`ServedInv`): whoever has taken the
  last event out of the scheduler is at a place that leads to adding one, or the
  thread is about to end.  `FullBatchIsAnnounced` (`FullInv`): of the channels
  that have enlisted a record and not looked yet, one knows that the batch is
  full.  The premise `batch # <<>>` is there for a configured size of 0, which
  the code accepts and for which an empty batch needs nobody.
  `RecordsInOnePlace` (`RecordInv`): the lists of records are without
  repetitions and disjoint from each other and from what has been posted,
  dropped and lost, and together they have all that were detached.  The property
  counts with folds over threads and over lists; `SumOfOnce` says that a sum of
  zeros and at most a single one is that one.  The only assumption beside the
  kinds of the constants is that the threads are finitely many.

Folds and sums over sets are recursive functions, and the library's induction
theorems take an operator, which none of the provers can instantiate.
`Induction` is the principle for a set of numbers instead of a predicate (a set
that has 0 and with each number the next has all), and `FoldExists` derives from
it that the function exists which a fold over a finite set is defined by, given
what it picks and what it does as functions.  What the folds of
`UseCountExact`, `ReadqInOrder` and `RecordInOnePlace` yield follows.

Only model-checked: liveness (`TaskHandled`, `DestroyEnds`, `StopReturns`,
`EventHandled`, `Settles`, `Handled`, `LeavesWhenTold`), which under fairness
TLAPS does not reach.  Every other property of a run has a theorem that states
it, under the assumptions named above.  The type invariant of
`CdrBatch` is there for the reader, and no run lists it: that there is always an
id for a new event is a bound on the instance, not a fact about the code.  What
its proofs need of the types is in `LoadType`, `SizeType` and `RecordType`.

## Where the code leaves its comments

Places where the models leave what a comment promises, or what one would
expect; no run is kept for them, the behaviours are in the models and the
properties are stated beside them.

Task processor

* `main/taskprocessor.c:473-474`: a processor that is unreferenced while the
  CLI looks at it is linked again and stays, with its thread, after everybody
  has let go of it (`taskprocessor.h:80` says it destroys itself).  If the CLI
  drops its reference between `ao2_ref` and `ao2_link`, what is linked is freed.
* `main/taskprocessor.c:301`: a worker that has tested `poll_thread_run` may
  execute one more task after the count has reached zero (`taskprocessor.h:46`
  says such tasks are purged).
* `main/taskprocessor.c:451`: the test is `< 0`, but `pthread_create` reports
  errors by positive numbers: a processor without a thread is handed out.
* The maximum depth that the CLI shows misses tasks for which the worker slept.

Autoservice

* `main/autoservice.c:208`: two callers that start autoservice of one channel
  at once create two entries, and frames may come back out of order.  Only one
  of the entries remembers to clear `TRIS_FLAG_END_DTMF_ONLY`, and may be the one
  that is removed while the other still serves the channel.
* `main/autoservice.c:312`: once a hangup is queued the read queue refuses
  deferred frames, and they are lost.

Heap and scheduler

* `main/heap.c:189`, `main/sched.c:356`: after a growth that failed, index
  fields are stale, the scheduler is not told, and a removal may take another
  element out.
* `sched.h:55`: `TRIS_SCHED_DEL` gives up after ten attempts, a microsecond
  apart, and forgets the id of an event that is running.
* `sched.h:77`: `TRIS_SCHED_DEL_UNREF` then drops a reference that the running
  callback drops, too, when that callback waits for its caller's lock.
* `sched.h:123`: `TRIS_SCHED_REPLACE_VARIABLE_UNREF` looks the data up once,
  before its loop; if the callback runs then and puts the event back, the
  deletion succeeds and a reference is kept.

Device states

* `main/event.c:1094-1109`: the lock of the cache is free between removal and
  link, so a device that is reported by two threads may be cached twice; the
  comment at 163 says that an event "will be unique among all events in the
  cache".  `chan_switch.c:6801` and `6813` report one device in both ways.
* `main/devicestate.c:458`: the state is read, then published: of two threads
  that publish a device the one with the older state may be the later.
  `CacheFollowsDriver` is therefore about devices that one thread publishes.
* `main/event.c:1174-1180`, `main/pbx.c:9409-9414`, `main/devicestate.c:442-447`,
  `634-641`, `655-664`, `708-709`: an allocation that fails after the state has
  changed, or after the cache has been replaced, loses the announcement, and
  nothing makes up for it before a device of the hint is announced again.
  `HintFollowsCache` is therefore about hints of which nothing is `untold`.
* If all servers that report a device say `INVALID` or `UNKNOWN` the aggregate is
  `UNKNOWN`, which is cached and which `tris_device_state` does not take for an
  answer but asks the driver.  When then the caching of a report fails, the
  collector finds nothing changed and the hint is not looked at, although the
  driver's answer is another one.  `HintFollowsCache` excludes such devices
  (`Vague`).

IAX2

* `channels/chan_iax2.c:9770-9775`: whether an acknowledgement is within the
  window is decided by comparing numbers, not distances.  Once the window has
  wrapped an old acknowledgement is taken for one within it, and frames that
  were lost are cancelled.  With `First = 254`, `CancelledReceived` fails.

Bridging

* `main/bridging.c:737-741`: when a third channel moves a smart bridge to
  `bridge_softmix`, a channel that has released the lock and does not wait yet
  misses the signal of the move (line 674 says "Fourth we tell them to wake up so
  they become aware that they above has happened"), and waits in a bridge whose
  channels read themselves (`MoveNoticed`).
* `main/bridging.c:256`, `1343`: a channel that has been told to hang up or to
  depart, and has not looked yet, is told to play digits or a feature: it stays,
  and `tris_bridge_depart` waits for it.  `LeavesWhenTold` without
  `Overwritten` fails.
* `main/bridging.c:1187`: a channel suspended by a call while its thread runs a
  feature is put back by both, and is in the array twice.
* `tris_bridge_unsuspend` does not start the bridge thread, which ends when the
  array is empty.  A bridge whose only channel was suspended has none until
  somebody joins.
* A channel that joins after `tris_bridge_destroy`, or a bridge that dissolves,
  has set `stop` may find itself in a bridge without a thread.  So may the
  channel that transfers, when the one it has called hangs up before it joins.
* A suspended channel of a multithreaded bridge waits for its condition without
  looking at its state again: a signal that came before is lost.
* `bridges/bridge_softmix.c:271-273`: a bridge that moves from softmix back to
  simple closes the timer the mixing thread still polls.

Dialplan locks

* `funcs/func_lock.c:349`: the timeout is absolute, three seconds after 1970, so
  that `LOCK` of a lock that is taken fails at once unless the broker signals
  first; line 54 says it "will wait for the lock to become available".
* The same line takes a lock whenever the wait was ended by a signal, without a
  look at the owner: two channels may have it.
* `lock_fixup` finds the first list of the channel, for whichever list it is
  called; after two masquerades the frames of the second keep the name of a
  channel that is gone, its locks cannot be unlocked (`unlock_read` looks at one
  list), and a hangup does not free them.
* A masquerade during a call leaves the owner pointing at the channel that will
  be freed; one between `--count` and `owner = NULL` gives the new owner a lock
  with the count zero, which wraps when it is unlocked.
* `funcs/func_lock.c:330-345`: the broker is signalled so that "it definitely
  will see that a requester exists"; but it counts before it sleeps, and a signal
  between the two is lost, as the sleep is not atomic with the unlock.
* `unload_module` frees lock frames to which channels still have frames.

Call records

* `main/cdr.c:1500`: a reload that leaves batch mode joins the thread while it
  holds `cdr_batch_lock`.  If the thread is about to take that lock at 1193,
  which is no place where it can be cancelled, both wait for ever, and every
  channel that detaches a record waits with them (`ThreadExits`).  Line 1497 says
  "wake up the thread so it will exit".
* `main/cdr.c:1305`: `pthread_cancel` acts in the wait, which takes
  `cdr_pending_lock` again, and nobody releases it.  The thread of a later reload
  waits for it at 1304, before it has posted anything (`ThreadWaits`).
* `main/cdr.c:1296-1299`: the time to wait is computed before the lock is taken
  under which the thread is signalled, so the signal may come between; and an
  event that is due within the millisecond makes `tris_sched_wait` return 0, of
  which line 1297 says "this shouldn't happen" and which becomes a second.  Lines
  1226 and 1228 say "schedule the submission to occur ASAP (1 ms)" and "signal the
  do_cdr thread to wakeup early" (`WakesEarly`).  The batch is posted late.
* `main/cdr.c:1200`: a shutdown posts what it finds in the batch but does not wait
  for detached threads that post earlier ones (`SafeShutdown`); `cdr.h:270` says
  "Blocks the trismedia shutdown procedures until the CDR data is submitted."
* `main/cdr.c:1225`: deleting one event and adding the next is done without a
  lock.  When the callback runs meanwhile both add one, and as each schedules
  itself again there is one event more from then on (`OneSubmission`).  Line 1224 says
  "this is okay since we are not being called from within the scheduler".
* A record whose channel has read `batchmode` before a reload leaves batch mode
  enters the batch after the reload has posted it, and stays there until the
  shutdown or the next batch.
* A reload deletes the event that was to post a full batch at once and adds one
  in `batchtime`, although line 1477 says "first of either size %d or time %d
  seconds".
* With `scheduleronly` the thread posts with `cdr_pending_lock` held, and the
  channel that fills the next batch waits for it at 1229; `cdr.h:262` says
  "Prevents the channel thread from blocking on the CDR handling".  It comes
  back when the backends do.
* A thread that is cancelled in a backend loses the records in its hands
  (`lost` in the model), with the read lock of the list of backends.
* `main/cdr.c:1486` tests `pthread_create` for `< 0`, which is never so.

## Not modelled

* In the modelled parts: wording and CLI output; names other than one; hash
  functions; the allocator caches; `tris_sched_report`, `_dump` and `_when`,
  which read only; the wrap of event ids after 2^31 events; frame contents; the
  limit of 128 frames in a read queue; masquerade during autoservice.
* Device states: event formats, subscriptions and hints that come and go, the
  states that providers other than drivers compute, and more than `MAX_SERVERS`
  servers, whose states the collector leaves out.  An information element that
  cannot be appended leaves `tris_event_new` with a null pointer that it goes on
  to use (`main/event.c:950-961`): the program ends there, and the model does not
  follow it.
* IAX2: set-up, registration, transfer and destruction of calls, final frames,
  mini frames and trunks.
* Bridging: `tris_bridge_merge` and `bridge_multiplexed`, whose threads serve
  several bridges; the growth of the array; threads that cannot be created;
  voice; the rest of a transfer (dialling, and the wait for the second bridge
  inside a feature of the first).  `menu_callback` of `app_confbridge.c` takes the lock of its
  conference inside a feature, which others hold while they suspend; that order
  of two locks is outside the model.
* Dialplan locks: when the broker sleeps (its signals come at any time), and
  the unloading of the module.
* Call records: the fields of a record and the functions that fill them in,
  which the thread of one channel calls; the backends; failing allocations of
  the scheduler and of the batch itself; a `do_cdr` that cannot be created;
  `batchtime` 0; a configuration that has not changed, which a reload ignores.
* Memory order: a flag read without a lock (`poll_thread_run`, `st->stop`,
  `as_chan_list_state`) is read at once and eventually fresh, which is what the
  supported compilers and machines do with it across function calls.
* Parking (`main/features.c:4974`, retriever against timeout), local channels
  (`channels/chan_local.c:228`, three locks in different orders) and the rest of
  masquerade (`main/channel.c:2742`, carried out by whichever thread comes
  next) need a model of channel locking, which is the next thing to write.
* The SIP family, four variants of one driver of 25 000 lines, is a protocol of
  its own; its use of the scheduler is modelled.  Drivers of hardware, media,
  codecs, text and file formats are data and I/O.
* Other components: see the inventory and `components` in `PROJECT.json`, which
  gives a reason for each.

## Running it

    tlc -workers 2 -config Heap_all.cfg MCHeap
    tlapm HeapProofs.tla

Configuration files are named after the module and the run.
