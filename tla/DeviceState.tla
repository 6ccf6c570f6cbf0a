---------------------------- MODULE DeviceState ----------------------------
(***************************************************************************)
(* Device states on their way from a channel driver to the watchers of a   *)
(* hint: main/devicestate.c with its change thread and its collector of    *)
(* the states of several servers, the cache and the dispatcher of          *)
(* main/event.c, and the hints of main/pbx.c.                              *)
(*                                                                         *)
(* A driver changes the state of its device and then reports that it has   *)
(* changed.  Reporting, publishing and reading happen in five threads that *)
(* share the cache and pass devices and events on in queues; the critical  *)
(* sections of the queues and of the cache are steps.  The dispatcher and  *)
(* pbx-core are task processors, whose queues are FIFO (TaskProcessor).    *)
(* Every allocation on the way may fail; the code gives up what it was     *)
(* doing, without undoing what it has done.                                *)
(***************************************************************************)
EXTENDS Naturals, Sequences, FiniteSets, Functions

CONSTANTS
  Devices,    \* devices, each with a thread of its driver
  Hint,       \* the devices of a hint, in the order they are written in
  Servers,    \* the servers of a cluster
  Local,      \* this server
  Reported,   \* the states that the driver of a device reports
  Idle,       \* the state of every device at the start
  Known,      \* the devices whose driver passes the state when it reports
  Asked,      \* the devices whose driver does not, and is asked for it
  MaxChanges, \* bound: changes of state
  MaxFails    \* bound: allocations that fail

States == {"UNKNOWN", "NOT_INUSE", "INUSE", "BUSY", "INVALID", "UNAVAILABLE",
           "RINGING", "RINGINUSE", "ONHOLD"}

ASSUME DeviceStateConstants ==
  /\ IsFiniteSet(Devices) /\ IsFiniteSet(Servers)
  /\ Hint \in Seq(Devices)
  /\ Local \in Servers
  /\ Reported \in [Devices -> SUBSET States]
  /\ \A d \in Devices : Idle \in Reported[d]
  /\ Known \cup Asked = Devices
  /\ MaxChanges \in Nat /\ MaxFails \in Nat
  /\ Devices \cap {"change", "collector", "ais", "pbx"} = {}

VARIABLES
  actual,        \* the state of a device at a server
  changes,       \* number of changes so far
  fails,         \* number of failed allocations so far
  enabled,       \* devstate_collector.enabled
  state_changes, \* the queue of the change thread
  next,          \* what it has taken from the queue
  at,            \* where each thread is
  ev,            \* the event it publishes
  cache,         \* tris_event_cache: the states cached for a key
  events,        \* the queue of the event dispatcher
  devstate_change_q, \* the queue of the collector
  statechanges,  \* the queue of pbx-core
  rest,          \* the devices of the hint that handle_statechange will read
  agg,           \* what it has aggregated
  laststate,     \* hint->laststate
  untold         \* history: devices of which the hint may have missed something
                 \* that could not be passed on, since it was last looked at

vars == <<actual, changes, fails, enabled, state_changes, next, at, ev, cache,
          events, devstate_change_q, statechanges, rest, agg, laststate, untold>>

Threads == Devices \cup {"change", "collector", "ais", "pbx"}
Keys    == {"state"} \X Devices \X {Local} \cup {"change"} \X Devices \X Servers
Events  == [key : Keys, state : States]

NoEvent == [key |-> <<>>, state |-> "UNKNOWN"]
Busy    == {"remove", "link", "queue"}   \* inside tris_event_queue_and_cache
-----------------------------------------------------------------------------
(***************************************************************************)
(* tris_devstate_aggregate_init, _add and _result                          *)
(***************************************************************************)
Flags == [all_unknown : BOOLEAN, all_unavail : BOOLEAN, all_busy : BOOLEAN,
          all_free : BOOLEAN, on_hold : BOOLEAN, busy : BOOLEAN,
          in_use : BOOLEAN, ring : BOOLEAN]

AggregateInit ==
  [all_unknown |-> TRUE, all_unavail |-> TRUE, all_busy |-> TRUE,
   all_free |-> TRUE, on_hold |-> FALSE, busy |-> FALSE,
   in_use |-> FALSE, ring |-> FALSE]

InUse   == {"INUSE", "RINGINUSE", "BUSY"}
Active  == InUse \cup {"RINGING", "ONHOLD"}
Nowhere == {"UNAVAILABLE", "INVALID", "UNKNOWN"}

AggregateAdd(a, s) ==
  [all_unknown |-> a.all_unknown /\ s \in {"INVALID", "UNKNOWN"},
   all_unavail |-> a.all_unavail /\ s \in Nowhere,
   all_busy    |-> a.all_busy    /\ s \in Active,
   all_free    |-> a.all_free    /\ s = "NOT_INUSE",
   on_hold     |-> a.on_hold     \/ s = "ONHOLD",
   busy        |-> a.busy        \/ s = "BUSY",
   in_use      |-> a.in_use      \/ s \in InUse,
   ring        |-> a.ring        \/ s \in {"RINGING", "RINGINUSE"}]

AggregateResult(a) ==
  IF a.all_free THEN "NOT_INUSE"
  ELSE IF a.ring THEN IF a.in_use \/ a.on_hold THEN "RINGINUSE" ELSE "RINGING"
  ELSE IF a.busy THEN "BUSY"
  ELSE IF a.in_use THEN "INUSE"
  ELSE IF a.on_hold THEN "ONHOLD"
  ELSE IF a.all_busy THEN "BUSY"
  ELSE IF a.all_unknown THEN "UNKNOWN"
  ELSE IF a.all_unavail THEN "UNAVAILABLE"
  ELSE "NOT_INUSE"

\* What adding some states makes, in whatever order and however often
AggregateAll(states) ==
  [all_unknown |-> states \subseteq {"INVALID", "UNKNOWN"},
   all_unavail |-> states \subseteq Nowhere,
   all_busy    |-> states \subseteq Active,
   all_free    |-> states \subseteq {"NOT_INUSE"},
   on_hold     |-> "ONHOLD" \in states,
   busy        |-> "BUSY" \in states,
   in_use      |-> states \cap InUse # {},
   ring        |-> states \cap {"RINGING", "RINGINUSE"} # {}]

Aggregate(states) == AggregateResult(AggregateAll(states))

\* tris_devstate_to_extenstate
ToExtenState(s) ==
  IF s \in {"UNAVAILABLE", "UNKNOWN", "INVALID"} THEN {"UNAVAILABLE"}
  ELSE IF s = "RINGINUSE" THEN {"INUSE", "RINGING"}
  ELSE IF s = "NOT_INUSE" THEN {}
  ELSE {s}
-----------------------------------------------------------------------------
StateKey(d)     == <<"state", d, Local>>
ChangeKey(d, e) == <<"change", d, e>>

\* tris_device_state: the last known state if there is one and it says
\* something, the state that the driver tells otherwise.
DeviceState(d) ==
  LET cached == cache[StateKey(d)]
  IN  IF cached # <<>> /\ Head(cached) # "UNKNOWN" THEN Head(cached)
      ELSE actual[d][Local]

\* The states that tris_event_dump_cache finds for a device
Collected(d) == UNION {Range(cache[ChangeKey(d, e)]) : e \in Servers}

\* devstate_event: what one server says is not the state in a cluster.
LocalEvent(d, s) ==
  [key |-> IF enabled THEN ChangeKey(d, Local) ELSE StateKey(d), state |-> s]

ExtensionState == \* tris_extension_state2, in one go
  ToExtenState(Aggregate({DeviceState(Hint[i]) : i \in DOMAIN Hint}))

Init ==
  /\ actual = [d \in Devices |-> [e \in Servers |-> Idle]]
  /\ changes = 0 /\ fails = 0
  /\ enabled \in BOOLEAN
  /\ state_changes = <<>> /\ next = <<>>
  /\ at = [t \in Threads |-> IF t = "change" THEN "lock" ELSE "idle"]
  /\ ev = [t \in Threads |-> NoEvent]
  /\ cache = [k \in Keys |-> <<>>]
  /\ events = <<>> /\ devstate_change_q = <<>> /\ statechanges = <<>>
  /\ rest = <<>> /\ agg = AggregateInit
  /\ laststate = ToExtenState(Aggregate({Idle : i \in DOMAIN Hint}))
  /\ untold = {}

\* An allocation fails, and the hint may miss something of the device.
Fail      == fails < MaxFails /\ fails' = fails + 1
Missed(d) == untold' = untold \cup {d}
-----------------------------------------------------------------------------
(***************************************************************************)
(* The drivers                                                             *)
(***************************************************************************)

unchangedHint    == UNCHANGED <<statechanges, rest, agg, laststate>>
unchangedReaders == UNCHANGED <<devstate_change_q, untold>> /\ unchangedHint

\* The driver changes the state; it reports that in a later step.
DriverChange(d) ==
  /\ at[d] = "idle" /\ changes < MaxChanges
  /\ \E s \in Reported[d] \ {actual[d][Local]} :
       actual' = [actual EXCEPT ![d][Local] = s]
  /\ changes' = changes + 1
  /\ at' = [at EXCEPT ![d] = "changed"]
  /\ UNCHANGED <<fails, enabled, state_changes, next, ev, cache, events>>
  /\ unchangedReaders

\* tris_devstate_changed with the state
ChangedKnown(d) ==
  /\ at[d] = "changed" /\ d \in Known /\ actual[d][Local] # "UNKNOWN"
  /\ at' = [at EXCEPT ![d] = "remove"]
  /\ ev' = [ev EXCEPT ![d] = LocalEvent(d, actual[d][Local])]
  /\ UNCHANGED <<actual, changes, fails, enabled, state_changes, next, cache, events>>
  /\ unchangedReaders

\* Mutant: nobody is woken.
SignalNobody(a) == a

\* tris_cond_signal(&change_pending)
SignalChange(a) == IF a["change"] = "waiting" THEN [a EXCEPT !["change"] = "woken"] ELSE a

\* tris_devstate_changed without it, which is the same as with "UNKNOWN"
Asks(d) == at[d] = "changed" /\ (d \in Asked \/ actual[d][Local] = "UNKNOWN")

\* The change is queued for the change thread.
ChangedUnknown(d) ==
  /\ Asks(d)
  /\ state_changes' = Append(state_changes, d)
  /\ at' = SignalChange([at EXCEPT ![d] = "idle"])
  /\ UNCHANGED <<actual, changes, fails, enabled, next, ev, cache, events>>
  /\ unchangedReaders

\* There is no memory for the entry: do_state_change in the driver's thread
ChangedNoMemory(d) ==
  /\ Asks(d) /\ Fail
  /\ at' = [at EXCEPT ![d] = "compute"]
  /\ UNCHANGED <<actual, changes, enabled, state_changes, next, ev, cache, events>>
  /\ unchangedReaders

DriverCompute(d) ==
  /\ at[d] = "compute"
  /\ at' = [at EXCEPT ![d] = "remove"]
  /\ ev' = [ev EXCEPT ![d] = LocalEvent(d, actual[d][Local])]
  /\ UNCHANGED <<actual, changes, fails, enabled, state_changes, next, cache, events>>
  /\ unchangedReaders

\* devstate_event cannot make the event, and the report is lost.
DriverEventFails(d) ==
  /\ Fail /\ Missed(d)
  /\ \/ at[d] = "changed" /\ d \in Known /\ actual[d][Local] # "UNKNOWN"
     \/ at[d] = "compute"
  /\ at' = [at EXCEPT ![d] = "idle"]
  /\ UNCHANGED <<actual, changes, enabled, state_changes, next, ev, cache, events>>
  /\ UNCHANGED devstate_change_q /\ unchangedHint
-----------------------------------------------------------------------------
(***************************************************************************)
(* do_devstate_changes                                                     *)
(***************************************************************************)
\* The queue is empty: tris_cond_wait
ChangeWait ==
  /\ at["change"] = "lock" /\ state_changes = <<>>
  /\ at' = [at EXCEPT !["change"] = "waiting"]
  /\ UNCHANGED <<actual, changes, fails, enabled, state_changes, next, ev, cache, events>>
  /\ unchangedReaders

\* It takes the whole queue.  It does not look again whether there is
\* something in it when the wait has ended.
ChangeTake ==
  /\ \/ at["change"] = "lock" /\ state_changes # <<>>
     \/ at["change"] = "woken"
  /\ next' = state_changes
  /\ state_changes' = <<>>
  /\ at' = [at EXCEPT !["change"] = "work"]
  /\ UNCHANGED <<actual, changes, fails, enabled, ev, cache, events>>
  /\ unchangedReaders

\* A wait may end for no reason.
ChangeWakesUp ==
  /\ at["change"] = "waiting"
  /\ at' = [at EXCEPT !["change"] = "woken"]
  /\ UNCHANGED <<actual, changes, fails, enabled, state_changes, next, ev, cache, events>>
  /\ unchangedReaders

\* do_state_change asks the driver and makes the event.
ChangeCompute ==
  /\ at["change"] = "work" /\ next # <<>>
  /\ next' = Tail(next)
  /\ at' = [at EXCEPT !["change"] = "remove"]
  /\ ev' = [ev EXCEPT !["change"] = LocalEvent(Head(next), actual[Head(next)][Local])]
  /\ UNCHANGED <<actual, changes, fails, enabled, state_changes, cache, events>>
  /\ unchangedReaders

ChangeEventFails ==
  /\ at["change"] = "work" /\ next # <<>>
  /\ Fail /\ Missed(Head(next))
  /\ next' = Tail(next)
  /\ UNCHANGED <<actual, changes, enabled, state_changes, at, ev, cache, events>>
  /\ UNCHANGED devstate_change_q /\ unchangedHint

ChangeDone ==
  /\ at["change"] = "work" /\ next = <<>>
  /\ at' = [at EXCEPT !["change"] = "lock"]
  /\ UNCHANGED <<actual, changes, fails, enabled, state_changes, next, ev, cache, events>>
  /\ unchangedReaders
-----------------------------------------------------------------------------
(***************************************************************************)
(* tris_event_queue_and_cache, in whatever thread it is called             *)
(***************************************************************************)
\* What is cached for the key is removed,
Remove(t) ==
  /\ at[t] = "remove"
  /\ cache' = [cache EXCEPT ![ev[t].key] = <<>>]
  /\ at' = [at EXCEPT ![t] = "link"]
  /\ UNCHANGED <<actual, changes, fails, enabled, state_changes, next, ev, events>>
  /\ unchangedReaders

\* then, the lock of the cache having been free in between, a copy is linked
Link(t) ==
  /\ at[t] = "link"
  /\ cache' = [cache EXCEPT ![ev[t].key] = Append(@, ev[t].state)]
  /\ at' = [at EXCEPT ![t] = "queue"]
  /\ UNCHANGED <<actual, changes, fails, enabled, state_changes, next, ev, events>>
  /\ unchangedReaders

\* unless there is no memory for it,
LinkFails(t) ==
  /\ at[t] = "link" /\ Fail
  /\ at' = [at EXCEPT ![t] = "queue"]
  /\ UNCHANGED <<actual, changes, enabled, state_changes, next, ev, cache, events>>
  /\ unchangedReaders

\* and the event goes to the dispatcher
Published(t) ==
  /\ at[t] = "queue"
  /\ ev' = [ev EXCEPT ![t] = NoEvent]
  /\ at' = [at EXCEPT ![t] = IF t = "change" THEN "work" ELSE "idle"]
  /\ UNCHANGED <<actual, changes, enabled, state_changes, next, cache,
                 devstate_change_q>>
  /\ unchangedHint

Queue(t) ==
  /\ Published(t)
  /\ events' = Append(events, ev[t])
  /\ UNCHANGED <<fails, untold>>

\* unless it cannot be queued: what is cached has been replaced all the same.
QueueFails(t) ==
  /\ Published(t)
  /\ Fail /\ Missed(ev[t].key[2])
  /\ UNCHANGED events

\* evt_event_deliver_cb: another server of the cluster reports a change.
Deliver(d, e) ==
  /\ enabled /\ e # Local /\ at["ais"] = "idle" /\ changes < MaxChanges
  /\ \E s \in Reported[d] :
       /\ actual' = [actual EXCEPT ![d][e] = s]
       /\ ev' = [ev EXCEPT !["ais"] = [key |-> ChangeKey(d, e), state |-> s]]
  /\ changes' = changes + 1
  /\ at' = [at EXCEPT !["ais"] = "remove"]
  /\ UNCHANGED <<fails, enabled, state_changes, next, cache, events>>
  /\ unchangedReaders

\* There is no memory for what the other server reports.
DeliverFails(d, e) ==
  /\ enabled /\ e # Local /\ at["ais"] = "idle" /\ changes < MaxChanges
  /\ Fail
  /\ \E s \in Reported[d] : actual' = [actual EXCEPT ![d][e] = s]
  /\ changes' = changes + 1
  /\ UNCHANGED <<enabled, state_changes, next, at, ev, cache, events>>
  /\ unchangedReaders
-----------------------------------------------------------------------------
(***************************************************************************)
(* handle_event calls those who have subscribed to the type of the event.  *)
(***************************************************************************)
unchangedSources == UNCHANGED <<actual, changes, fails, enabled, state_changes, next>>

\* Mutant: no second look at the hint is asked for during the first.
DispatchStateOnce ==
  /\ events # <<>> /\ Head(events).key[1] = "state"
  /\ statechanges' = IF at["pbx"] = "read" THEN statechanges
                     ELSE Append(statechanges, Head(events).key[2])
  /\ events' = Tail(events)
  /\ UNCHANGED <<at, ev, cache, devstate_change_q, rest, agg, laststate, untold>>
  /\ unchangedSources

\* device_state_cb of main/pbx.c
DispatchState ==
  /\ events # <<>> /\ Head(events).key[1] = "state"
  /\ statechanges' = Append(statechanges, Head(events).key[2])
  /\ events' = Tail(events)
  /\ UNCHANGED <<at, ev, cache, devstate_change_q, rest, agg, laststate, untold>>
  /\ unchangedSources

\* devstate_change_collector_cb
DispatchChange ==
  /\ events # <<>> /\ Head(events).key[1] = "change"
  /\ devstate_change_q' = Append(devstate_change_q, Head(events).key[2])
  /\ events' = Tail(events)
  /\ UNCHANGED <<at, ev, cache, untold>>
  /\ unchangedHint /\ unchangedSources

\* There is no memory for what either of them would queue.
DispatchFails ==
  /\ events # <<>>
  /\ Fail /\ Missed(Head(events).key[2])
  /\ events' = Tail(events)
  /\ UNCHANGED <<actual, changes, enabled, state_changes, next>>
  /\ UNCHANGED <<at, ev, cache, devstate_change_q>> /\ unchangedHint
-----------------------------------------------------------------------------
(***************************************************************************)
(* run_devstate_collector                                                  *)
(***************************************************************************)
\* handle_devstate_change aggregates what is cached of all servers.
Collect ==
  /\ at["collector"] = "idle" /\ devstate_change_q # <<>>
  /\ LET d == Head(devstate_change_q)
     IN  ev' = [ev EXCEPT !["collector"] =
                  [key |-> StateKey(d), state |-> Aggregate(Collected(d))]]
  /\ devstate_change_q' = Tail(devstate_change_q)
  /\ at' = [at EXCEPT !["collector"] = "compare"]
  /\ UNCHANGED <<cache, events, untold>>
  /\ unchangedHint /\ unchangedSources

\* There is no memory for the subscription that selects what is cached.
CollectFails ==
  /\ at["collector"] = "idle" /\ devstate_change_q # <<>>
  /\ Fail /\ Missed(Head(devstate_change_q))
  /\ devstate_change_q' = Tail(devstate_change_q)
  /\ UNCHANGED <<actual, changes, enabled, state_changes, next>>
  /\ UNCHANGED <<at, ev, cache, events>> /\ unchangedHint

\* Mutant: any state reported before will do.
UnchangedOnce == cache[ev["collector"].key] # <<>>

\* process_collection publishes what differs from the state reported last.
Unchanged == cache[ev["collector"].key] # <<>>
             /\ Head(cache[ev["collector"].key]) = ev["collector"].state

CollectSame ==
  /\ at["collector"] = "compare" /\ Unchanged
  /\ at' = [at EXCEPT !["collector"] = "idle"]
  /\ ev' = [ev EXCEPT !["collector"] = NoEvent]
  /\ UNCHANGED <<cache, events>>
  /\ unchangedSources /\ unchangedReaders

CollectChanged ==
  /\ at["collector"] = "compare" /\ ~Unchanged
  /\ at' = [at EXCEPT !["collector"] = "remove"]
  /\ UNCHANGED <<ev, cache, events>>
  /\ unchangedSources /\ unchangedReaders

\* The state reported last cannot be copied, and is taken to differ.
CollectUnread ==
  /\ at["collector"] = "compare" /\ Unchanged /\ Fail
  /\ at' = [at EXCEPT !["collector"] = "remove"]
  /\ UNCHANGED <<actual, changes, enabled, state_changes, next>>
  /\ UNCHANGED <<ev, cache, events>> /\ unchangedReaders

\* What differs cannot be put into an event.
CollectEventFails ==
  /\ at["collector"] = "compare" /\ ~Unchanged
  /\ Fail /\ Missed(ev["collector"].key[2])
  /\ at' = [at EXCEPT !["collector"] = "idle"]
  /\ ev' = [ev EXCEPT !["collector"] = NoEvent]
  /\ UNCHANGED <<actual, changes, enabled, state_changes, next>>
  /\ UNCHANGED <<cache, events, devstate_change_q>> /\ unchangedHint
-----------------------------------------------------------------------------
(***************************************************************************)
(* handle_statechange, in pbx-core                                         *)
(***************************************************************************)
unchangedPublishers == UNCHANGED <<ev, cache, events, devstate_change_q>>

HintOther ==
  /\ at["pbx"] = "idle" /\ statechanges # <<>>
  /\ Head(statechanges) \notin Range(Hint)
  /\ statechanges' = Tail(statechanges)
  /\ UNCHANGED <<at, rest, agg, laststate, untold>>
  /\ unchangedSources /\ unchangedPublishers

HintStart ==
  /\ at["pbx"] = "idle" /\ statechanges # <<>>
  /\ Head(statechanges) \in Range(Hint)
  /\ statechanges' = Tail(statechanges)
  /\ at' = [at EXCEPT !["pbx"] = "read"]
  /\ rest' = Hint
  /\ untold' = untold \ Range(Hint)
  /\ UNCHANGED <<agg, laststate>>
  /\ unchangedSources /\ unchangedPublishers

\* tris_extension_state2 looks at one device after the other
HintRead ==
  /\ at["pbx"] = "read" /\ rest # <<>>
  /\ agg' = AggregateAdd(agg, DeviceState(Head(rest)))
  /\ rest' = Tail(rest)
  /\ UNCHANGED <<at, statechanges, laststate, untold>>
  /\ unchangedSources /\ unchangedPublishers

\* What is cached cannot be copied, and the driver is asked instead.
HintReadFails ==
  /\ at["pbx"] = "read" /\ rest # <<>>
  /\ Fail /\ Missed(Head(rest))
  /\ agg' = AggregateAdd(agg, actual[Head(rest)][Local])
  /\ rest' = Tail(rest)
  /\ UNCHANGED <<actual, changes, enabled, state_changes, next>>
  /\ UNCHANGED <<at, statechanges, laststate>> /\ unchangedPublishers

\* and the watchers are told if the result differs from what they know.
HintTell ==
  /\ at["pbx"] = "read" /\ rest = <<>>
  /\ laststate' = ToExtenState(AggregateResult(agg))
  /\ agg' = AggregateInit
  /\ at' = [at EXCEPT !["pbx"] = "idle"]
  /\ UNCHANGED <<statechanges, rest, untold>>
  /\ unchangedSources /\ unchangedPublishers
-----------------------------------------------------------------------------
Publish(t) == Remove(t) \/ Link(t) \/ LinkFails(t) \/ Queue(t) \/ QueueFails(t)

Driver(d) ==
  \/ ChangedKnown(d) \/ ChangedUnknown(d) \/ ChangedNoMemory(d)
  \/ DriverCompute(d) \/ DriverEventFails(d) \/ Publish(d)

ChangeThread ==
  \/ ChangeWait \/ ChangeTake \/ ChangeCompute \/ ChangeEventFails \/ ChangeDone
  \/ Publish("change")

Collector ==
  \/ Collect \/ CollectFails \/ CollectSame \/ CollectChanged
  \/ CollectUnread \/ CollectEventFails \/ Publish("collector")

Dispatcher == DispatchState \/ DispatchChange \/ DispatchFails

Pbx == HintOther \/ HintStart \/ HintRead \/ HintReadFails \/ HintTell

Next ==
  \/ \E d \in Devices : DriverChange(d) \/ Driver(d)
  \/ ChangeThread \/ ChangeWakesUp
  \/ \E d \in Devices, e \in Servers : Deliver(d, e) \/ DeliverFails(d, e)
  \/ Publish("ais")
  \/ Collector \/ Dispatcher \/ Pbx

\* Threads that can go on do; a driver need not change anything, a server need
\* not report anything and a wait need not end for no reason.
Fairness ==
  /\ \A d \in Devices : WF_vars(Driver(d))
  /\ WF_vars(ChangeThread) /\ WF_vars(Publish("ais"))
  /\ WF_vars(Collector) /\ WF_vars(Dispatcher) /\ WF_vars(Pbx)

Spec == Init /\ [][Next]_vars /\ Fairness
-----------------------------------------------------------------------------
\* Types of all variables, and of the queues what is in them.
TypeOK ==
  /\ actual \in [Devices -> [Servers -> States]]
  /\ \A d \in Devices, e \in Servers : actual[d][e] \in Reported[d]
  /\ changes \in 0 .. MaxChanges /\ fails \in 0 .. MaxFails
  /\ enabled \in BOOLEAN
  /\ state_changes \in Seq(Devices) /\ next \in Seq(Devices)
  /\ at \in [Threads -> {"idle", "changed", "compute", "lock", "waiting", "woken",
                         "work", "compare", "read"} \cup Busy]
  /\ ev \in [Threads -> Events \cup {NoEvent}]
  /\ \A t \in Threads : at[t] \in Busy \cup {"compare"} => ev[t] \in Events
  /\ cache \in [Keys -> Seq(States)]
  /\ events \in Seq(Events)
  /\ devstate_change_q \in Seq(Devices) /\ statechanges \in Seq(Devices)
  /\ rest \in Seq(Devices) /\ agg \in Flags
  /\ laststate \in {ToExtenState(s) : s \in States}
  /\ untold \subseteq Devices

\* Nothing is on its way: no thread has anything to do.
Quiet ==
  /\ \A t \in Threads : at[t] \in {"idle", "lock", "waiting", "woken", "work"}
  /\ state_changes = <<>> /\ next = <<>> /\ events = <<>>
  /\ devstate_change_q = <<>> /\ statechanges = <<>>

\* In a cluster the states that the servers report of a device may aggregate
\* to "UNKNOWN", which tris_device_state does not take for an answer: it asks
\* the driver.  Where a report could not be cached, the answer of the driver has
\* changed and the aggregate has not.
Vague(d) ==
  enabled /\ cache[StateKey(d)] # <<>> /\ Head(cache[StateKey(d)]) = "UNKNOWN"

\* Whoever publishes a device at the same time, and whether or not it can be
\* cached: when nothing is on its way any more, the watchers of the hint have
\* been told what tris_device_state says of its devices (handle_statechange),
\* unless an announcement of one of them could not be made, passed on or read
\* since the hint was looked at last.  Such a loss is made good by the next
\* announcement of any device of the hint.
HintFollowsCache ==
  Quiet /\ (\A i \in DOMAIN Hint : Hint[i] \notin untold /\ ~Vague(Hint[i]))
    => laststate = ExtensionState

\* One thread at a time publishes what this server says of the device: its
\* driver always reports it in the same way.
Single(d) == d \notin Known \/ (d \notin Asked /\ "UNKNOWN" \notin Reported[d])

\* When nothing is on its way and no allocation has failed, what is known of a
\* device that one thread publishes is what its driver says, or in a cluster
\* the aggregate of what the servers that have reported it say, if that says
\* anything (tris_device_state, process_collection).
CacheFollowsDriver ==
  Quiet /\ fails = 0 =>
    \A d \in Devices : Single(d) =>
      LET reporting == {e \in Servers : cache[ChangeKey(d, e)] # <<>>}
          together  == Aggregate({actual[d][e] : e \in reporting})
      IN  /\ \A e \in Servers :
               cache[ChangeKey(d, e)] # <<actual[d][e]>>
                 => cache[ChangeKey(d, e)] = <<>> /\ (enabled => actual[d][e] = Idle)
          /\ DeviceState(d) = IF reporting = {} \/ together = "UNKNOWN"
                              THEN actual[d][Local] ELSE together

\* A change of state always reaches the watchers: no report gets stuck in a
\* queue because a thread waits beside it.
Settles == <>[]Quiet
=============================================================================
