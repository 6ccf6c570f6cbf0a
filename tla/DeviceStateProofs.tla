------------------------- MODULE DeviceStateProofs -------------------------
(***************************************************************************)
(* Proofs about DeviceState: whatever is published, and whatever fails, the *)
(* watchers of a hint end up with what is known of its devices; and as long *)
(* as nothing fails, what is known of a device is what its driver says.    *)
(***************************************************************************)
EXTENDS DeviceState, SequenceTheorems, TLAPS

-----------------------------------------------------------------------------
(* Types *)

Places == {"idle", "changed", "compute", "lock", "waiting", "woken",
           "work", "compare", "read"} \cup Busy

LEMMA ResultIsState == \A a : AggregateResult(a) \in States
  BY DEF AggregateResult, States

LEMMA KeysOf ==
  ASSUME NEW d \in Devices, NEW e \in Servers
  PROVE  /\ StateKey(d) \in Keys /\ ChangeKey(d, e) \in Keys
         /\ \A s \in States : /\ [key |-> StateKey(d), state |-> s] \in Events
                              /\ [key |-> ChangeKey(d, e), state |-> s] \in Events
                              /\ LocalEvent(d, s) \in Events
  BY DeviceStateConstants DEF StateKey, ChangeKey, Keys, Events, LocalEvent

(* Adding to what some states make makes what they and the new one make. *)
LEMMA AggregateOfMore ==
  ASSUME NEW S, NEW s \in States
  PROVE  AggregateAdd(AggregateAll(S), s) = AggregateAll(S \cup {s})
  <1>1. \A T : (S \cup {s} \subseteq T) = (S \subseteq T /\ s \in T)
    <2>1. \A T : (S \cup {s} \subseteq T) <=> (S \subseteq T /\ s \in T)
      OBVIOUS
    <2> QED
      BY <2>1, Zenon
  <1>2. \A x : (x \in S \cup {s}) = (x \in S \/ s = x)
    OBVIOUS
  <1>3. \A T : ((S \cup {s}) \cap T # {}) = (S \cap T # {} \/ s \in T)
    <2>1. \A T : ((S \cup {s}) \cap T # {}) <=> (S \cap T # {} \/ s \in T)
      OBVIOUS
    <2> QED
      BY <2>1, Zenon
  <1> QED
    BY <1>1, <1>2, <1>3, Zenon DEF AggregateAdd, AggregateAll

LEMMA AggregateOfNone == AggregateAll({}) = AggregateInit
  <1>1. \A T : ({} \subseteq T) = TRUE
    OBVIOUS
  <1>2. \A x : (x \in {}) = FALSE
    OBVIOUS
  <1>3. \A T : ({} \cap T # {}) = FALSE
    OBVIOUS
  <1> QED
    BY <1>1, <1>2, <1>3, Zenon DEF AggregateInit, AggregateAll

LEMMA KeyParts ==
  ASSUME NEW k \in Keys
  PROVE  \/ \E d \in Devices : k = StateKey(d) /\ k[1] = "state" /\ k[2] = d
         \/ \E d \in Devices, e \in Servers : k = ChangeKey(d, e) /\ k[1] = "change" /\ k[2] = d
  <1>1. CASE k \in {"state"} \X Devices \X {Local}
    <2>1. PICK d \in Devices : k = <<"state", d, Local>>
      BY <1>1
    <2> QED
      BY <2>1 DEF StateKey
  <1>2. CASE k \in {"change"} \X Devices \X Servers
    <2>1. PICK d \in Devices, e \in Servers : k = <<"change", d, e>>
      BY <1>2
    <2> QED
      BY <2>1 DEF ChangeKey
  <1> QED
    BY <1>1, <1>2 DEF Keys

LEMMA DeviceOf == \A k \in Keys : k[2] \in Devices
  <1> SUFFICES ASSUME NEW k \in Keys PROVE k[2] \in Devices
    OBVIOUS
  <1> QED
    BY KeyParts

LEMMA TypeInit == Init => TypeOK
  <1> SUFFICES ASSUME Init PROVE TypeOK
    OBVIOUS
  <1> USE DeviceStateConstants
  <1>1. laststate \in {ToExtenState(s) : s \in States}
    BY ResultIsState DEF Init, Aggregate
  <1>2. \A t \in Threads : at[t] \in {"idle", "lock"}
    BY DEF Init
  <1>3. at \in [Threads -> {"idle", "lock"}] /\ ev \in [Threads -> {NoEvent}]
    BY DEF Init
  <1>4. agg \in Flags
    BY DEF Init, AggregateInit, Flags
  <1>5. /\ actual \in [Devices -> [Servers -> States]] /\ cache \in [Keys -> Seq(States)]
        /\ \A d \in Devices, e \in Servers : actual[d][e] \in Reported[d]
    <2>1. \A d \in Devices : Idle \in States
      OBVIOUS
    <2> QED
      BY <2>1 DEF Init
  <1>6. /\ changes \in 0 .. MaxChanges /\ fails \in 0 .. MaxFails /\ enabled \in BOOLEAN
        /\ state_changes = <<>> /\ next = <<>> /\ events = <<>> /\ rest = <<>>
        /\ devstate_change_q = <<>> /\ statechanges = <<>> /\ untold = {}
    BY DEF Init
  <1>7. /\ state_changes \in Seq(Devices) /\ next \in Seq(Devices) /\ events \in Seq(Events)
        /\ devstate_change_q \in Seq(Devices) /\ statechanges \in Seq(Devices)
        /\ rest \in Seq(Devices)
    BY <1>6
  <1> QED
    BY <1>1, <1>2, <1>3, <1>4, <1>5, <1>6, <1>7 DEF TypeOK, Busy

(* What is known of a device is a state. *)
LEMMA KnownIsState ==
  ASSUME TypeOK, NEW d \in Devices
  PROVE  DeviceState(d) \in States
  <1>1. cache[StateKey(d)] \in Seq(States) /\ actual[d][Local] \in States
    BY DeviceStateConstants, KeysOf DEF TypeOK
  <1> QED
    BY <1>1 DEF DeviceState

LEMMA DriversKeepTypes ==
  ASSUME TypeOK, NEW d \in Devices, DriverChange(d) \/ ChangedKnown(d) \/ ChangedUnknown(d)
           \/ ChangedNoMemory(d) \/ DriverCompute(d) \/ DriverEventFails(d)
  PROVE  TypeOK'
  <1> USE DeviceStateConstants DEF TypeOK, unchangedReaders, unchangedHint
  <1>0. d \in Threads /\ "change" \in Threads /\ Reported[d] \subseteq States
    BY DEF Threads
  <1>1. CASE DriverChange(d)
    <2>1. /\ actual' \in [Devices -> [Servers -> States]]
          /\ \A f \in Devices, e \in Servers : actual'[f][e] \in Reported[f]
      BY <1>0, <1>1 DEF DriverChange
    <2>2. at' = [at EXCEPT ![d] = "changed"]
      BY <1>1 DEF DriverChange
    <2> QED
      BY <1>0, <1>1, <2>1, <2>2 DEF DriverChange, Busy
  <1>2. CASE ChangedKnown(d) \/ DriverCompute(d)
    <2>1. /\ at' = [at EXCEPT ![d] = "remove"]
          /\ ev' = [ev EXCEPT ![d] = LocalEvent(d, actual[d][Local])]
      BY <1>2 DEF ChangedKnown, DriverCompute
    <2>2. LocalEvent(d, actual[d][Local]) \in Events
      <3>1. actual[d][Local] \in States
        BY <1>0
      <3> QED
        BY <3>1, KeysOf
    <2>3. ev' \in [Threads -> Events \cup {NoEvent}] /\ at' \in [Threads -> Places]
      BY <2>1, <2>2 DEF Places, Busy
    <2>4. \A t \in Threads : at'[t] \in Busy \cup {"compare"} => ev'[t] \in Events
      BY <1>0, <2>1, <2>2
    <2> QED
      BY <1>2, <2>3, <2>4 DEF ChangedKnown, DriverCompute, Places
  <1>3. CASE ChangedUnknown(d)
    <2>1. PICK a \in [Threads -> {"idle", "changed", "compute", "lock", "waiting", "woken",
                                 "work", "compare", "read"} \cup Busy] :
                 a = [at EXCEPT ![d] = "idle"] /\ at' = SignalChange(a)
      BY <1>3 DEF ChangedUnknown, Asks
    <2>2. /\ at' \in [Threads -> Places]
          /\ \A t \in Threads : at'[t] \in Busy \cup {"compare"} => at[t] = at'[t]
      BY <1>0, <2>1 DEF SignalChange, Busy, Places
    <2>3. state_changes' \in Seq(Devices)
      BY <1>3 DEF ChangedUnknown, Asks
    <2> QED
      BY <1>3, <2>2, <2>3 DEF ChangedUnknown, Asks, Places
  <1>4. CASE ChangedNoMemory(d)
    BY <1>0, <1>4 DEF ChangedNoMemory, Asks, Fail, Busy
  <1>5. CASE DriverEventFails(d)
    BY <1>0, <1>5 DEF DriverEventFails, Fail, Missed, Busy
  <1> QED
    BY <1>1, <1>2, <1>3, <1>4, <1>5

LEMMA ChangeThreadKeepsTypes ==
  ASSUME TypeOK, \/ ChangeWait \/ ChangeTake \/ ChangeWakesUp \/ ChangeCompute
                 \/ ChangeEventFails \/ ChangeDone
  PROVE  TypeOK'
  <1> USE DeviceStateConstants DEF TypeOK, unchangedReaders, unchangedHint
  <1>0. "change" \in Threads
    BY DEF Threads
  <1>1. CASE ChangeWait \/ ChangeWakesUp \/ ChangeDone
    <2>1. \E x \in {"waiting", "woken", "lock"} : at' = [at EXCEPT !["change"] = x]
      BY <1>1 DEF ChangeWait, ChangeWakesUp, ChangeDone
    <2>2. /\ at' \in [Threads -> Places]
          /\ \A t \in Threads : at'[t] \in Busy \cup {"compare"} => at[t] = at'[t]
      BY <1>0, <2>1 DEF Busy, Places
    <2> QED
      BY <1>1, <2>2 DEF ChangeWait, ChangeWakesUp, ChangeDone, Places
  <1>2. CASE ChangeTake
    <2>1. at' = [at EXCEPT !["change"] = "work"] /\ next' \in Seq(Devices)
          /\ state_changes' \in Seq(Devices)
      BY <1>2 DEF ChangeTake
    <2>2. /\ at' \in [Threads -> Places]
          /\ \A t \in Threads : at'[t] \in Busy \cup {"compare"} => at[t] = at'[t]
      BY <1>0, <2>1 DEF Busy, Places
    <2> QED
      BY <1>2, <2>1, <2>2 DEF ChangeTake, Places
  <1>3. CASE ChangeCompute
    <2>1. PICK d \in Devices : d = Head(next)
      BY <1>3 DEF ChangeCompute
    <2>2. /\ at' = [at EXCEPT !["change"] = "remove"] /\ next' = Tail(next) /\ next # <<>>
          /\ ev' = [ev EXCEPT !["change"] = LocalEvent(d, actual[d][Local])]
      BY <1>3, <2>1 DEF ChangeCompute
    <2>3. LocalEvent(d, actual[d][Local]) \in Events
      <3>1. actual[d][Local] \in States
        BY <1>0
      <3> QED
        BY <3>1, KeysOf
    <2>4. ev' \in [Threads -> Events \cup {NoEvent}] /\ at' \in [Threads -> Places]
      BY <2>2, <2>3 DEF Places, Busy
    <2>5. \A t \in Threads : at'[t] \in Busy \cup {"compare"} => ev'[t] \in Events
      BY <1>0, <2>2, <2>3
    <2>6. next' \in Seq(Devices)
      BY <2>2
    <2> QED
      BY <1>3, <2>4, <2>5, <2>6 DEF ChangeCompute, Places
  <1>4. CASE ChangeEventFails
    <2>1. Head(next) \in Devices /\ next' \in Seq(Devices)
      BY <1>4 DEF ChangeEventFails
    <2> QED
      BY <1>4, <2>1 DEF ChangeEventFails, Fail, Missed
  <1> QED
    BY <1>1, <1>2, <1>3, <1>4

LEMMA PublishKeepsTypes ==
  ASSUME TypeOK, NEW t \in Threads, Publish(t)
  PROVE  TypeOK'
  <1> USE DeviceStateConstants DEF TypeOK, unchangedReaders, unchangedHint
  <1>0. ASSUME at[t] \in Busy PROVE ev[t].key \in Keys /\ ev[t].state \in States
    BY <1>0 DEF Events
  <1>1. CASE Remove(t)
    <2>1. cache' \in [Keys -> Seq(States)]
      BY <1>0, <1>1 DEF Remove, Busy
    <2> QED
      BY <1>1, <2>1 DEF Remove, Busy
  <1>2. CASE Link(t)
    <2>1. cache' \in [Keys -> Seq(States)]
      BY <1>0, <1>2 DEF Link, Busy
    <2> QED
      BY <1>2, <2>1 DEF Link, Busy
  <1>3. CASE LinkFails(t)
    BY <1>3 DEF LinkFails, Fail, Busy
  <1>4. CASE Queue(t)
    <2>1. ev[t] \in Events
      BY <1>4 DEF Queue, Published, Busy
    <2>2. events' \in Seq(Events)
      BY <1>4, <2>1 DEF Queue
    <2>3. \E x \in {"work", "idle"} : at' = [at EXCEPT ![t] = x]
      BY <1>4 DEF Queue, Published
    <2>4. ev' = [ev EXCEPT ![t] = NoEvent]
      BY <1>4 DEF Queue, Published
    <2>5. /\ at' \in [Threads -> Places] /\ ev' \in [Threads -> Events \cup {NoEvent}]
          /\ \A u \in Threads : at'[u] \in Busy \cup {"compare"} => at[u] = at'[u] /\ ev[u] = ev'[u]
      BY <2>3, <2>4 DEF Busy, Places
    <2> QED
      BY <1>4, <2>2, <2>5 DEF Queue, Published, Places
  <1>5. CASE QueueFails(t)
    <2>1. ev[t].key \in Keys
      BY <1>0, <1>5 DEF QueueFails, Published, Busy
    <2>2. ev[t].key[2] \in Devices
      BY <2>1, DeviceOf
    <2>3. \E x \in {"work", "idle"} : at' = [at EXCEPT ![t] = x]
      BY <1>5 DEF QueueFails, Published
    <2>4. ev' = [ev EXCEPT ![t] = NoEvent]
      BY <1>5 DEF QueueFails, Published
    <2>5. /\ at' \in [Threads -> Places] /\ ev' \in [Threads -> Events \cup {NoEvent}]
          /\ \A u \in Threads : at'[u] \in Busy \cup {"compare"} => at[u] = at'[u] /\ ev[u] = ev'[u]
      BY <2>3, <2>4 DEF Busy, Places
    <2> QED
      BY <1>5, <2>2, <2>5 DEF QueueFails, Published, Fail, Missed, Places
  <1> QED
    BY <1>1, <1>2, <1>3, <1>4, <1>5 DEF Publish

LEMMA DeliverKeepsTypes ==
  ASSUME TypeOK, NEW d \in Devices, NEW e \in Servers, Deliver(d, e) \/ DeliverFails(d, e)
  PROVE  TypeOK'
  <1> USE DeviceStateConstants DEF TypeOK, unchangedReaders, unchangedHint
  <1>0. "ais" \in Threads /\ Reported[d] \subseteq States
    BY DEF Threads
  <1>1. PICK s \in Reported[d] :
          /\ actual' = [actual EXCEPT ![d][e] = s]
          /\ Deliver(d, e) => ev' = [ev EXCEPT !["ais"] = [key |-> ChangeKey(d, e), state |-> s]]
    BY DEF Deliver, DeliverFails
  <1>2. /\ actual' \in [Devices -> [Servers -> States]]
        /\ \A f \in Devices, g \in Servers : actual'[f][g] \in Reported[f]
    BY <1>0, <1>1
  <1>3. CASE Deliver(d, e)
    <2>1. [key |-> ChangeKey(d, e), state |-> s] \in Events
      BY <1>0, KeysOf
    <2>2. at' = [at EXCEPT !["ais"] = "remove"]
      BY <1>3 DEF Deliver
    <2>3. ev' \in [Threads -> Events \cup {NoEvent}] /\ at' \in [Threads -> Places]
      BY <1>1, <1>3, <2>1, <2>2 DEF Busy, Places
    <2>4. \A t \in Threads : at'[t] \in Busy \cup {"compare"} => ev'[t] \in Events
      BY <1>0, <1>1, <1>3, <2>1, <2>2
    <2> QED
      BY <1>2, <1>3, <2>3, <2>4 DEF Deliver, Places
  <1>4. CASE DeliverFails(d, e)
    BY <1>2, <1>4 DEF DeliverFails, Fail
  <1> QED
    BY <1>3, <1>4

LEMMA ReadersKeepTypes ==
  ASSUME TypeOK, \/ Dispatcher \/ Collect \/ CollectFails \/ CollectSame \/ CollectChanged
                 \/ CollectUnread \/ CollectEventFails \/ Pbx
  PROVE  TypeOK'
  <1> USE DeviceStateConstants DEF TypeOK, unchangedHint
  <1>0. "collector" \in Threads /\ "pbx" \in Threads
    BY DEF Threads
  <1>1. CASE Dispatcher
    <2>0. events # <<>> /\ events' = Tail(events)
      BY <1>1 DEF Dispatcher, DispatchState, DispatchChange, DispatchFails
    <2>4. Head(events) \in Events
      BY <2>0
    <2>3. Head(events).key \in Keys
      BY <2>4 DEF Events
    <2>1. PICK d \in Devices : d = Head(events).key[2]
      BY <2>3, KeyParts
    <2>2. /\ events' \in Seq(Events)
          /\ statechanges' \in Seq(Devices) /\ devstate_change_q' \in Seq(Devices)
      <3>1. CASE DispatchState
        <4>1. statechanges' = Append(statechanges, d) /\ devstate_change_q' = devstate_change_q
          BY <2>1, <3>1 DEF DispatchState
        <4> QED
          BY <2>0, <4>1
      <3>2. CASE DispatchChange
        <4>1. devstate_change_q' = Append(devstate_change_q, d) /\ statechanges' = statechanges
          BY <2>1, <3>2 DEF DispatchChange
        <4> QED
          BY <2>0, <4>1
      <3>3. CASE DispatchFails
        BY <2>0, <3>3 DEF DispatchFails
      <3> QED
        BY <1>1, <3>1, <3>2, <3>3 DEF Dispatcher
    <2>5. untold' \subseteq Devices
      BY <1>1, <2>1 DEF Dispatcher, DispatchState, DispatchChange, DispatchFails, Missed
    <2>6. fails' \in 0 .. MaxFails
      BY <1>1 DEF Dispatcher, DispatchState, DispatchChange, DispatchFails, Fail, unchangedSources
    <2>7. UNCHANGED <<actual, changes, enabled, state_changes, next, at, ev, cache, rest, agg,
                      laststate>>
      BY <1>1 DEF Dispatcher, DispatchState, DispatchChange, DispatchFails, unchangedSources
    <2> QED
      BY <2>2, <2>5, <2>6, <2>7
  <1>2. CASE Collect
    <2>1. PICK d \in Devices : d = Head(devstate_change_q)
      BY <1>2 DEF Collect
    <2>2. [key |-> StateKey(d), state |-> Aggregate(Collected(d))] \in Events
      BY KeysOf, ResultIsState DEF Aggregate
    <2>3. /\ at' = [at EXCEPT !["collector"] = "compare"]
          /\ ev' = [ev EXCEPT !["collector"] =
                      [key |-> StateKey(d), state |-> Aggregate(Collected(d))]]
          /\ devstate_change_q' \in Seq(Devices)
      BY <1>2, <2>1 DEF Collect
    <2>4. ev' \in [Threads -> Events \cup {NoEvent}] /\ at' \in [Threads -> Places]
      BY <2>2, <2>3 DEF Busy, Places
    <2>5. \A t \in Threads : at'[t] \in Busy \cup {"compare"} => ev'[t] \in Events
      BY <1>0, <2>2, <2>3
    <2> QED
      BY <1>2, <2>3, <2>4, <2>5 DEF Collect, unchangedSources, Places
  <1>3. CASE CollectSame
    <2>1. /\ at' \in [Threads -> Places] /\ ev' \in [Threads -> Events \cup {NoEvent}]
          /\ \A u \in Threads : at'[u] \in Busy \cup {"compare"} => at[u] = at'[u] /\ ev[u] = ev'[u]
      BY <1>0, <1>3 DEF CollectSame, Busy, Places
    <2> QED
      BY <1>3, <2>1 DEF CollectSame, unchangedSources, unchangedReaders, unchangedHint, Places
  <1>4. CASE CollectChanged
    BY <1>0, <1>4 DEF CollectChanged, unchangedSources, unchangedReaders, unchangedHint, Busy
  <1>5. CASE HintOther
    BY <1>5 DEF HintOther, unchangedSources, unchangedPublishers
  <1>6. CASE HintStart
    <2>1. /\ at' \in [Threads -> Places]
          /\ \A u \in Threads : at'[u] \in Busy \cup {"compare"} => at[u] = at'[u]
      BY <1>0, <1>6 DEF HintStart, Busy, Places
    <2> QED
      BY <1>6, <2>1 DEF HintStart, unchangedSources, unchangedPublishers, Places
  <1>7. CASE HintRead
    <2>1. agg' \in Flags
      BY <1>7 DEF HintRead, AggregateAdd, Flags
    <2> QED
      BY <1>7, <2>1 DEF HintRead, unchangedSources, unchangedPublishers
  <1>8. CASE HintTell
    <2>1. agg' \in Flags
      BY <1>8 DEF HintTell, AggregateInit, Flags
    <2>2. laststate' \in {ToExtenState(s) : s \in States}
      BY <1>8, ResultIsState DEF HintTell
    <2>3. /\ at' \in [Threads -> Places]
          /\ \A u \in Threads : at'[u] \in Busy \cup {"compare"} => at[u] = at'[u]
      BY <1>0, <1>8 DEF HintTell, Busy, Places
    <2> QED
      BY <1>8, <2>1, <2>2, <2>3 DEF HintTell, unchangedSources, unchangedPublishers, Places
  <1>9. CASE CollectFails
    <2>1. Head(devstate_change_q) \in Devices /\ devstate_change_q' \in Seq(Devices)
      BY <1>9 DEF CollectFails
    <2> QED
      BY <1>9, <2>1 DEF CollectFails, Fail, Missed
  <1>10. CASE CollectUnread
    BY <1>0, <1>10 DEF CollectUnread, Fail, unchangedReaders, Busy
  <1>11. CASE CollectEventFails
    <2>1. /\ at' \in [Threads -> Places] /\ ev' \in [Threads -> Events \cup {NoEvent}]
          /\ \A u \in Threads : at'[u] \in Busy \cup {"compare"} => at[u] = at'[u] /\ ev[u] = ev'[u]
      BY <1>0, <1>11 DEF CollectEventFails, Busy, Places
    <2>2. ev["collector"].key \in Keys
      BY <1>0, <1>11 DEF CollectEventFails, Events
    <2>3. ev["collector"].key[2] \in Devices
      BY <2>2, DeviceOf
    <2> QED
      BY <1>11, <2>1, <2>3 DEF CollectEventFails, Fail, Missed, Places
  <1>12. CASE HintReadFails
    <2>1. agg' \in Flags
      BY <1>12 DEF HintReadFails, AggregateAdd, Flags
    <2>2. Head(rest) \in Devices /\ rest' \in Seq(Devices)
      BY <1>12 DEF HintReadFails
    <2> QED
      BY <1>12, <2>1, <2>2 DEF HintReadFails, Fail, Missed, unchangedPublishers
  <1> QED
    BY <1>1, <1>2, <1>3, <1>4, <1>5, <1>6, <1>7, <1>8, <1>9, <1>10, <1>11, <1>12 DEF Pbx

LEMMA TypeStep == TypeOK /\ [Next]_vars => TypeOK'
  <1> SUFFICES ASSUME TypeOK, [Next]_vars PROVE TypeOK'
    OBVIOUS
  <1>1. CASE UNCHANGED vars
    BY <1>1 DEF vars, TypeOK
  <1>2. CASE Next
    <2>1. \A t \in Threads : Publish(t) => TypeOK'
      BY PublishKeepsTypes
    <2>2. {"change", "collector", "ais", "pbx"} \cup Devices \subseteq Threads
      BY DEF Threads
    <2> QED
      BY <1>2, <2>1, <2>2, DriversKeepTypes, ChangeThreadKeepsTypes, DeliverKeepsTypes,
         ReadersKeepTypes DEF Next, Driver, ChangeThread, Collector
  <1> QED
    BY <1>1, <1>2

(* Every thread keeps to its places, the queues hold what their readers       *)
(* expect, and the cache holds states (devicestate.c, event.c and pbx.c).      *)
THEOREM StateTypesHold == Spec => []TypeOK
  BY TypeInit, TypeStep, PTL DEF Spec

-----------------------------------------------------------------------------
(* What the hint was told of a device is what is known of it, unless         *)
(* something is on its way that makes pbx-core read the device again.        *)

(* An event of the key is published, and waits for the dispatcher. *)
Publishing(k) == \E t \in Threads : at[t] \in Busy /\ ev[t].key = k
Queued(k)     == \E i \in 1 .. Len(events) : events[i].key = k

In(d, queue) == \E i \in 1 .. Len(queue) : queue[i] = d

(* The state of the device is on its way to pbx-core. *)
Told(d) ==
  \/ Publishing(StateKey(d)) \/ Queued(StateKey(d))
  \/ In(d, statechanges)

(* A change of this server's device is on its way to being published. *)
Changing(d) ==
  \/ at[d] \in {"changed", "compute"}
  \/ In(d, state_changes) \/ In(d, next)
  \/ Publishing(ChangeKey(d, Local)) \/ Queued(ChangeKey(d, Local))
  \/ In(d, devstate_change_q)
  \/ at["collector"] = "compare" /\ ev["collector"].key = StateKey(d)

(* The cache says nothing of the device, so that its driver is asked. *)
Hollow(d) == cache[StateKey(d)] = <<>> \/ Head(cache[StateKey(d)]) = "UNKNOWN"

(* What was found in the device is what is known of it, or will be looked at  *)
(* again, or the hint may miss it.                                            *)
Right(d, s) ==
  \/ s = DeviceState(d) \/ Told(d) \/ (Hollow(d) /\ Changing(d))
  \/ d \in untold \/ Vague(d)

(* The change thread has nothing left when it looks at its queue; what the   *)
(* collector compares is the state of a device; only a cluster has something *)
(* to collect.                                                               *)
ChangeClean == at["change"] \in {"lock", "waiting", "woken"} => next = <<>>

CollectorHolds ==
  at["collector"] = "compare" => \E d \in Devices : ev["collector"].key = StateKey(d)

Works(t, k) == at[t] \in Busy /\ ev[t].key = k

Alone ==
  ~enabled =>
    /\ devstate_change_q = <<>> /\ at["collector"] = "idle"
    /\ \A t \in Threads, d \in Devices, e \in Servers : ~Works(t, ChangeKey(d, e))
    /\ \A d \in Devices, e \in Servers : ~Queued(ChangeKey(d, e))
    /\ \A d \in Devices, e \in Servers : cache[ChangeKey(d, e)] = <<>>

Side == ChangeClean /\ CollectorHolds /\ Alone

LEMMA KeysDiffer ==
  ASSUME NEW d \in Devices, NEW f \in Devices, NEW e \in Servers, NEW g \in Servers
  PROVE  /\ StateKey(d) # ChangeKey(f, e)
         /\ StateKey(d) = StateKey(f) => d = f
         /\ ChangeKey(d, e) = ChangeKey(f, g) => d = f /\ e = g
         /\ StateKey(d)[1] = "state" /\ StateKey(d)[2] = d
         /\ ChangeKey(d, e)[1] = "change" /\ ChangeKey(d, e)[2] = d
  BY DEF StateKey, ChangeKey

LEMMA SideInit == Init => Side
  <1> SUFFICES ASSUME Init PROVE Side
    OBVIOUS
  <1>1. \A t \in Threads : at[t] \in {"idle", "lock"}
    BY DEF Init
  <1>2. ChangeClean /\ CollectorHolds
    BY <1>1 DEF Init, ChangeClean, CollectorHolds, Threads
  <1>3. Alone
    <2>1. at["collector"] = "idle" /\ devstate_change_q = <<>> /\ events = <<>>
      BY DEF Init, Threads
    <2>2. \A d \in Devices, e \in Servers : cache[ChangeKey(d, e)] = <<>>
      BY KeysOf DEF Init
    <2> QED
      BY <1>1, <2>1, <2>2 DEF Alone, Works, Busy, Queued
  <1> QED
    BY <1>2, <1>3 DEF Side

(* Steps that only change where a thread is, but for one that begins to      *)
(* publish or to compare.                                                    *)
LEMMA SideStep ==
  ASSUME TypeOK, TypeOK', Side, [Next]_vars
  PROVE  Side'
  <1> USE DeviceStateConstants
  <1>0. /\ ChangeClean /\ CollectorHolds /\ Alone
        /\ \A t \in Threads : at[t] \in Places
        /\ {"change", "collector", "ais", "pbx"} \cup Devices \subseteq Threads
        /\ at \in [Threads -> Places]
        /\ "change" \notin Devices /\ "collector" \notin Devices /\ "ais" \notin Devices
        /\ "pbx" \notin Devices
    BY DEF Side, TypeOK, Places, Threads
  <1>a. ASSUME UNCHANGED <<enabled, cache, events>>,
               devstate_change_q # <<>> \/ UNCHANGED devstate_change_q,
               at["change"] = "work" \/ UNCHANGED next,
               \A t \in Threads : at'[t] = at[t] \/ at'[t] \notin Busy \cup {"compare"},
               \A t \in Threads : at'[t] \in Busy \cup {"compare"} => ev'[t] = ev[t],
               at'["collector"] \in {at["collector"], "idle"},
               at'["change"] \in {"lock", "waiting", "woken"} =>
                 at["change"] \in {"lock", "waiting", "woken"} \/ next' = <<>>
        PROVE  Side'
    <2>1. ChangeClean'
      BY <1>0, <1>a DEF ChangeClean
    <2>2. CollectorHolds'
      BY <1>0, <1>a DEF CollectorHolds
    <2>3. Alone'
      BY <1>0, <1>a DEF Alone, Works, Queued
    <2> QED
      BY <2>1, <2>2, <2>3 DEF Side
  <1>b. ASSUME UNCHANGED <<enabled, cache, events, devstate_change_q>>,
               NEW u \in Threads, u # "collector",
               u # "change" => next' = next,
               at' = [at EXCEPT ![u] = "remove"],
               \A t \in Threads \ {u} : ev'[t] = ev[t],
               ~enabled => \A d \in Devices, e \in Servers : ev'[u].key # ChangeKey(d, e)
        PROVE  Side'
    <2>1. ChangeClean'
      BY <1>0, <1>b DEF ChangeClean
    <2>2. CollectorHolds'
      BY <1>0, <1>b DEF CollectorHolds
    <2>3. \A t \in Threads \ {u} : at'[t] = at[t]
      BY <1>0, <1>b
    <2>4. Alone'
      BY <1>0, <1>b, <2>3 DEF Alone, Works, Queued
    <2> QED
      BY <2>1, <2>2, <2>4 DEF Side
  <1>l. \A f \in Devices : \A x : ~enabled =>
          \A d \in Devices, e \in Servers : LocalEvent(f, x).key # ChangeKey(d, e)
    BY KeysDiffer DEF LocalEvent
  <1>1. ASSUME UNCHANGED vars PROVE Side'
    BY <1>0, <1>a, <1>1 DEF vars
  <1>2. ASSUME NEW d \in Devices, DriverChange(d) \/ ChangedNoMemory(d) \/ DriverEventFails(d)
        PROVE  Side'
    <2>1. \E x \in {"changed", "compute", "idle"} : at' = [at EXCEPT ![d] = x]
      BY <1>2 DEF DriverChange, ChangedNoMemory, DriverEventFails
    <2>2. UNCHANGED <<enabled, cache, events, devstate_change_q, next, ev>>
      BY <1>2 DEF DriverChange, ChangedNoMemory, DriverEventFails, unchangedReaders
    <2> QED
      BY <1>0, <1>a, <2>1, <2>2 DEF Busy
  <1>3. ASSUME NEW d \in Devices, ChangedKnown(d) \/ DriverCompute(d) PROVE Side'
    <2>1. /\ at' = [at EXCEPT ![d] = "remove"]
          /\ UNCHANGED <<enabled, cache, events, devstate_change_q, next>>
          /\ ev' = [ev EXCEPT ![d] = LocalEvent(d, actual[d][Local])]
      BY <1>3 DEF ChangedKnown, DriverCompute, unchangedReaders
    <2>2. ev'[d] = LocalEvent(d, actual[d][Local]) /\ \A t \in Threads \ {d} : ev'[t] = ev[t]
      BY <1>0, <2>1 DEF TypeOK
    <2>3. ~enabled => \A f \in Devices, e \in Servers : ev'[d].key # ChangeKey(f, e)
      BY <1>l, <2>2
    <2>4. d \in Threads /\ d # "collector"
      BY <1>0
    <2> QED
      BY <1>b, <2>1, <2>2, <2>3, <2>4
  <1>4. ASSUME NEW d \in Devices, ChangedUnknown(d) PROVE Side'
    <2>1. /\ UNCHANGED <<enabled, cache, events, devstate_change_q, next, ev>>
          /\ at' = SignalChange([at EXCEPT ![d] = "idle"])
      BY <1>4 DEF ChangedUnknown, unchangedReaders
    <2>2. PICK a \in [Threads -> Places] : a = [at EXCEPT ![d] = "idle"]
      BY <1>0 DEF Places
    <2>3. at' = IF a["change"] = "waiting" THEN [a EXCEPT !["change"] = "woken"] ELSE a
      BY <2>1, <2>2 DEF SignalChange
    <2> QED
      BY <1>0, <1>a, <2>1, <2>2, <2>3 DEF Busy
  <1>5. ASSUME ChangeWait \/ ChangeWakesUp \/ ChangeDone PROVE Side'
    <2>1. \E x \in {"waiting", "woken", "lock"} : at' = [at EXCEPT !["change"] = x]
      BY <1>5 DEF ChangeWait, ChangeWakesUp, ChangeDone
    <2>2. /\ UNCHANGED <<enabled, cache, events, devstate_change_q, next, ev>>
          /\ at["change"] \in {"lock", "waiting"} \/ next = <<>>
      BY <1>5 DEF ChangeWait, ChangeWakesUp, ChangeDone, unchangedReaders
    <2> QED
      BY <1>0, <1>a, <2>1, <2>2 DEF Busy
  <1>6. ASSUME ChangeTake PROVE Side'
    <2>1. /\ at' = [at EXCEPT !["change"] = "work"]
          /\ UNCHANGED <<enabled, cache, events, devstate_change_q, ev>>
      BY <1>6 DEF ChangeTake, unchangedReaders
    <2>2. ChangeClean'
      BY <1>0, <2>1 DEF ChangeClean
    <2>3. CollectorHolds'
      BY <1>0, <2>1 DEF CollectorHolds
    <2>4. Alone'
      BY <1>0, <2>1 DEF Alone, Works, Queued, Busy
    <2> QED
      BY <2>2, <2>3, <2>4 DEF Side
  <1>7. ASSUME ChangeCompute PROVE Side'
    <2>1. PICK d \in Devices : d = Head(next)
      BY <1>7 DEF ChangeCompute, TypeOK
    <2>2. /\ at' = [at EXCEPT !["change"] = "remove"]
          /\ UNCHANGED <<enabled, cache, events, devstate_change_q>>
          /\ ev' = [ev EXCEPT !["change"] = LocalEvent(d, actual[d][Local])]
      BY <1>7, <2>1 DEF ChangeCompute, unchangedReaders
    <2>3. /\ ev'["change"] = LocalEvent(d, actual[d][Local])
          /\ \A t \in Threads \ {"change"} : ev'[t] = ev[t]
      BY <1>0, <2>2 DEF TypeOK
    <2>4. ~enabled => \A f \in Devices, e \in Servers : ev'["change"].key # ChangeKey(f, e)
      BY <1>l, <2>3
    <2> QED
      BY <1>0, <1>b, <2>2, <2>3, <2>4
  <1>8. ASSUME ChangeEventFails PROVE Side'
    <2>1. /\ at["change"] = "work"
          /\ UNCHANGED <<enabled, cache, events, devstate_change_q, at, ev>>
      BY <1>8 DEF ChangeEventFails
    <2> QED
      BY <1>0, <1>a, <2>1
  <1>9. ASSUME NEW d \in Devices, NEW e \in Servers, Deliver(d, e) PROVE Side'
    <2>1. PICK s \in Reported[d] : ev' = [ev EXCEPT !["ais"] = [key |-> ChangeKey(d, e), state |-> s]]
      BY <1>9 DEF Deliver
    <2>2. /\ at' = [at EXCEPT !["ais"] = "remove"] /\ enabled
          /\ UNCHANGED <<enabled, cache, events, devstate_change_q, next>>
      BY <1>9 DEF Deliver, unchangedReaders
    <2>3. \A t \in Threads \ {"ais"} : ev'[t] = ev[t]
      BY <1>0, <2>1 DEF TypeOK
    <2> QED
      BY <1>0, <1>b, <2>2, <2>3
  <1>10. ASSUME NEW d \in Devices, NEW e \in Servers, DeliverFails(d, e) PROVE Side'
    BY <1>0, <1>a, <1>10 DEF DeliverFails, unchangedReaders
  <1>11. ASSUME NEW t \in Threads, Remove(t) \/ Link(t) \/ LinkFails(t) PROVE Side'
    <2>1. /\ \E x \in {"link", "queue"} : at' = [at EXCEPT ![t] = x]
          /\ at[t] \in {"remove", "link"} /\ UNCHANGED <<next, ev, enabled, events, devstate_change_q>>
      BY <1>11 DEF Remove, Link, LinkFails, unchangedReaders
    <2>2. ChangeClean'
      BY <1>0, <2>1 DEF ChangeClean
    <2>3. CollectorHolds'
      BY <1>0, <2>1 DEF CollectorHolds
    <2>4. ASSUME ~enabled PROVE Alone'
      <3>1. t # "collector" /\ at'["collector"] = at["collector"]
        BY <1>0, <2>1, <2>4 DEF Alone
      <3>2. \A u \in Threads : at'[u] \in Busy => at[u] \in Busy
        BY <1>0, <2>1 DEF Busy
      <3>3. \A d \in Devices, e \in Servers : ev[t].key # ChangeKey(d, e)
        BY <1>0, <2>1, <2>4 DEF Alone, Works, Busy
      <3>4. \A d \in Devices, e \in Servers : cache'[ChangeKey(d, e)] = cache[ChangeKey(d, e)]
        <4>1. \A k \in Keys : k # ev[t].key => cache'[k] = cache[k]
          BY <1>11 DEF Remove, Link, LinkFails, TypeOK
        <4> QED
          BY <3>3, <4>1, KeysOf
      <3> QED
        BY <1>0, <2>1, <2>4, <3>1, <3>2, <3>4 DEF Alone, Works, Queued
    <2> QED
      BY <2>1, <2>2, <2>3, <2>4 DEF Side, Alone
  <1>12. ASSUME NEW t \in Threads, Queue(t) \/ QueueFails(t) PROVE Side'
    <2>1. /\ at' = [at EXCEPT ![t] = IF t = "change" THEN "work" ELSE "idle"]
          /\ ev' = [ev EXCEPT ![t] = NoEvent]
          /\ UNCHANGED <<next, cache, enabled, devstate_change_q>>
          /\ at[t] = "queue" /\ events' \in {events, Append(events, ev[t])}
      BY <1>12 DEF Queue, QueueFails, Published
    <2>2. \A u \in Threads : /\ at'[u] = at[u] \/ at'[u] \notin Busy \cup {"compare"}
                             /\ at'[u] \in Busy \cup {"compare"} => ev'[u] = ev[u]
      BY <1>0, <2>1 DEF Busy
    <2>3. at'["change"] \in {"lock", "waiting", "woken"} => at["change"] = at'["change"]
      BY <1>0, <2>1
    <2>4. ChangeClean' /\ CollectorHolds'
      BY <1>0, <2>1, <2>2, <2>3 DEF ChangeClean, CollectorHolds
    <2>5. ASSUME ~enabled PROVE Alone'
      <3>1. \A d \in Devices, e \in Servers : ev[t].key # ChangeKey(d, e)
        BY <1>0, <2>1, <2>5 DEF Alone, Works, Busy
      <3>2. events \in Seq(Events) /\ ev[t] \in Events
        BY <2>1 DEF TypeOK, Busy
      <3>3. \A i \in 1 .. Len(events') :
              events'[i] = ev[t] \/ (i \in 1 .. Len(events) /\ events'[i] = events[i])
        BY <2>1, <3>2
      <3>4. \A d \in Devices, e \in Servers : ~Queued(ChangeKey(d, e))'
        BY <1>0, <2>5, <3>1, <3>3 DEF Alone, Queued
      <3>5. at'["collector"] = "idle"
        BY <1>0, <2>1, <2>5 DEF Alone
      <3> QED
        BY <1>0, <2>1, <2>2, <2>5, <3>4, <3>5 DEF Alone, Works
    <2> QED
      BY <2>1, <2>4, <2>5 DEF Side, Alone
  <1>13. ASSUME Dispatcher PROVE Side'
    <2>1. /\ events # <<>> /\ events' = Tail(events) /\ UNCHANGED <<at, ev, cache, next, enabled>>
          /\ Head(events).key[1] = "change" \/ UNCHANGED devstate_change_q
      BY <1>13 DEF Dispatcher, DispatchState, DispatchChange, DispatchFails, unchangedSources
    <2>2. events \in Seq(Events) /\ Head(events) \in Events /\ Head(events) = events[1]
          /\ 1 \in 1 .. Len(events)
      BY <2>1 DEF TypeOK
    <2>3. ChangeClean' /\ CollectorHolds'
      BY <1>0, <2>1 DEF ChangeClean, CollectorHolds
    <2>4. ASSUME ~enabled PROVE Alone'
      <3>1. PICK k \in Keys : k = Head(events).key
        BY <2>2 DEF Events
      <3>2. ~ \E d \in Devices, e \in Servers : k = ChangeKey(d, e)
        BY <1>0, <2>2, <2>4, <3>1 DEF Alone, Queued
      <3>3. k[1] = "state"
        BY <3>2, KeyParts
      <3>4. UNCHANGED devstate_change_q
        BY <2>1, <3>1, <3>3
      <3>5. \A i \in 1 .. Len(events') : i + 1 \in 1 .. Len(events) /\ events'[i] = events[i + 1]
        BY <2>1, <2>2
      <3>6. \A d \in Devices, e \in Servers : ~Queued(ChangeKey(d, e))'
        BY <1>0, <2>4, <3>5 DEF Alone, Queued
      <3> QED
        BY <1>0, <2>1, <2>4, <3>4, <3>6 DEF Alone, Works
    <2> QED
      BY <2>1, <2>3, <2>4 DEF Side, Alone
  <1>14. ASSUME Collect PROVE Side'
    <2>1. PICK d \in Devices : d = Head(devstate_change_q)
      BY <1>14 DEF Collect, TypeOK
    <2>2. /\ at' = [at EXCEPT !["collector"] = "compare"]
          /\ ev' = [ev EXCEPT !["collector"] =
                      [key |-> StateKey(d), state |-> Aggregate(Collected(d))]]
          /\ UNCHANGED <<cache, next, enabled>> /\ devstate_change_q # <<>>
      BY <1>14, <2>1 DEF Collect, unchangedSources
    <2>3. ChangeClean'
      BY <1>0, <2>2 DEF ChangeClean
    <2>4. CollectorHolds'
      BY <1>0, <2>2 DEF CollectorHolds, TypeOK
    <2>5. Alone'
      BY <1>0, <2>2 DEF Alone
    <2> QED
      BY <2>3, <2>4, <2>5 DEF Side
  <1>15. ASSUME CollectFails PROVE Side'
    <2>1. /\ devstate_change_q # <<>> /\ UNCHANGED <<enabled, cache, events, next, at, ev>>
      BY <1>15 DEF CollectFails
    <2> QED
      BY <1>0, <1>a, <2>1
  <1>16. ASSUME CollectSame \/ CollectEventFails PROVE Side'
    <2>1. /\ at' = [at EXCEPT !["collector"] = "idle"]
          /\ ev' = [ev EXCEPT !["collector"] = NoEvent]
          /\ UNCHANGED <<next, cache, enabled, events, devstate_change_q>>
      BY <1>16 DEF CollectSame, CollectEventFails, unchangedSources, unchangedReaders
    <2>2. \A u \in Threads : /\ at'[u] = at[u] \/ at'[u] \notin Busy \cup {"compare"}
                             /\ at'[u] \in Busy \cup {"compare"} => ev'[u] = ev[u]
      BY <1>0, <2>1 DEF Busy
    <2> QED
      BY <1>0, <1>a, <2>1, <2>2
  <1>17. ASSUME CollectChanged \/ CollectUnread PROVE Side'
    <2>1. /\ at["collector"] = "compare" /\ UNCHANGED <<next, cache, ev, enabled>>
          /\ at' = [at EXCEPT !["collector"] = "remove"]
      BY <1>17 DEF CollectChanged, CollectUnread, unchangedSources
    <2>2. ChangeClean'
      BY <1>0, <2>1 DEF ChangeClean
    <2>3. CollectorHolds'
      BY <1>0, <2>1 DEF CollectorHolds
    <2>4. Alone'
      BY <1>0, <2>1 DEF Alone
    <2> QED
      BY <2>2, <2>3, <2>4 DEF Side
  <1>18. ASSUME Pbx PROVE Side'
    <2>1. UNCHANGED <<cache, next, ev, enabled, events, devstate_change_q>>
      BY <1>18 DEF Pbx, HintOther, HintStart, HintRead, HintReadFails, HintTell, unchangedSources,
         unchangedPublishers
    <2>2. at' = at \/ \E x \in {"idle", "read"} : at' = [at EXCEPT !["pbx"] = x]
      BY <1>18 DEF Pbx, HintOther, HintStart, HintRead, HintReadFails, HintTell
    <2> QED
      BY <1>0, <1>a, <2>1, <2>2 DEF Busy
  <1> QED
    <2>1. \A t \in Threads : Publish(t) => Side'
      BY <1>11, <1>12 DEF Publish
    <2> QED
      BY <1>0, <2>1, <1>1, <1>2, <1>3, <1>4, <1>5, <1>6, <1>7, <1>8, <1>9, <1>10, <1>13, <1>14,
         <1>15, <1>16, <1>17, <1>18 DEF Next, Driver, ChangeThread, Collector

-----------------------------------------------------------------------------
LEMMA InAppended ==
  ASSUME NEW S, NEW q \in Seq(S), NEW x \in S, NEW d, In(d, q) \/ d = x
  PROVE  In(d, Append(q, x))
  <1>1. /\ Len(Append(q, x)) = Len(q) + 1 /\ Len(q) \in Nat
        /\ \A i \in 1 .. Len(q) : Append(q, x)[i] = q[i]
        /\ Append(q, x)[Len(q) + 1] = x
    OBVIOUS
  <1>2. CASE In(d, q)
    BY <1>1, <1>2 DEF In
  <1>3. CASE d = x
    <2>1. Len(q) + 1 \in 1 .. Len(Append(q, x))
      BY <1>1
    <2> QED
      BY <1>1, <1>3, <2>1 DEF In
  <1> QED
    BY <1>2, <1>3

LEMMA InTail ==
  ASSUME NEW S, NEW q \in Seq(S), q # <<>>, NEW d, In(d, q), d # Head(q)
  PROVE  In(d, Tail(q))
  <1>1. PICK i \in 1 .. Len(q) : q[i] = d
    BY DEF In
  <1>2. i # 1 /\ i \in Nat /\ Len(q) \in Nat
    BY <1>1
  <1>3. i - 1 \in 1 .. Len(Tail(q)) /\ Tail(q)[i - 1] = q[i]
    BY <1>1, <1>2
  <1> QED
    BY <1>1, <1>3 DEF In

(* Only queues move on, and what is read of the device stays the same. *)
LEMMA RightKept ==
  ASSUME UNCHANGED <<cache, actual>>, NEW d \in Devices, NEW s, Right(d, s),
         enabled' = enabled, untold \subseteq untold',
         Told(d) => Told(d)',
         Hollow(d) /\ Changing(d) => Changing(d)' \/ Told(d)' \/ Vague(d)
  PROVE  Right(d, s)'
  BY DEF Right, DeviceState, Hollow, Vague

(* The drivers and the change thread *)
LEMMA SourcesRight ==
  ASSUME TypeOK, Side, NEW d \in Devices, NEW s, Right(d, s),
         \/ \E f \in Devices : \/ DriverChange(f) \/ ChangedKnown(f) \/ ChangedUnknown(f)
                               \/ ChangedNoMemory(f) \/ DriverCompute(f) \/ DriverEventFails(f)
         \/ ChangeWait \/ ChangeTake \/ ChangeWakesUp \/ ChangeCompute \/ ChangeEventFails
         \/ ChangeDone
         \/ \E f \in Devices, e \in Servers : Deliver(f, e) \/ DeliverFails(f, e)
  PROVE  Right(d, s)'
  <1> USE DeviceStateConstants
  <1>0. /\ at \in [Threads -> Places] /\ ev \in [Threads -> Events \cup {NoEvent}]
        /\ state_changes \in Seq(Devices) /\ next \in Seq(Devices)
        /\ "change" \notin Devices /\ "collector" \notin Devices /\ "ais" \notin Devices
        /\ {"change", "collector", "ais", "pbx"} \cup Devices \subseteq Threads
        /\ actual \in [Devices -> [Servers -> States]]
    BY DEF TypeOK, Places, Threads
  <1>u. enabled' = enabled /\ untold \subseteq untold'
    BY DEF DriverChange, ChangedKnown, ChangedUnknown, ChangedNoMemory, DriverCompute,
       DriverEventFails, ChangeWait, ChangeTake, ChangeWakesUp, ChangeCompute, ChangeEventFails,
       ChangeDone, Deliver, DeliverFails, Missed, unchangedReaders
  <1>n. {"idle", "changed", "compute", "lock", "waiting", "woken", "work"} \cap Busy = {}
    BY DEF Busy
  <1>a. ASSUME UNCHANGED <<cache, actual, events, statechanges, devstate_change_q>>,
               UNCHANGED <<state_changes, next, ev>>,
               \A t \in Threads : at'[t] = at[t] \/ {at[t], at'[t]} \cap (Busy \cup {"compare"}) = {},
               at[d] \in {"changed", "compute"} => at'[d] \in {"changed", "compute"}
        PROVE  Right(d, s)'
    <2>1. \A k : Publishing(k) => Publishing(k)'
      BY <1>a DEF Publishing
    <2>2. Told(d) => Told(d)'
      BY <1>a, <2>1 DEF Told, Queued, In
    <2>3. Changing(d) => Changing(d)'
      BY <1>0, <1>a, <2>1 DEF Changing, Queued, In
    <2> QED
      BY <1>u, <1>a, <2>2, <2>3, RightKept
  <1>b. ASSUME NEW u \in Threads, u # "collector", NEW f \in Devices,
               NEW e \in [key : Keys, state : States],
               UNCHANGED <<cache, events, statechanges, devstate_change_q, state_changes>>,
               at[u] \notin Busy, at' = [at EXCEPT ![u] = "remove"], ev' = [ev EXCEPT ![u] = e],
               actual'[d][Local] = actual[d][Local],
               Changing(d) => \/ d = f /\ e.key \in {StateKey(f), ChangeKey(f, Local)}
                              \/ /\ d # u /\ (In(d, next) => In(d, next'))
        PROVE  Right(d, s)'
    <2>1. \A t \in Threads \ {u} : at'[t] = at[t] /\ ev'[t] = ev[t]
      BY <1>0, <1>b
    <2>2. \A k : Publishing(k) => Publishing(k)'
      BY <1>b, <2>1 DEF Publishing
    <2>3. Publishing(e.key)'
      BY <1>0, <1>b DEF Publishing, Busy
    <2>4. Told(d) => Told(d)'
      BY <1>b, <2>2 DEF Told, Queued, In
    <2>5. Changing(d) => Changing(d)' \/ Told(d)'
      <3>1. CASE d = f /\ e.key \in {StateKey(f), ChangeKey(f, Local)}
        BY <2>3, <3>1 DEF Changing, Told
      <3>2. CASE d # u /\ (In(d, next) => In(d, next'))
        BY <1>0, <1>b, <2>1, <2>2, <3>2 DEF Changing, Queued, In
      <3> QED
        BY <1>b, <3>1, <3>2
    <2>6. /\ DeviceState(d)' = DeviceState(d) /\ (Hollow(d)' <=> Hollow(d))
          /\ Vague(d) => Vague(d)'
      BY <1>u, <1>b DEF DeviceState, Hollow, Vague
    <2> QED
      BY <1>u, <2>4, <2>5, <2>6 DEF Right
  <1>1. ASSUME NEW f \in Devices, DriverChange(f) PROVE Right(d, s)'
    <2>1. /\ at[f] = "idle" /\ at' = [at EXCEPT ![f] = "changed"]
          /\ UNCHANGED <<cache, events, statechanges, devstate_change_q, state_changes, next, ev>>
          /\ \E x : actual' = [actual EXCEPT ![f][Local] = x]
      BY <1>1 DEF DriverChange, unchangedReaders, unchangedHint
    <2>2. \A k : Publishing(k) => Publishing(k)'
      BY <1>0, <1>n, <2>1 DEF Publishing
    <2>3. Told(d) => Told(d)'
      BY <2>1, <2>2 DEF Told, Queued, In
    <2>4. Changing(d) => Changing(d)'
      BY <1>0, <2>1, <2>2 DEF Changing, Queued, In
    <2>5. (Hollow(d)' <=> Hollow(d)) /\ (Vague(d) => Vague(d)')
      BY <1>u, <2>1 DEF Hollow, Vague
    <2>6. CASE d = f
      <3>1. Changing(d)'
        BY <1>0, <2>1, <2>6 DEF Changing
      <3>2. ~Hollow(d) => DeviceState(d)' = DeviceState(d)
        BY <2>1 DEF Hollow, DeviceState
      <3> QED
        BY <1>u, <2>3, <2>5, <3>1, <3>2 DEF Right
    <2>7. CASE d # f
      <3>1. actual'[d] = actual[d]
        BY <1>0, <2>1, <2>7
      <3>2. DeviceState(d)' = DeviceState(d)
        BY <2>1, <3>1 DEF DeviceState
      <3> QED
        BY <1>u, <2>3, <2>4, <2>5, <3>2 DEF Right
    <2> QED
      BY <2>6, <2>7
  <1>2. ASSUME NEW f \in Devices, ChangedKnown(f) \/ DriverCompute(f) PROVE Right(d, s)'
    <2>1. /\ at[f] \in {"changed", "compute"} /\ at' = [at EXCEPT ![f] = "remove"]
          /\ ev' = [ev EXCEPT ![f] = LocalEvent(f, actual[f][Local])]
          /\ UNCHANGED <<cache, events, statechanges, devstate_change_q, state_changes, next, actual>>
      BY <1>2 DEF ChangedKnown, DriverCompute, unchangedReaders, unchangedHint
    <2>2. actual[f][Local] \in States
      BY <1>0
    <2>3. /\ LocalEvent(f, actual[f][Local]) \in [key : Keys, state : States]
          /\ LocalEvent(f, actual[f][Local]).key \in {StateKey(f), ChangeKey(f, Local)}
      BY <2>2, KeysOf DEF Events, LocalEvent
    <2> QED
      BY <1>0, <1>n, <1>b, <2>1, <2>3
  <1>3. ASSUME NEW f \in Devices, ChangedUnknown(f) PROVE Right(d, s)'
    <2>1. /\ at[f] = "changed" /\ at' = SignalChange([at EXCEPT ![f] = "idle"])
          /\ state_changes' = Append(state_changes, f)
          /\ UNCHANGED <<cache, actual, events, statechanges, devstate_change_q, next, ev>>
      BY <1>3 DEF ChangedUnknown, Asks, unchangedReaders, unchangedHint
    <2>2. PICK a \in [Threads -> Places] : a = [at EXCEPT ![f] = "idle"]
      BY <1>0 DEF Places
    <2>3. at' = IF a["change"] = "waiting" THEN [a EXCEPT !["change"] = "woken"] ELSE a
      BY <2>1, <2>2 DEF SignalChange
    <2>4. /\ \A t \in Threads : at'[t] = at[t] \/ {at[t], at'[t]} \cap (Busy \cup {"compare"}) = {}
          /\ d # f => at'[d] = at[d]
      BY <1>0, <1>n, <2>1, <2>2, <2>3
    <2>5. \A k : Publishing(k) => Publishing(k)'
      BY <2>1, <2>4 DEF Publishing
    <2>6. Told(d) => Told(d)'
      BY <2>1, <2>5 DEF Told, Queued, In
    <2>7. In(d, state_changes) \/ d = f => In(d, state_changes')
      BY <1>0, <2>1, InAppended
    <2>8. Changing(d) => Changing(d)'
      BY <1>0, <2>1, <2>4, <2>5, <2>7 DEF Changing, Queued, In
    <2> QED
      BY <1>u, <2>1, <2>6, <2>8, RightKept
  <1>4. ASSUME NEW f \in Devices, ChangedNoMemory(f) PROVE Right(d, s)'
    <2>1. /\ at[f] = "changed" /\ at' = [at EXCEPT ![f] = "compute"]
          /\ UNCHANGED <<cache, actual, events, statechanges, devstate_change_q, next, ev, state_changes>>
      BY <1>4 DEF ChangedNoMemory, Asks, Fail, unchangedReaders, unchangedHint
    <2> QED
      BY <1>0, <1>n, <1>a, <2>1
  <1>5. ASSUME ChangeWait \/ ChangeWakesUp \/ ChangeDone PROVE Right(d, s)'
    <2>1. /\ \E x \in {"waiting", "woken", "lock"} : at' = [at EXCEPT !["change"] = x]
          /\ at["change"] \in {"lock", "waiting", "work"}
          /\ UNCHANGED <<cache, actual, events, statechanges, devstate_change_q, next, ev, state_changes>>
      BY <1>5 DEF ChangeWait, ChangeWakesUp, ChangeDone, unchangedReaders, unchangedHint
    <2> QED
      BY <1>0, <1>n, <1>a, <2>1
  <1>6. ASSUME ChangeTake PROVE Right(d, s)'
    <2>1. /\ at' = [at EXCEPT !["change"] = "work"] /\ at["change"] \in {"lock", "woken"}
          /\ next' = state_changes /\ state_changes' = <<>>
          /\ UNCHANGED <<cache, actual, events, statechanges, devstate_change_q, ev>>
      BY <1>6 DEF ChangeTake, unchangedReaders, unchangedHint
    <2>2. next = <<>>
      BY <2>1 DEF Side, ChangeClean
    <2>3. In(d, state_changes) => In(d, next')
      BY <2>1
    <2>4. ~In(d, next)
      BY <2>2 DEF In
    <2>5. \A t \in Threads : at'[t] = at[t] \/ {at[t], at'[t]} \cap (Busy \cup {"compare"}) = {}
      BY <1>0, <1>n, <2>1
    <2>6. \A k : Publishing(k) => Publishing(k)'
      BY <2>1, <2>5 DEF Publishing
    <2>7. Told(d) => Told(d)'
      BY <2>1, <2>6 DEF Told, Queued, In
    <2>8. Changing(d) => Changing(d)'
      <3>1. at'[d] = at[d] /\ at'["collector"] = at["collector"]
        BY <1>0, <2>1
      <3>2. Queued(ChangeKey(d, Local)) => Queued(ChangeKey(d, Local))'
        BY <2>1 DEF Queued
      <3>3. In(d, devstate_change_q) => In(d, devstate_change_q)'
        BY <2>1
      <3> QED
        BY <2>1, <2>3, <2>4, <2>6, <3>1, <3>2, <3>3 DEF Changing
    <2> QED
      BY <1>u, <2>1, <2>7, <2>8, RightKept
  <1>7. ASSUME ChangeCompute PROVE Right(d, s)'
    <2>1. PICK f \in Devices : f = Head(next)
      BY <1>0, <1>7 DEF ChangeCompute
    <2>2. /\ at["change"] = "work" /\ at' = [at EXCEPT !["change"] = "remove"]
          /\ next # <<>> /\ next' = Tail(next)
          /\ ev' = [ev EXCEPT !["change"] = LocalEvent(f, actual[f][Local])]
          /\ UNCHANGED <<cache, events, statechanges, devstate_change_q, state_changes, actual>>
      BY <1>7, <2>1 DEF ChangeCompute, unchangedReaders, unchangedHint
    <2>3. actual[f][Local] \in States
      BY <1>0
    <2>4. /\ LocalEvent(f, actual[f][Local]) \in [key : Keys, state : States]
          /\ LocalEvent(f, actual[f][Local]).key \in {StateKey(f), ChangeKey(f, Local)}
      BY <2>3, KeysOf DEF Events, LocalEvent
    <2>5. d # f => (In(d, next) => In(d, next'))
      BY <1>0, <2>1, <2>2, InTail
    <2> QED
      BY <1>0, <1>n, <1>b, <2>2, <2>4, <2>5
  <1>8. ASSUME NEW f \in Devices, NEW e \in Servers, Deliver(f, e) PROVE Right(d, s)'
    <2>1. PICK x \in States : /\ actual' = [actual EXCEPT ![f][e] = x]
                              /\ ev' = [ev EXCEPT !["ais"] = [key |-> ChangeKey(f, e), state |-> x]]
      BY <1>8 DEF Deliver
    <2>2. /\ e # Local /\ at["ais"] = "idle" /\ at' = [at EXCEPT !["ais"] = "remove"]
          /\ UNCHANGED <<cache, events, statechanges, devstate_change_q, state_changes, next>>
      BY <1>8 DEF Deliver, unchangedReaders, unchangedHint
    <2>3. actual'[d][Local] = actual[d][Local]
      BY <1>0, <2>1, <2>2
    <2>4. [key |-> ChangeKey(f, e), state |-> x] \in [key : Keys, state : States]
      BY KeysOf, <1>0
    <2> QED
      BY <1>0, <1>n, <1>b, <2>1, <2>2, <2>3, <2>4
  <1>9. ASSUME NEW f \in Devices, DriverEventFails(f) PROVE Right(d, s)'
    <2>1. /\ at[f] \in {"changed", "compute"} /\ at' = [at EXCEPT ![f] = "idle"]
          /\ UNCHANGED <<cache, actual, events, statechanges, devstate_change_q, next, ev, state_changes>>
          /\ untold' = untold \cup {f}
      BY <1>9 DEF DriverEventFails, Missed, unchangedHint
    <2>2. CASE d = f
      BY <2>1, <2>2 DEF Right
    <2>3. CASE d # f
      BY <1>0, <1>n, <1>a, <2>1, <2>3
    <2> QED
      BY <2>2, <2>3
  <1>10. ASSUME ChangeEventFails PROVE Right(d, s)'
    <2>1. /\ next # <<>> /\ next' = Tail(next) /\ untold' = untold \cup {Head(next)}
          /\ UNCHANGED <<cache, actual, events, statechanges, devstate_change_q, at, ev, state_changes>>
      BY <1>10 DEF ChangeEventFails, Missed, unchangedHint
    <2>2. CASE d = Head(next)
      BY <2>1, <2>2 DEF Right
    <2>3. CASE d # Head(next)
      <3>1. In(d, next) => In(d, next')
        BY <1>0, <2>1, <2>3, InTail
      <3>2. (Told(d) => Told(d)') /\ (Changing(d) => Changing(d)')
        BY <2>1, <3>1 DEF Told, Changing, Publishing, Queued, In
      <3> QED
        BY <1>u, <2>1, <3>2, RightKept
    <2> QED
      BY <2>2, <2>3
  <1>11. ASSUME NEW f \in Devices, NEW e \in Servers, DeliverFails(f, e) PROVE Right(d, s)'
    <2>1. /\ \E x : actual' = [actual EXCEPT ![f][e] = x]
          /\ e # Local /\ UNCHANGED <<cache, events, at, ev, state_changes, next>>
          /\ UNCHANGED <<statechanges, devstate_change_q>>
      BY <1>11 DEF DeliverFails, unchangedReaders, unchangedHint
    <2>2. actual'[d][Local] = actual[d][Local]
      BY <1>0, <2>1
    <2>3. (Told(d) => Told(d)') /\ (Changing(d) => Changing(d)')
      BY <2>1 DEF Told, Changing, Publishing, Queued, In
    <2>4. /\ DeviceState(d)' = DeviceState(d) /\ (Hollow(d)' <=> Hollow(d))
          /\ Vague(d) => Vague(d)'
      BY <1>u, <2>1, <2>2 DEF DeviceState, Hollow, Vague
    <2> QED
      BY <1>u, <2>3, <2>4 DEF Right
  <1> QED
    BY <1>1, <1>2, <1>3, <1>4, <1>5, <1>6, <1>7, <1>8, <1>9, <1>10, <1>11

(* Whoever publishes *)
LEMMA PublishRight ==
  ASSUME TypeOK, NEW d \in Devices, NEW s, Right(d, s), NEW t \in Threads, Publish(t)
  PROVE  Right(d, s)'
  <1>0. /\ at \in [Threads -> Places] /\ ev \in [Threads -> Events \cup {NoEvent}]
        /\ events \in Seq(Events) /\ cache \in [Keys -> Seq(States)]
        /\ d \in Threads /\ "collector" \in Threads
        /\ at[t] \in Busy => ev[t] \in Events
    BY DEF TypeOK, Places, Threads
  <1>u. enabled' = enabled /\ untold \subseteq untold'
    BY DEF Publish, Remove, Link, LinkFails, Queue, QueueFails, Published, Missed,
       unchangedReaders
  <1>1. ASSUME Remove(t) \/ Link(t) \/ LinkFails(t) PROVE Right(d, s)'
    <2>1. /\ \E x \in {"link", "queue"} : at' = [at EXCEPT ![t] = x]
          /\ at[t] \in {"remove", "link"}
          /\ UNCHANGED <<actual, state_changes, next, ev, events, statechanges, devstate_change_q>>
          /\ \A k \in Keys : k # ev[t].key => cache'[k] = cache[k]
      BY <1>0, <1>1 DEF Remove, Link, LinkFails, Fail, unchangedReaders, unchangedHint
    <2>2. \A u \in Threads : /\ at[u] \in Busy => at'[u] \in Busy
                             /\ u # t => at'[u] = at[u]
      BY <1>0, <2>1 DEF Busy
    <2>3. \A k : Publishing(k) => Publishing(k)'
      BY <2>1, <2>2 DEF Publishing
    <2>4. CASE ev[t].key = StateKey(d)
      <3>1. at'[t] \in Busy /\ ev'[t] = ev[t]
        BY <2>1, <2>2 DEF Busy
      <3> QED
        BY <2>4, <3>1 DEF Publishing, Told, Right
    <2>5. CASE ev[t].key # StateKey(d)
      <3>1. cache'[StateKey(d)] = cache[StateKey(d)]
        BY <2>1, <2>5, KeysOf, DeviceStateConstants
      <3>2. /\ DeviceState(d)' = DeviceState(d) /\ (Hollow(d)' <=> Hollow(d))
            /\ Vague(d) => Vague(d)'
        BY <1>u, <2>1, <3>1 DEF DeviceState, Hollow, Vague
      <3>3. Told(d) => Told(d)'
        BY <2>1, <2>3 DEF Told, Queued, In
      <3>4. /\ at[d] \in {"changed", "compute"} => at'[d] = at[d]
            /\ at["collector"] = "compare" => at'["collector"] = at["collector"]
        BY <1>0, <2>1, <2>2
      <3>5. Changing(d) => Changing(d)'
        BY <2>1, <2>3, <3>4 DEF Changing, Queued, In
      <3> QED
        BY <1>u, <3>2, <3>3, <3>5 DEF Right
    <2> QED
      BY <2>4, <2>5
  <1>2. ASSUME Queue(t) \/ QueueFails(t) PROVE Right(d, s)'
    <2>1. /\ at[t] = "queue" /\ ev' = [ev EXCEPT ![t] = NoEvent]
          /\ at' = [at EXCEPT ![t] = IF t = "change" THEN "work" ELSE "idle"]
          /\ UNCHANGED <<cache, actual, state_changes, next, statechanges, devstate_change_q>>
          /\ \/ events' = Append(events, ev[t])
             \/ events' = events /\ untold' = untold \cup {ev[t].key[2]}
      BY <1>2 DEF Queue, QueueFails, Published, Missed, unchangedHint
    <2>2. ev[t] \in Events
      BY <1>0, <2>1 DEF Busy
    <2>3. ASSUME NEW k, Queued(k) PROVE Queued(k)'
      <3>1. PICK i \in 1 .. Len(events) : events[i].key = k
        BY <2>3 DEF Queued
      <3>2. i \in 1 .. Len(events') /\ events'[i] = events[i]
        <4>1. CASE events' = events
          BY <4>1
        <4>2. CASE events' = Append(events, ev[t])
          BY <1>0, <2>2, <4>2
        <4> QED
          BY <2>1, <4>1, <4>2
      <3> QED
        BY <3>1, <3>2 DEF Queued
    <2>4. CASE d \in untold'
      BY <2>4 DEF Right
    <2>5. CASE d \notin untold'
      <3>1. ASSUME NEW k, k = ev[t].key, k[2] = d PROVE Queued(k)'
        <4>1. events' = Append(events, ev[t])
          BY <2>1, <2>5, <3>1
        <4>2. /\ Len(events) + 1 \in 1 .. Len(events')
              /\ events'[Len(events) + 1] = ev[t]
          BY <1>0, <2>2, <4>1
        <4> QED
          BY <3>1, <4>2 DEF Queued
      <3>2. \A u \in Threads \ {t} : at'[u] = at[u] /\ ev'[u] = ev[u]
        BY <1>0, <2>1
      <3>3. ASSUME NEW k, k[2] = d, Publishing(k) PROVE Publishing(k)' \/ Queued(k)'
        BY <3>1, <3>2, <3>3 DEF Publishing
      <3>4. StateKey(d)[2] = d /\ ChangeKey(d, Local)[2] = d
        BY KeysDiffer, DeviceStateConstants
      <3>5. Told(d) => Told(d)'
        BY <2>1, <2>3, <3>3, <3>4 DEF Told
      <3>6. /\ at[d] \in {"changed", "compute"} => at'[d] = at[d]
            /\ at["collector"] = "compare" =>
                 at'["collector"] = at["collector"] /\ ev'["collector"] = ev["collector"]
        BY <1>0, <2>1, <3>2
      <3>7. Changing(d) => Changing(d)'
        BY <2>1, <2>3, <3>3, <3>4, <3>6 DEF Changing
      <3> QED
        BY <1>u, <2>1, <3>5, <3>7, RightKept
    <2> QED
      BY <2>4, <2>5
  <1> QED
    BY <1>1, <1>2 DEF Publish

(* The dispatcher and the collector *)
LEMMA ReadersRight ==
  ASSUME TypeOK, Side, NEW d \in Devices, NEW s, Right(d, s),
         \/ Dispatcher \/ Collect \/ CollectFails \/ CollectSame \/ CollectChanged
         \/ CollectUnread \/ CollectEventFails
  PROVE  Right(d, s)'
  <1> USE DeviceStateConstants
  <1>0. /\ at \in [Threads -> Places] /\ ev \in [Threads -> Events \cup {NoEvent}]
        /\ events \in Seq(Events) /\ cache \in [Keys -> Seq(States)]
        /\ statechanges \in Seq(Devices) /\ devstate_change_q \in Seq(Devices)
        /\ d \in Threads /\ "collector" \in Threads /\ d # "collector"
    BY DEF TypeOK, Places, Threads
  <1>u. enabled' = enabled /\ untold \subseteq untold'
    BY DEF Dispatcher, DispatchState, DispatchChange, DispatchFails, Collect, CollectFails,
       CollectSame, CollectChanged, CollectUnread, CollectEventFails, Missed, unchangedReaders,
       unchangedSources
  <1>1. ASSUME Dispatcher PROVE Right(d, s)'
    <2>1. /\ events # <<>> /\ events' = Tail(events)
          /\ UNCHANGED <<at, ev, cache, actual, state_changes, next>>
      BY <1>1 DEF Dispatcher, DispatchState, DispatchChange, DispatchFails, unchangedSources
    <2>2. PICK e \in Events : e = Head(events)
      BY <1>0, <2>1
    <2>3. \A k : Queued(k) /\ k # e.key => Queued(k)'
      <3> SUFFICES ASSUME NEW k, Queued(k), k # e.key PROVE Queued(k)'
        OBVIOUS
      <3>1. PICK i \in 1 .. Len(events) : events[i].key = k
        BY DEF Queued
      <3>2. i # 1 /\ Len(events) \in Nat
        BY <1>0, <2>2, <3>1
      <3>3. i - 1 \in 1 .. Len(events') /\ events'[i - 1] = events[i]
        BY <1>0, <2>1, <3>2
      <3> QED
        BY <3>1, <3>3 DEF Queued
    <2>4. \A k : Publishing(k) => Publishing(k)'
      BY <2>1 DEF Publishing
    <2>5. e.key \in Keys
      BY DEF Events
    <2>6. CASE DispatchState
      <3>1. PICK f \in Devices : e.key = StateKey(f) /\ e.key[2] = f
        BY <2>2, <2>5, <2>6, KeyParts DEF DispatchState
      <3>2. statechanges' = Append(statechanges, f) /\ devstate_change_q' = devstate_change_q
        BY <2>2, <2>6, <3>1 DEF DispatchState
      <3>3. In(d, statechanges) \/ d = f => In(d, statechanges')
        BY <1>0, <3>2, InAppended
      <3>4. Queued(StateKey(d)) => Queued(StateKey(d))' \/ d = f
        <4>1. StateKey(d) # StateKey(f) \/ d = f
          BY KeysDiffer
        <4> QED
          BY <2>3, <3>1, <4>1
      <3>5. Queued(ChangeKey(d, Local)) => Queued(ChangeKey(d, Local))'
        BY <2>3, <3>1, KeysDiffer
      <3>6. Told(d) => Told(d)'
        BY <2>4, <3>3, <3>4 DEF Told
      <3>7. Changing(d) => Changing(d)'
        BY <2>1, <2>4, <3>2, <3>5 DEF Changing
      <3> QED
        BY <1>u, <2>1, <3>6, <3>7, RightKept
    <2>7. CASE DispatchChange
      <3>1. PICK f \in Devices, g \in Servers : e.key = ChangeKey(f, g) /\ e.key[2] = f
        BY <2>2, <2>5, <2>7, KeyParts DEF DispatchChange
      <3>2. devstate_change_q' = Append(devstate_change_q, f) /\ statechanges' = statechanges
        BY <2>2, <2>7, <3>1 DEF DispatchChange, unchangedHint
      <3>3. In(d, devstate_change_q) \/ d = f => In(d, devstate_change_q')
        BY <1>0, <3>2, InAppended
      <3>4. Queued(StateKey(d)) => Queued(StateKey(d))'
        BY <2>3, <3>1, KeysDiffer
      <3>5. Queued(ChangeKey(d, Local)) => Queued(ChangeKey(d, Local))' \/ d = f
        BY <2>3, <3>1, KeysDiffer
      <3>6. Told(d) => Told(d)'
        BY <2>4, <3>2, <3>4 DEF Told
      <3>7. Changing(d) => Changing(d)'
        BY <2>1, <2>4, <3>3, <3>5 DEF Changing
      <3> QED
        BY <1>u, <2>1, <3>6, <3>7, RightKept
    <2>8. CASE DispatchFails
      <3>1. /\ untold' = untold \cup {e.key[2]}
            /\ UNCHANGED <<statechanges, devstate_change_q>>
        BY <2>2, <2>8 DEF DispatchFails, Missed, unchangedHint
      <3>2. CASE d = e.key[2]
        BY <3>1, <3>2 DEF Right
      <3>3. CASE d # e.key[2]
        <4>1. e.key # StateKey(d) /\ e.key # ChangeKey(d, Local)
          BY <3>3, KeysDiffer
        <4>2. (Told(d) => Told(d)') /\ (Changing(d) => Changing(d)')
          BY <2>1, <2>3, <2>4, <3>1, <4>1 DEF Told, Changing
        <4> QED
          BY <1>u, <2>1, <4>2, RightKept
      <3> QED
        BY <3>2, <3>3
    <2> QED
      BY <1>1, <2>6, <2>7, <2>8 DEF Dispatcher
  <1>2. ASSUME Collect PROVE Right(d, s)'
    <2>1. PICK f \in Devices : f = Head(devstate_change_q)
      BY <1>0, <1>2 DEF Collect
    <2>2. /\ at["collector"] = "idle" /\ at' = [at EXCEPT !["collector"] = "compare"]
          /\ ev' = [ev EXCEPT !["collector"] =
                      [key |-> StateKey(f), state |-> Aggregate(Collected(f))]]
          /\ devstate_change_q # <<>> /\ devstate_change_q' = Tail(devstate_change_q)
          /\ UNCHANGED <<cache, actual, events, statechanges, state_changes, next>>
      BY <1>2, <2>1 DEF Collect, unchangedHint, unchangedSources
    <2>3. \A t \in Threads \ {"collector"} : at'[t] = at[t] /\ ev'[t] = ev[t]
      BY <1>0, <2>2
    <2>4. \A k : Publishing(k) => Publishing(k)'
      BY <2>2, <2>3 DEF Publishing, Busy
    <2>5. Told(d) => Told(d)'
      BY <2>2, <2>4 DEF Told, Queued, In
    <2>6. In(d, devstate_change_q) => d = f \/ In(d, devstate_change_q')
      BY <1>0, <2>1, <2>2, InTail
    <2>7. at'["collector"] = "compare" /\ ev'["collector"].key = StateKey(f)
      BY <1>0, <2>2
    <2>8. Changing(d) => Changing(d)'
      BY <1>0, <2>2, <2>3, <2>4, <2>6, <2>7 DEF Changing, Queued, In
    <2> QED
      BY <1>u, <2>2, <2>5, <2>8, RightKept
  <1>3. ASSUME CollectSame PROVE Right(d, s)'
    <2>1. /\ at["collector"] = "compare" /\ Unchanged
          /\ at' = [at EXCEPT !["collector"] = "idle"]
          /\ ev' = [ev EXCEPT !["collector"] = NoEvent]
          /\ UNCHANGED <<cache, actual, events, statechanges, state_changes, next, devstate_change_q>>
      BY <1>3 DEF CollectSame, unchangedSources, unchangedReaders, unchangedHint
    <2>2. \A t \in Threads \ {"collector"} : at'[t] = at[t] /\ ev'[t] = ev[t]
      BY <1>0, <2>1
    <2>3. \A k : Publishing(k) => Publishing(k)'
      BY <2>1, <2>2 DEF Publishing, Busy
    <2>4. Told(d) => Told(d)'
      BY <2>1, <2>3 DEF Told, Queued, In
    <2>5. Hollow(d) /\ ev["collector"].key = StateKey(d) => Vague(d)
      BY <2>1 DEF Unchanged, Hollow, Vague, Side, Alone
    <2>6. Hollow(d) /\ Changing(d) => Changing(d)' \/ Vague(d)
      BY <1>0, <2>1, <2>2, <2>3, <2>5 DEF Changing, Queued, In
    <2> QED
      BY <1>u, <2>1, <2>4, <2>6, RightKept
  <1>4. ASSUME CollectChanged \/ CollectUnread PROVE Right(d, s)'
    <2>1. /\ at["collector"] = "compare" /\ at' = [at EXCEPT !["collector"] = "remove"]
          /\ UNCHANGED <<cache, actual, events, statechanges, state_changes, next,
                         devstate_change_q, ev>>
      BY <1>4 DEF CollectChanged, CollectUnread, unchangedSources, unchangedReaders, unchangedHint
    <2>2. \A t \in Threads \ {"collector"} : at'[t] = at[t]
      BY <1>0, <2>1
    <2>3. \A k : Publishing(k) => Publishing(k)'
      BY <2>1, <2>2 DEF Publishing, Busy
    <2>4. Told(d) => Told(d)'
      BY <2>1, <2>3 DEF Told, Queued, In
    <2>5. ev["collector"].key = StateKey(d) => Publishing(StateKey(d))'
      BY <1>0, <2>1 DEF Publishing, Busy
    <2>6. Changing(d) => Changing(d)' \/ Told(d)'
      BY <1>0, <2>1, <2>2, <2>3, <2>5 DEF Changing, Told, Queued, In
    <2> QED
      BY <1>u, <2>1, <2>4, <2>6, RightKept
  <1>5. ASSUME CollectFails PROVE Right(d, s)'
    <2>1. /\ devstate_change_q # <<>> /\ devstate_change_q' = Tail(devstate_change_q)
          /\ untold' = untold \cup {Head(devstate_change_q)}
          /\ UNCHANGED <<at, ev, cache, actual, events, statechanges, state_changes, next>>
      BY <1>5 DEF CollectFails, Missed, unchangedHint
    <2>2. CASE d = Head(devstate_change_q)
      BY <2>1, <2>2 DEF Right
    <2>3. CASE d # Head(devstate_change_q)
      <3>1. In(d, devstate_change_q) => In(d, devstate_change_q')
        BY <1>0, <2>1, <2>3, InTail
      <3>2. (Told(d) => Told(d)') /\ (Changing(d) => Changing(d)')
        BY <2>1, <3>1 DEF Told, Changing, Publishing, Queued, In
      <3> QED
        BY <1>u, <2>1, <3>2, RightKept
    <2> QED
      BY <2>2, <2>3
  <1>6. ASSUME CollectEventFails PROVE Right(d, s)'
    <2>1. /\ at["collector"] = "compare" /\ at' = [at EXCEPT !["collector"] = "idle"]
          /\ ev' = [ev EXCEPT !["collector"] = NoEvent]
          /\ untold' = untold \cup {ev["collector"].key[2]}
          /\ UNCHANGED <<cache, actual, events, statechanges, state_changes, next, devstate_change_q>>
      BY <1>6 DEF CollectEventFails, Missed, unchangedHint
    <2>2. CASE ev["collector"].key = StateKey(d)
      <3>1. d \in untold'
        BY <2>1, <2>2, KeysDiffer
      <3> QED
        BY <3>1 DEF Right
    <2>3. CASE ev["collector"].key # StateKey(d)
      <3>1. \A t \in Threads \ {"collector"} : at'[t] = at[t] /\ ev'[t] = ev[t]
        BY <1>0, <2>1
      <3>2. \A k : Publishing(k) => Publishing(k)'
        BY <2>1, <3>1 DEF Publishing, Busy
      <3>3. (Told(d) => Told(d)') /\ (Changing(d) => Changing(d)')
        BY <1>0, <2>1, <2>3, <3>1, <3>2 DEF Told, Changing, Queued, In
      <3> QED
        BY <1>u, <2>1, <3>3, RightKept
    <2> QED
      BY <2>2, <2>3
  <1> QED
    BY <1>1, <1>2, <1>3, <1>4, <1>5, <1>6

-----------------------------------------------------------------------------
(* The hint: v is what its devices were found in when they were read last.   *)

(* How many devices the scan of the hint has read *)
Read == Len(Hint) - Len(rest)

Scanned(v) ==
  /\ Len(rest) <= Len(Hint)
  /\ \A j \in 1 .. Len(rest) : rest[j] = Hint[Read + j]
  /\ agg = AggregateAll({v[i] : i \in 1 .. Read})
  /\ \A i \in 1 .. Read : Right(Hint[i], v[i])

Settled(v) ==
  /\ agg = AggregateInit
  /\ laststate = ToExtenState(Aggregate({v[i] : i \in 1 .. Len(Hint)}))
  /\ \A i \in 1 .. Len(Hint) : Right(Hint[i], v[i])

HintInv ==
  \E v \in [1 .. Len(Hint) -> States] :
    IF at["pbx"] = "read" THEN Scanned(v) ELSE Settled(v)

LEMMA HintInit == Init => HintInv
  <1> SUFFICES ASSUME Init PROVE HintInv
    OBVIOUS
  <1> USE DeviceStateConstants
  <1>1. PICK v : v = [i \in 1 .. Len(Hint) |-> Idle]
    OBVIOUS
  <1>2. v \in [1 .. Len(Hint) -> States]
    BY <1>1
  <1>3. DOMAIN Hint = 1 .. Len(Hint) /\ \A i \in 1 .. Len(Hint) : Hint[i] \in Devices
    OBVIOUS
  <1>4. \A d \in Devices : DeviceState(d) = Idle
    BY KeysOf DEF Init, DeviceState
  <1>5. {v[i] : i \in 1 .. Len(Hint)} = {Idle : i \in DOMAIN Hint}
    BY <1>1, <1>3
  <1>6. Settled(v)
    BY <1>1, <1>3, <1>4, <1>5 DEF Init, Settled, Right
  <1>7. at["pbx"] # "read"
    BY DEF Init, Threads
  <1> QED
    BY <1>2, <1>6, <1>7 DEF HintInv

LEMMA HintStep ==
  ASSUME TypeOK, TypeOK', Side, HintInv, [Next]_vars
  PROVE  HintInv'
  <1> USE DeviceStateConstants
  <1>0. /\ at \in [Threads -> Places] /\ "pbx" \in Threads /\ "pbx" \notin Devices
        /\ rest \in Seq(Devices) /\ statechanges \in Seq(Devices)
        /\ {"change", "collector", "ais"} \cup Devices \subseteq Threads \ {"pbx"}
        /\ DOMAIN Hint = 1 .. Len(Hint) /\ Len(Hint) \in Nat
        /\ \A i \in 1 .. Len(Hint) : Hint[i] \in Devices
    BY DEF TypeOK, Places, Threads
  <1>v. PICK v \in [1 .. Len(Hint) -> States] :
          IF at["pbx"] = "read" THEN Scanned(v) ELSE Settled(v)
    BY DEF HintInv
  <1>a. ASSUME at'["pbx"] = at["pbx"], UNCHANGED <<rest, agg, laststate>>,
               \A i \in 1 .. Len(Hint) : Right(Hint[i], v[i]) => Right(Hint[i], v[i])'
        PROVE  HintInv'
    <2>1. Read' = Read /\ Len(rest) \in Nat
      BY <1>0, <1>a DEF Read
    <2>2. CASE at["pbx"] = "read"
      <3>1. Scanned(v)
        BY <1>v, <2>2
      <3>2. \A i \in 1 .. Read : i \in 1 .. Len(Hint)
        BY <1>0, <2>1 DEF Read
      <3>3. Scanned(v)'
        BY <1>a, <2>1, <3>1, <3>2 DEF Scanned
      <3> QED
        BY <1>a, <2>2, <3>3 DEF HintInv
    <2>3. CASE at["pbx"] # "read"
      <3>1. Settled(v)
        BY <1>v, <2>3
      <3>2. Settled(v)'
        BY <1>a, <3>1 DEF Settled
      <3> QED
        BY <1>a, <2>3, <3>2 DEF HintInv
    <2> QED
      BY <2>2, <2>3
  <1>b. ASSUME UNCHANGED <<actual, state_changes, next, ev, cache, events, devstate_change_q>>,
               enabled' = enabled, untold \subseteq untold',
               {at["pbx"], at'["pbx"]} \subseteq {"idle", "read"},
               \A t \in Threads \ {"pbx"} : at'[t] = at[t],
               NEW d \in Devices, NEW s, Right(d, s),
               In(d, statechanges) => In(d, statechanges')
        PROVE  Right(d, s)'
    <2>1. \A k : Publishing(k) => Publishing(k)'
      BY <1>b DEF Publishing, Busy
    <2>2. Told(d) => Told(d)'
      BY <1>b, <2>1 DEF Told, Queued
    <2>3. Changing(d) => Changing(d)'
      BY <1>0, <1>b, <2>1 DEF Changing, Queued, In
    <2> QED
      BY <1>b, <2>2, <2>3, RightKept
  <1>1. CASE UNCHANGED vars
    <2>1. \A d \in Devices : (Told(d) => Told(d)') /\ (Changing(d) => Changing(d)')
      BY <1>1 DEF vars, Told, Changing, Publishing, Queued, In
    <2>2. \A i \in 1 .. Len(Hint) : Right(Hint[i], v[i]) => Right(Hint[i], v[i])'
      BY <1>0, <1>1, <2>1, RightKept DEF vars
    <2> QED
      BY <1>1, <1>a, <2>2 DEF vars
  <1>2. ASSUME \/ \E f \in Devices : \/ DriverChange(f) \/ ChangedKnown(f) \/ ChangedUnknown(f)
                                     \/ ChangedNoMemory(f) \/ DriverCompute(f) \/ DriverEventFails(f)
               \/ ChangeWait \/ ChangeTake \/ ChangeWakesUp \/ ChangeCompute \/ ChangeEventFails
               \/ ChangeDone
               \/ \E f \in Devices, e \in Servers : Deliver(f, e) \/ DeliverFails(f, e)
        PROVE  HintInv'
    <2>1. UNCHANGED <<rest, agg, laststate>>
      BY <1>2 DEF DriverChange, ChangedKnown, ChangedUnknown, ChangedNoMemory, DriverCompute,
         DriverEventFails, ChangeWait, ChangeTake, ChangeWakesUp, ChangeCompute, ChangeEventFails,
         ChangeDone, Deliver, DeliverFails, unchangedReaders, unchangedHint
    <2>2. at'["pbx"] = at["pbx"]
      <3>1. CASE \E f \in Devices : ChangedUnknown(f)
        <4>1. PICK f \in Devices : at' = SignalChange([at EXCEPT ![f] = "idle"])
          BY <3>1 DEF ChangedUnknown
        <4>2. PICK a \in [Threads -> Places] : a = [at EXCEPT ![f] = "idle"]
          BY <1>0 DEF Places
        <4>3. at' = IF a["change"] = "waiting" THEN [a EXCEPT !["change"] = "woken"] ELSE a
          BY <4>1, <4>2 DEF SignalChange
        <4> QED
          BY <1>0, <4>2, <4>3
      <3>2. CASE \E t \in Threads \ {"pbx"}, x \in Places : at' = [at EXCEPT ![t] = x]
        BY <1>0, <3>2
      <3>3. CASE at' = at
        BY <3>3
      <3>4. ASSUME ~\E f \in Devices : ChangedUnknown(f), at' # at
            PROVE  \E t \in Threads \ {"pbx"}, x \in Places : at' = [at EXCEPT ![t] = x]
        <4>1. {"changed", "remove", "compute", "waiting", "work", "woken", "lock", "idle"} \subseteq Places
          BY DEF Places, Busy
        <4>2. ASSUME NEW f \in Devices, DriverChange(f) \/ ChangedKnown(f)
                       \/ ChangedNoMemory(f) \/ DriverCompute(f) \/ DriverEventFails(f)
              PROVE  \E x \in Places : at' = [at EXCEPT ![f] = x]
          BY <4>1, <4>2 DEF DriverChange, ChangedKnown, ChangedNoMemory, DriverCompute,
             DriverEventFails
        <4>3. ASSUME ChangeWait \/ ChangeTake \/ ChangeWakesUp \/ ChangeCompute \/ ChangeDone
              PROVE  \E x \in Places : at' = [at EXCEPT !["change"] = x]
          BY <4>1, <4>3 DEF ChangeWait, ChangeTake, ChangeWakesUp, ChangeCompute, ChangeDone
        <4>4. ASSUME NEW f \in Devices, NEW e \in Servers, Deliver(f, e)
              PROVE  \E x \in Places : at' = [at EXCEPT !["ais"] = x]
          BY <4>1, <4>4 DEF Deliver
        <4>5. ChangeEventFails \/ (\E f \in Devices, e \in Servers : DeliverFails(f, e)) => at' = at
          BY DEF ChangeEventFails, DeliverFails
        <4> QED
          BY <1>0, <1>2, <3>4, <4>2, <4>3, <4>4, <4>5
      <3> QED
        BY <3>1, <3>2, <3>3, <3>4
    <2> QED
      BY <1>0, <1>2, <1>a, <2>1, <2>2, SourcesRight
  <1>3. ASSUME NEW t \in Threads \ {"pbx"}, Publish(t) PROVE HintInv'
    <2>1. UNCHANGED <<rest, agg, laststate>> /\ \E x : at' = [at EXCEPT ![t] = x]
      BY <1>3 DEF Publish, Remove, Link, LinkFails, Queue, QueueFails, Published,
         unchangedReaders, unchangedHint
    <2> QED
      BY <1>0, <1>3, <1>a, <2>1, PublishRight
  <1>4. ASSUME \/ Dispatcher \/ Collect \/ CollectFails \/ CollectSame \/ CollectChanged
               \/ CollectUnread \/ CollectEventFails
        PROVE  HintInv'
    <2>1. /\ UNCHANGED <<rest, agg, laststate>>
          /\ at' = at \/ \E x : at' = [at EXCEPT !["collector"] = x]
      BY <1>4 DEF Dispatcher, DispatchState, DispatchChange, DispatchFails, Collect, CollectFails,
         CollectSame, CollectChanged, CollectUnread, CollectEventFails, unchangedReaders, unchangedHint
    <2> QED
      BY <1>0, <1>4, <1>a, <2>1, ReadersRight
  <1>5. ASSUME HintOther PROVE HintInv'
    <2>1. /\ at["pbx"] = "idle" /\ statechanges # <<>> /\ statechanges' = Tail(statechanges)
          /\ Head(statechanges) \notin Range(Hint)
          /\ UNCHANGED <<at, rest, agg, laststate, enabled, untold>>
          /\ UNCHANGED <<actual, state_changes, next, ev, cache, events, devstate_change_q>>
      BY <1>5 DEF HintOther, unchangedSources, unchangedPublishers
    <2>2. \A i \in 1 .. Len(Hint) : In(Hint[i], statechanges) => In(Hint[i], statechanges')
      <3> SUFFICES ASSUME NEW i \in 1 .. Len(Hint), In(Hint[i], statechanges)
                   PROVE  In(Hint[i], statechanges')
        OBVIOUS
      <3>1. Hint[i] # Head(statechanges)
        BY <1>0, <2>1 DEF Range
      <3> QED
        BY <1>0, <2>1, <3>1, InTail
    <2> QED
      BY <1>0, <1>a, <1>b, <2>1, <2>2
  <1>6. ASSUME HintStart PROVE HintInv'
    <2>1. at' = [at EXCEPT !["pbx"] = "read"] /\ rest' = Hint /\ agg' = agg /\ at["pbx"] = "idle"
      BY <1>6 DEF HintStart
    <2>2. agg = AggregateInit
      BY <1>v, <2>1 DEF Settled
    <2>3. Read' = 0
      BY <1>0, <2>1 DEF Read
    <2>4. 1 .. Read' = {}
      BY <2>3
    <2>5. {v[i] : i \in 1 .. Read'} = {}
      BY <2>4
    <2>6. agg' = AggregateAll({v[i] : i \in 1 .. Read'})
      BY <2>1, <2>2, <2>5, AggregateOfNone
    <2>7. \A j \in 1 .. Len(rest') : rest'[j] = Hint[Read' + j]
      BY <1>0, <2>1, <2>3
    <2>8. Scanned(v)'
      BY <1>0, <2>1, <2>4, <2>6, <2>7 DEF Scanned
    <2>9. at'["pbx"] = "read"
      BY <1>0, <2>1
    <2> QED
      BY <2>8, <2>9 DEF HintInv
  <1>7. ASSUME HintRead \/ HintReadFails PROVE HintInv'
    <2>1. /\ at["pbx"] = "read" /\ rest # <<>> /\ rest' = Tail(rest) /\ at' = at
          /\ UNCHANGED <<statechanges, enabled>> /\ untold \subseteq untold'
          /\ UNCHANGED <<actual, state_changes, next, ev, cache, events, devstate_change_q>>
      BY <1>7 DEF HintRead, HintReadFails, Missed, unchangedSources, unchangedPublishers
    <2>2. Scanned(v)
      BY <1>v, <2>1
    <2>3. /\ Len(rest) \in Nat \ {0} /\ Len(rest') = Len(rest) - 1
          /\ \A j \in 1 .. Len(rest') : rest'[j] = rest[j + 1]
      BY <1>0, <2>1
    <2>4. Read \in Nat /\ Read' = Read + 1 /\ Read + 1 \in 1 .. Len(Hint)
      BY <1>0, <2>2, <2>3 DEF Read, Scanned
    <2>5. PICK d \in Devices : d = Hint[Read + 1]
      BY <1>0, <2>4
    <2>6. Head(rest) = d
      BY <1>0, <2>1, <2>2, <2>3, <2>5 DEF Scanned
    <2>7. PICK k \in 1 .. Len(Hint) : k = Read + 1
      BY <2>4
    <2>8. PICK s \in States : /\ agg' = AggregateAdd(agg, s)
                              /\ s = DeviceState(d) \/ d \in untold'
      <3>1. CASE HintRead
        BY <2>6, <3>1, KnownIsState DEF HintRead
      <3>2. CASE HintReadFails
        <4>1. actual[d][Local] \in States
          BY DEF TypeOK
        <4> QED
          BY <2>6, <3>2, <4>1 DEF HintReadFails, Missed
      <3> QED
        BY <1>7, <3>1, <3>2
    <2>9. PICK w : w = [v EXCEPT ![k] = s]
      OBVIOUS
    <2>10. /\ w \in [1 .. Len(Hint) -> States] /\ w[k] = s
           /\ \A i \in 1 .. Read : w[i] = v[i]
      BY <2>4, <2>7, <2>9, <1>0
    <2>11. {w[i] : i \in 1 .. Read'} = {v[i] : i \in 1 .. Read} \cup {s}
      <3>1. 1 .. Read' = (1 .. Read) \cup {k}
        BY <2>4, <2>7
      <3> QED
        BY <2>10, <3>1
    <2>12. agg' = AggregateAll({w[i] : i \in 1 .. Read'})
      BY <2>2, <2>8, <2>11, AggregateOfMore DEF Scanned
    <2>13. \A j \in 1 .. Len(rest') : rest'[j] = Hint[Read' + j]
      BY <1>0, <2>2, <2>3, <2>4 DEF Scanned
    <2>14. DeviceState(d)' = DeviceState(d)
      BY <2>1 DEF DeviceState
    <2>15. \A i \in 1 .. Read' : Right(Hint[i], w[i])'
      <3> SUFFICES ASSUME NEW i \in 1 .. Read' PROVE Right(Hint[i], w[i])'
        OBVIOUS
      <3>1. CASE i = k
        BY <2>5, <2>7, <2>8, <2>10, <2>14, <3>1 DEF Right
      <3>2. CASE i # k
        <4>1. i \in 1 .. Read /\ i \in 1 .. Len(Hint)
          BY <1>0, <2>4, <2>7, <3>2
        <4>2. Right(Hint[i], w[i])
          BY <2>2, <2>10, <4>1 DEF Scanned
        <4> QED
          BY <1>0, <1>b, <2>1, <4>1, <4>2
      <3> QED
        BY <3>1, <3>2
    <2>16. Scanned(w)'
      BY <1>0, <2>2, <2>3, <2>12, <2>13, <2>15 DEF Scanned
    <2> QED
      BY <2>1, <2>10, <2>16 DEF HintInv
  <1>8. ASSUME HintTell PROVE HintInv'
    <2>1. /\ at["pbx"] = "read" /\ rest = <<>> /\ at' = [at EXCEPT !["pbx"] = "idle"]
          /\ laststate' = ToExtenState(AggregateResult(agg)) /\ agg' = AggregateInit
          /\ UNCHANGED <<statechanges, enabled, untold>>
          /\ UNCHANGED <<actual, state_changes, next, ev, cache, events, devstate_change_q>>
      BY <1>8 DEF HintTell, unchangedSources, unchangedPublishers
    <2>2. Scanned(v) /\ Read = Len(Hint)
      BY <1>0, <1>v, <2>1 DEF Read
    <2>3. laststate' = ToExtenState(Aggregate({v[i] : i \in 1 .. Len(Hint)}))
      BY <2>1, <2>2 DEF Scanned, Aggregate
    <2>4. /\ at'["pbx"] = "idle" /\ \A t \in Threads \ {"pbx"} : at'[t] = at[t]
      BY <1>0, <2>1
    <2>5. \A i \in 1 .. Len(Hint) : Right(Hint[i], v[i])'
      BY <1>0, <1>b, <2>1, <2>2, <2>4 DEF Scanned
    <2>6. Settled(v)'
      BY <2>1, <2>3, <2>5 DEF Settled
    <2> QED
      BY <2>4, <2>6 DEF HintInv
  <1> QED
    BY <1>0, <1>1, <1>2, <1>3, <1>4, <1>5, <1>6, <1>7, <1>8 DEF Next, Driver, ChangeThread, Collector, Pbx

(* When nothing is on its way any more the watchers of a hint have been told  *)
(* what tris_device_state says of its devices (handle_statechange of pbx.c),  *)
(* however many threads publish the devices and whatever their drivers answer *)
(* and cannot be cached, unless an announcement of one of the devices could   *)
(* not be made, passed on or read since the hint was looked at last, or the   *)
(* servers of a cluster say nothing of one of them.                           *)
THEOREM HintTold == Spec => []HintFollowsCache
  <1>1. Init => TypeOK /\ Side /\ HintInv
    BY TypeInit, SideInit, HintInit
  <1>2. TypeOK /\ Side /\ HintInv /\ [Next]_vars => (TypeOK /\ Side /\ HintInv)'
    BY TypeStep, SideStep, HintStep
  <1>3. TypeOK /\ HintInv => HintFollowsCache
    <2> SUFFICES ASSUME TypeOK, HintInv, Quiet,
                        \A i \in DOMAIN Hint : Hint[i] \notin untold /\ ~Vague(Hint[i])
                 PROVE  laststate = ExtensionState
      BY DEF HintFollowsCache
    <2>1. \A d \in Devices : ~Told(d) /\ ~Changing(d)
      BY DeviceStateConstants DEF Quiet, Told, Changing, Publishing, Queued, In, Busy, Threads
    <2>2. PICK v \in [1 .. Len(Hint) -> States] : Settled(v)
      BY DEF HintInv, Quiet, Threads
    <2>3. \A i \in 1 .. Len(Hint) : Hint[i] \in Devices /\ v[i] = DeviceState(Hint[i])
      BY <2>1, <2>2, DeviceStateConstants DEF Settled, Right
    <2>4. {v[i] : i \in 1 .. Len(Hint)} = {DeviceState(Hint[i]) : i \in DOMAIN Hint}
      BY <2>3, DeviceStateConstants
    <2> QED
      BY <2>2, <2>4 DEF Settled, ExtensionState
  <1> QED
    BY <1>1, <1>2, <1>3, PTL DEF Spec

-----------------------------------------------------------------------------
(* What is known of a device is what its driver says.                        *)

(* The devices that one thread publishes, and what it publishes for a server: *)
(* the state itself, or in a cluster what the server says of it.              *)
Sound           == {d \in Devices : Single(d)}
Source(d, e)    == IF e # Local THEN "ais" ELSE IF d \in Known THEN d ELSE "change"
SourceKey(d, e) == IF e = Local /\ ~enabled THEN StateKey(d) ELSE ChangeKey(d, e)

(* The collector has the device in hand. *)
Collecting(d) ==
  at["collector"] \in Busy \cup {"compare"} /\ ev["collector"].key = StateKey(d)

(* The driver has not yet been asked for its last change. *)
Pending(d, e) == e = Local /\ (at[d] = "changed" \/ In(d, state_changes) \/ In(d, next))

(* Only the source of a key publishes it, and in a cluster the collector what *)
(* it has collected.                                                          *)
OneSource ==
  \A t \in Threads : at[t] \in Busy =>
    \E d \in Devices :
      \/ enabled /\ t = "collector" /\ ev[t].key = StateKey(d)
      \/ \E e \in Servers : /\ ev[t].key = SourceKey(d, e)
                            /\ d \in Sound => t = Source(d, e)

(* The change thread asks for what no driver publishes. *)
AskedFor ==
  /\ \A d \in Sound : In(d, state_changes) \/ In(d, next) => d \notin Known
  /\ \A d \in Devices : at[d] # "compute"

(* What is published of a key is the state, unless it has changed since.     *)
FreshAt(d, e, t, k) ==
  /\ Works(t, k) =>
       /\ ev[t].state = actual[d][e] \/ Pending(d, e)
       /\ at[t] = "link" => cache[k] = <<>>
       /\ at[t] = "queue" => cache[k] = <<ev[t].state>>
  /\ ~Works(t, k) =>
       \/ cache[k] = <<actual[d][e]>> \/ Pending(d, e)
       \/ cache[k] = <<>> /\ actual[d][e] = Idle

Fresh == \A d \in Sound, e \in Servers : FreshAt(d, e, Source(d, e), SourceKey(d, e))

(* What has been collected is the aggregate of what is cached of the servers, *)
(* unless something that has changed will be collected again.                 *)
Upcoming(d) ==
  \/ In(d, devstate_change_q)
  \/ \E e \in Servers : Publishing(ChangeKey(d, e)) \/ Queued(ChangeKey(d, e))

Heard(d) == \E e \in Servers : cache[ChangeKey(d, e)] # <<>>

CollectedAt(d, k, c) ==
  /\ Len(cache[k]) <= 1
  /\ Collecting(d) =>
       /\ ev[c].state = Aggregate(Collected(d)) \/ Upcoming(d)
       /\ at[c] = "link" => cache[k] = <<>>
       /\ at[c] = "queue" => cache[k] = <<ev[c].state>>
  /\ ~Collecting(d) =>
       \/ cache[k] = <<Aggregate(Collected(d))>> \/ Upcoming(d)
       \/ cache[k] = <<>> /\ ~Heard(d)

UpToDate == enabled => \A d \in Devices : CollectedAt(d, StateKey(d), "collector")

(* What is collected of a device has been heard of. *)
HeardOf ==
  enabled => \A d \in Sound :
    (\/ cache[StateKey(d)] # <<>> \/ Collecting(d) \/ In(d, devstate_change_q)
     \/ \E e \in Servers : Queued(ChangeKey(d, e)))
      => Heard(d) \/ \E e \in Servers : Publishing(ChangeKey(d, e))

FreshCache == OneSource /\ AskedFor /\ Fresh /\ UpToDate /\ HeardOf

CacheInv == fails = 0 => FreshCache

(* Each key has one source. *)
LEMMA Sources ==
  ASSUME NEW d \in Devices, NEW e \in Servers
  PROVE  /\ Source(d, e) \in Threads \ {"collector", "pbx"}
         /\ SourceKey(d, e) \in Keys
         /\ \A f \in Devices, g \in Servers :
              SourceKey(d, e) = SourceKey(f, g) => d = f /\ e = g
         /\ \A f \in Devices : SourceKey(d, e) = StateKey(f) => ~enabled /\ d = f
         /\ \A f \in Devices, g \in Servers :
              SourceKey(d, e) = ChangeKey(f, g) => d = f /\ e = g
         /\ enabled => SourceKey(d, e) = ChangeKey(d, e)
<1>1. Source(d, e) \in Threads \ {"collector", "pbx"}
  BY DeviceStateConstants DEF Source, Threads
<1> QED
  BY <1>1, KeysOf, KeysDiffer, DeviceStateConstants DEF SourceKey

LEMMA FreshInit == Init => FreshCache
<1> SUFFICES ASSUME Init PROVE FreshCache
  OBVIOUS
<1> USE DeviceStateConstants
<1>1. /\ \A t \in Threads : at[t] \in {"idle", "lock"}
      /\ state_changes = <<>> /\ next = <<>> /\ events = <<>> /\ devstate_change_q = <<>>
      /\ \A k \in Keys : cache[k] = <<>>
      /\ \A d \in Devices, e \in Servers : actual[d][e] = Idle
      /\ at["collector"] = "idle" /\ "collector" \in Threads
      /\ Devices \subseteq Threads
  BY DEF Init, Threads
<1>2. OneSource /\ AskedFor
  BY <1>1 DEF OneSource, AskedFor, Busy, In, Sound
<1>3. Fresh
  BY <1>1, Sources DEF Fresh, FreshAt, Works, Busy, Sound
<1>4. UpToDate /\ HeardOf
  BY <1>1, KeysOf DEF UpToDate, CollectedAt, Collecting, Heard, HeardOf, Busy, In, Queued, Sound
<1> QED
  BY <1>2, <1>3, <1>4 DEF FreshCache

(* Steps that publish nothing: the driver may change its state, or report it. *)
Rests ==
  /\ UNCHANGED <<enabled, ev, cache, events, devstate_change_q>>
  /\ \A t \in Threads : at'[t] = at[t] \/ {at[t], at'[t]} \cap (Busy \cup {"compare"}) = {}
  /\ at'["collector"] = at["collector"]
  /\ AskedFor'
  /\ \A d \in Devices, e \in Servers : Pending(d, e) => Pending(d, e)'
  /\ \A d \in Devices, e \in Servers : actual'[d][e] = actual[d][e] \/ Pending(d, e)'

LEMMA RestsFresh ==
  ASSUME TypeOK, Side, FreshCache, Rests
  PROVE  FreshCache'
<1>1. /\ UNCHANGED <<enabled, ev, cache, events, devstate_change_q>>
      /\ at'["collector"] = at["collector"]
      /\ \A t \in Threads : at[t] \in Busy \/ at'[t] \in Busy => at'[t] = at[t]
  BY DEF Rests
<1>2. /\ \A t \in Threads : \A k : Works(t, k)' <=> Works(t, k)
      /\ \A k : Publishing(k)' <=> Publishing(k)
      /\ \A k : Queued(k)' <=> Queued(k)
      /\ \A d : In(d, devstate_change_q)' <=> In(d, devstate_change_q)
      /\ \A d : Collecting(d)' <=> Collecting(d)
  BY <1>1 DEF Works, Publishing, Queued, In, Collecting
<1>3. OneSource' /\ AskedFor'
  <2>1. OneSource'
    BY <1>1 DEF FreshCache, OneSource, SourceKey
  <2> QED
    BY <2>1 DEF Rests
<1>4. Fresh'
  <2> SUFFICES ASSUME NEW d \in Sound, NEW e \in Servers
               PROVE  FreshAt(d, e, Source(d, e), SourceKey(d, e))'
    BY DEF Fresh
  <2>1. PICK t \in Threads, k \in Keys : t = Source(d, e) /\ k = SourceKey(d, e)
    BY Sources DEF Sound
  <2>2. SourceKey(d, e)' = k
    BY <1>1, <2>1 DEF SourceKey
  <2>3. FreshAt(d, e, t, k)
    BY <2>1 DEF FreshCache, Fresh
  <2>4. /\ Pending(d, e) => Pending(d, e)'
        /\ actual'[d][e] = actual[d][e] \/ Pending(d, e)'
    BY DEF Rests, Sound
  <2>5. Works(t, k)' =>
          /\ ev'[t].state = actual'[d][e] \/ Pending(d, e)'
          /\ at'[t] = "link" => cache'[k] = <<>>
          /\ at'[t] = "queue" => cache'[k] = <<ev'[t].state>>
    BY <1>1, <1>2, <2>3, <2>4 DEF FreshAt, Busy
  <2>6. ~Works(t, k)' =>
          \/ cache'[k] = <<actual'[d][e]>> \/ Pending(d, e)'
          \/ cache'[k] = <<>> /\ actual'[d][e] = Idle
    BY <1>1, <1>2, <2>3, <2>4 DEF FreshAt
  <2> QED
    BY <2>1, <2>2, <2>5, <2>6 DEF FreshAt, Works
<1>5. UpToDate' /\ HeardOf'
  <2>1. \A d \in Devices : /\ Collected(d)' = Collected(d) /\ (Heard(d)' <=> Heard(d))
                           /\ Upcoming(d)' <=> Upcoming(d)
    BY <1>1, <1>2 DEF Collected, Heard, Upcoming
  <2>2. UpToDate'
    BY <1>1, <1>2, <2>1 DEF FreshCache, UpToDate, CollectedAt
  <2> QED
    BY <1>1, <1>2, <2>1, <2>2 DEF FreshCache, HeardOf, Sound
<1> QED
  BY <1>3, <1>4, <1>5 DEF FreshCache

(* A thread begins to publish what the driver has just been asked. *)
Begins(t, f, g) ==
  /\ t \in Threads \ {"collector"} /\ at[t] \notin Busy
  /\ at' = [at EXCEPT ![t] = "remove"]
  /\ ev' = [ev EXCEPT ![t] = [key |-> SourceKey(f, g), state |-> actual'[f][g]]]
  /\ f \in Sound => t = Source(f, g)
  /\ g # Local => enabled
  /\ UNCHANGED <<enabled, cache, events, devstate_change_q>>
  /\ \A d \in Devices, e \in Servers : d # f \/ e # g =>
       /\ actual'[d][e] = actual[d][e]
       /\ Pending(d, e) => Pending(d, e)'
  /\ AskedFor'

LEMMA BeginsFresh ==
  ASSUME TypeOK, Side, FreshCache, NEW t \in Threads, NEW f \in Devices, NEW g \in Servers,
         Begins(t, f, g)
  PROVE  FreshCache'
<1>1. /\ UNCHANGED <<enabled, cache, events, devstate_change_q>>
      /\ at[t] \notin Busy /\ at'[t] = "remove" /\ t # "collector" /\ "collector" \in Threads
      /\ ev'[t].key = SourceKey(f, g) /\ ev'[t].state = actual'[f][g]
      /\ \A u \in Threads \ {t} : at'[u] = at[u] /\ ev'[u] = ev[u]
  BY DEF Begins, TypeOK, Threads
<1>2. /\ \A u \in Threads \ {t} : \A k : Works(u, k)' <=> Works(u, k)
      /\ \A k : ~Works(t, k)
      /\ \A k : Works(t, k)' <=> k = SourceKey(f, g)
      /\ \A k : Publishing(k) => Publishing(k)'
      /\ \A k : Queued(k)' <=> Queued(k)
      /\ \A d : In(d, devstate_change_q)' <=> In(d, devstate_change_q)
      /\ \A d : Collecting(d)' <=> Collecting(d)
  BY <1>1 DEF Works, Publishing, Queued, In, Collecting, Busy
<1>3. OneSource' /\ AskedFor'
  <2>1. ASSUME NEW u \in Threads \ {t}, at'[u] \in Busy
        PROVE  \E d \in Devices :
                 \/ enabled' /\ u = "collector" /\ ev'[u].key = StateKey(d)
                 \/ \E e \in Servers : /\ ev'[u].key = SourceKey(d, e)'
                                       /\ d \in Sound => u = Source(d, e)
    BY <1>1, <2>1 DEF FreshCache, OneSource, SourceKey
  <2>2. ev'[t].key = SourceKey(f, g)' /\ (f \in Sound => t = Source(f, g))
    BY <1>1 DEF Begins, SourceKey
  <2>3. OneSource'
    BY <2>1, <2>2 DEF OneSource
  <2> QED
    BY <2>3 DEF Begins
<1>4. Fresh'
  <2> SUFFICES ASSUME NEW d \in Sound, NEW e \in Servers
               PROVE  FreshAt(d, e, Source(d, e), SourceKey(d, e))'
    BY DEF Fresh
  <2>1. PICK u \in Threads, k \in Keys : u = Source(d, e) /\ k = SourceKey(d, e)
    BY Sources DEF Sound
  <2>2. SourceKey(d, e)' = k
    BY <1>1, <2>1 DEF SourceKey
  <2>3. FreshAt(d, e, u, k)
    BY <2>1 DEF FreshCache, Fresh
  <2>4. CASE d = f /\ e = g
    <3>1. u = t /\ Works(t, k)'
      BY <1>2, <2>1, <2>4 DEF Begins
    <3> QED
      BY <1>1, <2>1, <2>2, <2>4, <3>1 DEF FreshAt
  <2>5. CASE d # f \/ e # g
    <3>1. Works(u, k)' <=> Works(u, k)
      BY <1>2, <2>1, <2>5, Sources DEF Sound
    <3>2. actual'[d][e] = actual[d][e] /\ (Pending(d, e) => Pending(d, e)')
      BY <2>5 DEF Begins, Sound
    <3>3. Works(u, k) => at'[u] = at[u] /\ ev'[u] = ev[u]
      BY <1>1, <1>2
    <3> QED
      BY <1>1, <2>1, <2>2, <2>3, <3>1, <3>2, <3>3 DEF FreshAt
  <2> QED
    BY <2>4, <2>5
<1>5. UpToDate' /\ HeardOf'
  <2>1. \A d \in Devices : /\ Collected(d)' = Collected(d) /\ (Heard(d)' <=> Heard(d))
                           /\ Upcoming(d) => Upcoming(d)'
    BY <1>1, <1>2 DEF Collected, Heard, Upcoming
  <2>2. UpToDate'
    BY <1>1, <1>2, <2>1 DEF FreshCache, UpToDate, CollectedAt
  <2> QED
    BY <1>1, <1>2, <2>1, <2>2 DEF FreshCache, HeardOf, Sound
<1> QED
  BY <1>3, <1>4, <1>5 DEF FreshCache

(* What is cached is removed, then linked; its key is on its way all the time. *)
LEMMA CacheFresh ==
  ASSUME TypeOK, Side, FreshCache, NEW t \in Threads, Remove(t) \/ Link(t)
  PROVE  FreshCache'
<1>1. PICK k \in Keys : k = ev[t].key
  BY DEF TypeOK, Remove, Link, Events, Busy
<1>2. /\ UNCHANGED <<actual, enabled, state_changes, next, ev, events, devstate_change_q>>
      /\ at[t] \in {"remove", "link"} /\ at'[t] \in {"link", "queue"}
      /\ at'[t] = "link" => cache'[k] = <<>>
      /\ at'[t] = "queue" => at[t] = "link" /\ cache'[k] = Append(cache[k], ev[t].state)
      /\ \A x \in Keys \ {k} : cache'[x] = cache[x]
      /\ \A u \in Threads \ {t} : at'[u] = at[u]
  BY <1>1 DEF TypeOK, Remove, Link, unchangedReaders, unchangedHint
<1>3. /\ \A u \in Threads : \A x : Works(u, x)' <=> Works(u, x)
      /\ Works(t, k) /\ \A x : Works(t, x) => x = k
      /\ \A x : Publishing(x)' <=> Publishing(x)
      /\ Publishing(k)
      /\ \A x : Queued(x)' <=> Queued(x)
      /\ \A d : In(d, devstate_change_q)' <=> In(d, devstate_change_q)
      /\ \A d : Collecting(d)' <=> Collecting(d)
  BY <1>1, <1>2 DEF Works, Publishing, Queued, In, Collecting, Busy, Threads
<1>4. \A d \in Devices, e \in Servers : Pending(d, e)' <=> Pending(d, e)
  BY <1>2 DEF Pending, In, Threads
<1>5. OneSource' /\ AskedFor'
  <2>1. \A u \in Threads : at'[u] \in Busy => at[u] \in Busy
    BY <1>2 DEF Busy
  <2>2. OneSource'
    BY <1>2, <2>1 DEF FreshCache, OneSource, SourceKey
  <2> QED
    BY <1>2, <2>2 DEF FreshCache, AskedFor, In, Threads, Sound
<1>6. Fresh'
  <2> SUFFICES ASSUME NEW d \in Sound, NEW e \in Servers
               PROVE  FreshAt(d, e, Source(d, e), SourceKey(d, e))'
    BY DEF Fresh
  <2>1. PICK u \in Threads, x \in Keys : u = Source(d, e) /\ x = SourceKey(d, e)
    BY Sources DEF Sound
  <2>2. SourceKey(d, e)' = x
    BY <1>2, <2>1 DEF SourceKey
  <2>3. FreshAt(d, e, u, x)
    BY <2>1 DEF FreshCache, Fresh
  <2>4. CASE x = k
    <3>1. u = t
      <4>1. PICK f \in Devices :
              \/ enabled /\ k = StateKey(f)
              \/ \E g \in Servers : k = SourceKey(f, g) /\ (f \in Sound => t = Source(f, g))
        BY <1>1, <1>2 DEF FreshCache, OneSource, Busy
      <4>2. /\ \A h \in Devices : SourceKey(d, e) = StateKey(h) => ~enabled
            /\ \A h \in Devices, g \in Servers :
                 SourceKey(d, e) = SourceKey(h, g) => d = h /\ e = g
        BY Sources DEF Sound
      <4> QED
        BY <2>1, <2>4, <4>1, <4>2
    <3>2. ev[t].state = actual[d][e] \/ Pending(d, e)
      BY <1>3, <2>3, <2>4, <3>1 DEF FreshAt
    <3>3. at'[t] = "queue" => cache'[k] = <<ev[t].state>>
      BY <1>2, <1>3, <2>3, <2>4, <3>1 DEF FreshAt
    <3>4. Works(u, x)' /\ Works(u, x)
      BY <1>3, <2>4, <3>1
    <3>5. d \in Devices
      BY DEF Sound
    <3>6. /\ ev'[u].state = actual'[d][e] \/ Pending(d, e)'
          /\ at'[u] = "link" => cache'[x] = <<>>
          /\ at'[u] = "queue" => cache'[x] = <<ev'[u].state>>
      BY <1>2, <1>4, <2>4, <3>1, <3>2, <3>3, <3>5
    <3> QED
      BY <2>1, <2>2, <3>4, <3>6 DEF FreshAt, Works
  <2>5. CASE x # k
    <3>1. cache'[x] = cache[x] /\ (Works(u, x) => u # t)
      BY <1>2, <1>3, <2>5
    <3>2. Works(u, x) => at'[u] = at[u]
      BY <1>2, <3>1
    <3>3. (Works(u, x)' <=> Works(u, x)) /\ (Pending(d, e)' <=> Pending(d, e))
      BY <1>3, <1>4 DEF Sound
    <3>4. /\ Works(u, x)' =>
                /\ ev'[u].state = actual'[d][e] \/ Pending(d, e)'
                /\ at'[u] = "link" => cache'[x] = <<>>
                /\ at'[u] = "queue" => cache'[x] = <<ev'[u].state>>
          /\ ~Works(u, x)' =>
                \/ cache'[x] = <<actual'[d][e]>> \/ Pending(d, e)'
                \/ cache'[x] = <<>> /\ actual'[d][e] = Idle
      BY <1>2, <2>3, <3>1, <3>2, <3>3 DEF FreshAt
    <3> QED
      BY <2>1, <2>2, <3>4 DEF FreshAt, Works
  <2> QED
    BY <2>4, <2>5
<1>7. ASSUME enabled, NEW d \in Devices
      PROVE  CollectedAt(d, StateKey(d), "collector")'
  <2>1. PICK x \in Keys, c \in Threads : x = StateKey(d) /\ c = "collector"
    BY KeysOf, DeviceStateConstants DEF Threads
  <2>2. CollectedAt(d, x, c)
    BY <1>7, <2>1 DEF FreshCache, UpToDate
  <2>3. CASE x = k
    <3>1. t = c
      <4>1. PICK f \in Devices : \/ t = "collector"
                                \/ \E g \in Servers : k = SourceKey(f, g)
        BY <1>1, <1>2 DEF FreshCache, OneSource, Busy
      <4>2. \A g \in Servers : SourceKey(f, g) = StateKey(d) => ~enabled
        BY Sources
      <4> QED
        BY <1>7, <2>1, <2>3, <4>1, <4>2
    <3>2. Collecting(d)
      BY <1>1, <1>2, <2>1, <2>3, <3>1 DEF Collecting, Busy
    <3>3. /\ Len(cache'[x]) <= 1
          /\ at'[c] = "queue" => cache'[x] = <<ev[c].state>>
          /\ at'[c] = "link" => cache'[x] = <<>>
      BY <1>2, <2>2, <2>3, <3>1, <3>2 DEF CollectedAt
    <3>4. /\ Collected(d)' = Collected(d)
          /\ Upcoming(d) => Upcoming(d)'
      <4>1. \A e \in Servers : cache'[ChangeKey(d, e)] = cache[ChangeKey(d, e)]
        <5>1. \A e \in Servers : ChangeKey(d, e) \in Keys \ {k}
          BY <2>1, <2>3, KeysOf DEF StateKey, ChangeKey
        <5> QED
          BY <1>2, <5>1
      <4> QED
        BY <1>3, <4>1 DEF Collected, Upcoming
    <3> QED
      BY <1>2, <1>3, <2>1, <2>2, <3>2, <3>3, <3>4 DEF CollectedAt
  <2>4. CASE x # k
    <3>1. cache'[x] = cache[x]
      BY <1>2, <2>4
    <3>2. Collecting(d) => at'[c] = at[c]
      BY <1>1, <1>2, <2>1, <2>4 DEF Collecting
    <3>3. CASE \E e \in Servers : k = ChangeKey(d, e)
      <4>1. Upcoming(d)'
        BY <1>3, <3>3 DEF Upcoming
      <4> QED
        BY <1>2, <1>3, <2>1, <2>2, <3>1, <3>2, <4>1 DEF CollectedAt
    <3>4. CASE ~ \E e \in Servers : k = ChangeKey(d, e)
      <4>1. \A e \in Servers : cache'[ChangeKey(d, e)] = cache[ChangeKey(d, e)]
        BY <1>2, <3>4, KeysOf
      <4>2. /\ Collected(d)' = Collected(d) /\ (Heard(d)' <=> Heard(d))
            /\ Upcoming(d) => Upcoming(d)'
        BY <1>3, <4>1 DEF Collected, Upcoming, Heard
      <4> QED
        BY <1>2, <1>3, <2>1, <2>2, <3>1, <3>2, <4>2 DEF CollectedAt
    <3> QED
      BY <3>3, <3>4
  <2> QED
    BY <2>3, <2>4
<1>8. UpToDate'
  BY <1>2, <1>7 DEF UpToDate
<1>9. HeardOf'
  <2> SUFFICES ASSUME enabled, NEW d \in Sound,
                      ~(Heard(d)' \/ \E e \in Servers : Publishing(ChangeKey(d, e))')
               PROVE  /\ cache'[StateKey(d)] = <<>> /\ ~Collecting(d)'
                      /\ ~In(d, devstate_change_q)'
                      /\ \A e \in Servers : ~Queued(ChangeKey(d, e))'
    BY <1>2 DEF HeardOf
  <2>1. d \in Devices
    BY DEF Sound
  <2>2. \A e \in Servers : ~Publishing(ChangeKey(d, e))
    BY <1>3
  <2>3. \A e \in Servers : cache'[ChangeKey(d, e)] = cache[ChangeKey(d, e)]
    BY <1>2, <1>3, <2>1, <2>2, KeysOf
  <2>4. ~Heard(d)
    BY <2>3 DEF Heard
  <2>5. /\ cache[StateKey(d)] = <<>> /\ ~Collecting(d)
        /\ ~In(d, devstate_change_q)
        /\ \A e \in Servers : ~Queued(ChangeKey(d, e))
    BY <2>2, <2>4 DEF FreshCache, HeardOf
  <2>6. k # StateKey(d)
    BY <1>1, <1>2, <2>1, <2>5, Sources DEF FreshCache, OneSource, Busy, Collecting
  <2> QED
    BY <1>2, <1>3, <2>1, <2>5, <2>6, KeysOf, DeviceStateConstants
<1> QED
  BY <1>5, <1>6, <1>8, <1>9 DEF FreshCache

(* The event goes to the dispatcher: what it says is cached. *)
LEMMA QueueFresh ==
  ASSUME TypeOK, Side, FreshCache, NEW t \in Threads, Queue(t)
  PROVE  FreshCache'
<1>1. PICK k \in Keys : k = ev[t].key
  BY DEF TypeOK, Queue, Published, Events, Busy
<1>2. /\ UNCHANGED <<actual, enabled, state_changes, next, cache, devstate_change_q>>
      /\ at[t] = "queue" /\ at'[t] \in {"work", "idle"}
      /\ events' = Append(events, ev[t])
      /\ \A u \in Threads \ {t} : at'[u] = at[u] /\ ev'[u] = ev[u]
      /\ t = "collector" => at'[t] = "idle"
  BY DEF TypeOK, Queue, Published, unchangedReaders, unchangedHint
<1>3. \A x : Queued(x)' <=> Queued(x) \/ x = k
  <2>1. events \in Seq(Events) /\ ev[t] \in Events
    BY <1>2 DEF TypeOK, Busy
  <2>2. /\ Len(events') = Len(events) + 1 /\ Len(events) \in Nat
        /\ \A i \in 1 .. Len(events) : events'[i] = events[i]
        /\ events'[Len(events) + 1] = ev[t]
    BY <1>2, <2>1
  <2>3. Queued(k)'
    BY <1>1, <2>2 DEF Queued
  <2>4. \A x : Queued(x) => Queued(x)'
    BY <2>2 DEF Queued
  <2>5. ASSUME NEW x, Queued(x)' PROVE Queued(x) \/ x = k
    <3>1. PICK i \in 1 .. Len(events') : events'[i].key = x
      BY <2>5 DEF Queued
    <3>2. i \in 1 .. Len(events) \/ i = Len(events) + 1
      BY <2>2
    <3> QED
      BY <1>1, <2>2, <3>1, <3>2 DEF Queued
  <2> QED
    BY <2>3, <2>4, <2>5
<1>4. /\ \A u \in Threads \ {t} : \A x : Works(u, x)' <=> Works(u, x)
      /\ Works(t, k) /\ \A x : ~Works(t, x)' /\ (Works(t, x) => x = k)
      /\ \A x : Publishing(x) => Publishing(x)' \/ x = k
      /\ \A d : In(d, devstate_change_q)' <=> In(d, devstate_change_q)
      /\ \A d : Collecting(d) => \/ Collecting(d)' /\ t # "collector"
                                 \/ t = "collector" /\ k = StateKey(d) /\ ~Collecting(d)'
      /\ \A d : Collecting(d)' => Collecting(d)
  BY <1>1, <1>2 DEF Works, Publishing, In, Collecting, Busy, Threads
<1>5. \A d \in Devices, e \in Servers : Pending(d, e)' <=> Pending(d, e)
  BY <1>2 DEF Pending, In, Threads
<1>6. OneSource' /\ AskedFor'
  <2>1. \A u \in Threads : at'[u] \in Busy => u # t
    BY <1>2 DEF Busy
  <2>2. OneSource'
    BY <1>2, <2>1 DEF FreshCache, OneSource, SourceKey
  <2> QED
    BY <1>2, <2>2 DEF FreshCache, AskedFor, In, Threads, Sound
<1>7. ASSUME NEW d \in Sound, NEW e \in Servers, k = SourceKey(d, e)
      PROVE  t = Source(d, e)
  <2>1. PICK f \in Devices :
          \/ enabled /\ k = StateKey(f)
          \/ \E g \in Servers : k = SourceKey(f, g) /\ (f \in Sound => t = Source(f, g))
    BY <1>1, <1>2 DEF FreshCache, OneSource, Busy
  <2>2. /\ \A h \in Devices : SourceKey(d, e) = StateKey(h) => ~enabled
        /\ \A h \in Devices, g \in Servers : SourceKey(d, e) = SourceKey(h, g) => d = h /\ e = g
    BY Sources DEF Sound
  <2> QED
    BY <1>7, <2>1, <2>2
<1>8. ASSUME NEW d \in Sound, NEW e \in Servers, k = SourceKey(d, e)
      PROVE  /\ cache[k] = <<ev[t].state>>
             /\ ev[t].state = actual[d][e] \/ Pending(d, e)
  <2>1. FreshAt(d, e, t, k)
    BY <1>7, <1>8 DEF FreshCache, Fresh
  <2> QED
    BY <1>2, <1>4, <2>1 DEF FreshAt
<1>9. Fresh'
  <2> SUFFICES ASSUME NEW d \in Sound, NEW e \in Servers
               PROVE  FreshAt(d, e, Source(d, e), SourceKey(d, e))'
    BY DEF Fresh
  <2>1. PICK u \in Threads, x \in Keys : u = Source(d, e) /\ x = SourceKey(d, e)
    BY Sources DEF Sound
  <2>2. SourceKey(d, e)' = x
    BY <1>2, <2>1 DEF SourceKey
  <2>3. FreshAt(d, e, u, x)
    BY <2>1 DEF FreshCache, Fresh
  <2>4. Pending(d, e)' <=> Pending(d, e)
    BY <1>5 DEF Sound
  <2>5. CASE x = k
    <3>1. u = t /\ ~Works(u, x)'
      BY <1>4, <1>7, <2>1, <2>5
    <3>2. cache'[x] = <<actual'[d][e]>> \/ Pending(d, e)'
      BY <1>2, <1>8, <2>1, <2>4, <2>5
    <3> QED
      BY <2>1, <2>2, <3>1, <3>2 DEF FreshAt, Works
  <2>6. CASE x # k
    <3>1. (Works(u, x)' <=> Works(u, x)) /\ (Works(u, x) => u # t)
      BY <1>4, <2>6
    <3>2. /\ Works(u, x)' =>
                /\ ev'[u].state = actual'[d][e] \/ Pending(d, e)'
                /\ at'[u] = "link" => cache'[x] = <<>>
                /\ at'[u] = "queue" => cache'[x] = <<ev'[u].state>>
          /\ ~Works(u, x)' =>
                \/ cache'[x] = <<actual'[d][e]>> \/ Pending(d, e)'
                \/ cache'[x] = <<>> /\ actual'[d][e] = Idle
      BY <1>2, <2>3, <2>4, <3>1 DEF FreshAt
    <3> QED
      BY <2>1, <2>2, <3>2 DEF FreshAt, Works
  <2> QED
    BY <2>5, <2>6
<1>10. \A d \in Devices : /\ Collected(d)' = Collected(d) /\ (Heard(d)' <=> Heard(d))
                          /\ Upcoming(d) => Upcoming(d)'
  BY <1>2, <1>3, <1>4 DEF Collected, Upcoming, Heard
<1>11. ASSUME enabled, NEW d \in Devices
       PROVE  CollectedAt(d, StateKey(d), "collector")'
  <2>1. PICK x \in Keys, c \in Threads : x = StateKey(d) /\ c = "collector"
    BY KeysOf, DeviceStateConstants DEF Threads
  <2>2. CollectedAt(d, x, c)
    BY <1>11, <2>1 DEF FreshCache, UpToDate
  <2>3. CASE Collecting(d) /\ ~Collecting(d)'
    <3>1. t = c
      BY <1>4, <2>1, <2>3
    <3>2. cache'[x] = <<Aggregate(Collected(d))>>' \/ Upcoming(d)'
      <4>1. cache[x] = <<ev[c].state>> /\ (ev[c].state = Aggregate(Collected(d)) \/ Upcoming(d))
        BY <1>2, <2>2, <2>3, <3>1 DEF CollectedAt
      <4> QED
        BY <1>2, <1>10, <4>1
    <3> QED
      BY <1>2, <2>1, <2>2, <2>3, <3>2 DEF CollectedAt
  <2>4. CASE Collecting(d)' <=> Collecting(d)
    <3>1. Collecting(d) => at'[c] = at[c] /\ ev'[c] = ev[c]
      BY <1>2, <1>4, <2>1, <2>4
    <3> QED
      BY <1>2, <1>10, <2>1, <2>2, <2>4, <3>1 DEF CollectedAt
  <2> QED
    BY <1>4, <2>3, <2>4
<1>12. HeardOf'
  <2> SUFFICES ASSUME enabled, NEW d \in Sound,
                      \/ cache'[StateKey(d)] # <<>> \/ Collecting(d)'
                      \/ In(d, devstate_change_q)'
                      \/ \E e \in Servers : Queued(ChangeKey(d, e))'
               PROVE  Heard(d)' \/ \E e \in Servers : Publishing(ChangeKey(d, e))'
    BY <1>2 DEF HeardOf
  <2>1. d \in Devices
    BY DEF Sound
  <2>2. CASE \E e \in Servers : k = ChangeKey(d, e)
    <3>1. PICK e \in Servers : k = SourceKey(d, e) /\ k = ChangeKey(d, e)
      BY <2>1, <2>2, Sources
    <3>2. cache[SourceKey(d, e)] = <<ev[t].state>>
      BY <1>8, <3>1
    <3>3. <<ev[t].state>> # <<>>
      OBVIOUS
    <3>4. cache[ChangeKey(d, e)] # <<>>
      BY <3>1, <3>2, <3>3, Zenon
    <3> QED
      BY <1>10, <2>1, <3>4 DEF Heard
  <2>3. CASE ~ \E e \in Servers : k = ChangeKey(d, e)
    <3>1. \/ cache[StateKey(d)] # <<>> \/ Collecting(d)
          \/ In(d, devstate_change_q)
          \/ \E e \in Servers : Queued(ChangeKey(d, e))
      BY <1>2, <1>3, <1>4, <2>3
    <3>2. Heard(d) \/ \E e \in Servers : Publishing(ChangeKey(d, e))
      BY <3>1 DEF FreshCache, HeardOf
    <3> QED
      BY <1>4, <1>10, <2>1, <2>3, <3>2
  <2> QED
    BY <2>2, <2>3
<1>13. UpToDate'
  BY <1>2, <1>11 DEF UpToDate
<1> QED
  BY <1>6, <1>9, <1>12, <1>13 DEF FreshCache

(* Steps of the dispatcher and of the collector before it publishes *)
Reads ==
  /\ UNCHANGED <<actual, enabled, state_changes, next, cache>>
  /\ \A t \in Threads \ {"collector"} : at'[t] = at[t] /\ ev'[t] = ev[t]

LEMMA ReadsFresh ==
  ASSUME TypeOK, Side, FreshCache, Reads
  PROVE  AskedFor' /\ Fresh'
<1>1. /\ UNCHANGED <<actual, enabled, state_changes, next, cache>>
      /\ \A t \in Threads \ {"collector"} : at'[t] = at[t] /\ ev'[t] = ev[t]
  BY DEF Reads
<1>2. AskedFor'
  BY <1>1, DeviceStateConstants DEF FreshCache, AskedFor, In, Threads, Sound
<1>3. ASSUME NEW d \in Sound, NEW e \in Servers
      PROVE  FreshAt(d, e, Source(d, e), SourceKey(d, e))'
  <2>1. PICK u \in Threads \ {"collector"}, x \in Keys :
                 u = Source(d, e) /\ x = SourceKey(d, e)
    BY Sources DEF Sound
  <2>2. SourceKey(d, e)' = x
    BY <1>1, <2>1 DEF SourceKey
  <2>3. FreshAt(d, e, u, x)
    BY <2>1 DEF FreshCache, Fresh
  <2>4. Pending(d, e)' <=> Pending(d, e)
    BY <1>1, DeviceStateConstants DEF Pending, In, Threads, Sound
  <2>5. Works(u, x)' <=> Works(u, x)
    BY <1>1 DEF Works
  <2>6. /\ Works(u, x)' =>
              /\ ev'[u].state = actual'[d][e] \/ Pending(d, e)'
              /\ at'[u] = "link" => cache'[x] = <<>>
              /\ at'[u] = "queue" => cache'[x] = <<ev'[u].state>>
        /\ ~Works(u, x)' =>
              \/ cache'[x] = <<actual'[d][e]>> \/ Pending(d, e)'
              \/ cache'[x] = <<>> /\ actual'[d][e] = Idle
    BY <1>1, <2>3, <2>4, <2>5 DEF FreshAt
  <2> QED
    BY <2>1, <2>2, <2>6 DEF FreshAt, Works
<1> QED
  BY <1>2, <1>3 DEF Fresh

(* What the dispatcher takes of a server reaches the collector. *)
LEMMA DispatchFresh ==
  ASSUME TypeOK, Side, FreshCache, DispatchState \/ DispatchChange
  PROVE  FreshCache'
<1>1. /\ UNCHANGED <<actual, enabled, state_changes, next, cache, at, ev>>
      /\ events # <<>> /\ events' = Tail(events)
      /\ \/ Head(events).key[1] = "state" /\ UNCHANGED devstate_change_q
         \/ /\ Head(events).key[1] = "change"
            /\ devstate_change_q' = Append(devstate_change_q, Head(events).key[2])
  <2>1. CASE DispatchState
    BY <2>1 DEF DispatchState, unchangedSources
  <2>2. CASE DispatchChange
    BY <2>2 DEF DispatchChange, unchangedSources
  <2> QED
    BY <2>1, <2>2
<1>2. PICK k \in Keys : k = Head(events).key
  <2>1. Head(events) \in Events
    BY <1>1 DEF TypeOK
  <2> QED
    BY <2>1 DEF Events
<1>3. /\ \A x : Queued(x) => Queued(x)' \/ x = k
      /\ \A x : Queued(x)' => Queued(x)
      /\ Queued(k)
  <2>1. events \in Seq(Events)
    BY DEF TypeOK
  <2>2. /\ Len(events) \in Nat /\ Len(events') = Len(events) - 1
        /\ \A i \in 1 .. Len(events') : events'[i] = events[i + 1] /\ i + 1 \in 1 .. Len(events)
        /\ 1 \in 1 .. Len(events) /\ events[1].key = k
    BY <1>1, <1>2, <2>1
  <2>3. ASSUME NEW x, Queued(x), x # k PROVE Queued(x)'
    <3>1. PICK i \in 1 .. Len(events) : events[i].key = x
      BY <2>3 DEF Queued
    <3>2. i - 1 \in 1 .. Len(events') /\ (i - 1) + 1 = i
      BY <2>2, <2>3, <3>1
    <3>3. events'[i - 1].key = x
      BY <2>2, <3>1, <3>2
    <3> QED
      BY <3>2, <3>3 DEF Queued
  <2> QED
    BY <2>2, <2>3 DEF Queued
<1>4. /\ \A t \in Threads : \A x : Works(t, x)' <=> Works(t, x)
      /\ \A x : Publishing(x)' <=> Publishing(x)
      /\ \A d : Collecting(d)' <=> Collecting(d)
  BY <1>1 DEF Works, Publishing, Collecting
<1>5. AskedFor' /\ Fresh'
  BY <1>1, ReadsFresh DEF Reads
<1>6. OneSource'
  BY <1>1 DEF FreshCache, OneSource, SourceKey
<1>7. \A d \in Devices, e \in Servers : k = ChangeKey(d, e) =>
        /\ enabled
        /\ \A f \in Devices : In(f, devstate_change_q)' <=> In(f, devstate_change_q) \/ f = d
  <2> SUFFICES ASSUME NEW d \in Devices, NEW e \in Servers, k = ChangeKey(d, e)
               PROVE  /\ enabled
                      /\ \A f \in Devices : In(f, devstate_change_q)'
                                              <=> In(f, devstate_change_q) \/ f = d
    OBVIOUS
  <2>1. enabled
    BY <1>3 DEF Side, Alone
  <2>2. devstate_change_q' = Append(devstate_change_q, d)
    BY <1>1, <1>2 DEF ChangeKey
  <2>3. devstate_change_q \in Seq(Devices)
    BY DEF TypeOK
  <2>4. /\ Len(devstate_change_q') = Len(devstate_change_q) + 1 /\ Len(devstate_change_q) \in Nat
        /\ \A i \in 1 .. Len(devstate_change_q) : devstate_change_q'[i] = devstate_change_q[i]
        /\ devstate_change_q'[Len(devstate_change_q) + 1] = d
    BY <2>2, <2>3
  <2>5. ASSUME NEW f, In(f, devstate_change_q)' PROVE In(f, devstate_change_q) \/ f = d
    <3>1. PICK i \in 1 .. Len(devstate_change_q') : devstate_change_q'[i] = f
      BY <2>5 DEF In
    <3>2. i \in 1 .. Len(devstate_change_q) \/ i = Len(devstate_change_q) + 1
      BY <2>4
    <3> QED
      BY <2>4, <3>1, <3>2 DEF In
  <2> QED
    BY <2>1, <2>4, <2>5 DEF In
<1>8. \/ \E d \in Devices, e \in Servers : k = ChangeKey(d, e)
      \/ /\ \A d \in Devices, e \in Servers : k # ChangeKey(d, e)
         /\ UNCHANGED devstate_change_q
  BY <1>1, <1>2, KeyParts DEF ChangeKey
<1>9. \A d \in Devices : /\ Collected(d)' = Collected(d) /\ (Heard(d)' <=> Heard(d))
                         /\ Upcoming(d) => Upcoming(d)'
                         /\ In(d, devstate_change_q) => In(d, devstate_change_q)'
  <2> SUFFICES ASSUME NEW d \in Devices
               PROVE  /\ Collected(d)' = Collected(d) /\ (Heard(d)' <=> Heard(d))
                      /\ Upcoming(d) => Upcoming(d)'
                      /\ In(d, devstate_change_q) => In(d, devstate_change_q)'
    OBVIOUS
  <2>1. In(d, devstate_change_q) => In(d, devstate_change_q)'
    <3>1. UNCHANGED devstate_change_q => (In(d, devstate_change_q)' <=> In(d, devstate_change_q))
      BY DEF In
    <3> QED
      BY <1>7, <1>8, <3>1
  <2>2. ASSUME NEW e \in Servers, Queued(ChangeKey(d, e)) PROVE Upcoming(d)'
    <3>1. CASE k = ChangeKey(d, e)
      BY <1>7, <3>1 DEF Upcoming
    <3>2. CASE k # ChangeKey(d, e)
      BY <1>3, <2>2, <3>2 DEF Upcoming
    <3> QED
      BY <3>1, <3>2
  <2>3. Upcoming(d) => Upcoming(d)'
    BY <1>4, <2>1, <2>2 DEF Upcoming
  <2> QED
    BY <1>1, <2>1, <2>3 DEF Collected, Heard
<1>10. UpToDate'
  BY <1>1, <1>4, <1>9 DEF FreshCache, UpToDate, CollectedAt
<1>11. HeardOf'
  <2> SUFFICES ASSUME enabled, NEW d \in Sound,
                      \/ cache'[StateKey(d)] # <<>> \/ Collecting(d)'
                      \/ In(d, devstate_change_q)'
                      \/ \E e \in Servers : Queued(ChangeKey(d, e))'
               PROVE  Heard(d)' \/ \E e \in Servers : Publishing(ChangeKey(d, e))'
    BY <1>1 DEF HeardOf
  <2>1. d \in Devices
    BY DEF Sound
  <2>2. In(d, devstate_change_q)' =>
          In(d, devstate_change_q) \/ \E e \in Servers : Queued(ChangeKey(d, e))
    <3>1. UNCHANGED devstate_change_q => (In(d, devstate_change_q)' <=> In(d, devstate_change_q))
      BY DEF In
    <3> QED
      BY <1>3, <1>7, <1>8, <2>1, <3>1
  <2>3. \/ cache[StateKey(d)] # <<>> \/ Collecting(d) \/ In(d, devstate_change_q)
        \/ \E e \in Servers : Queued(ChangeKey(d, e))
    BY <1>1, <1>3, <1>4, <2>2
  <2>4. Heard(d) \/ \E e \in Servers : Publishing(ChangeKey(d, e))
    BY <2>3 DEF FreshCache, HeardOf
  <2> QED
    BY <1>4, <1>9, <2>1, <2>4
<1> QED
  BY <1>5, <1>6, <1>10, <1>11 DEF FreshCache

(* What is collected of a device is right while it is compared. *)
LEMMA CollectFresh ==
  ASSUME TypeOK, Side, FreshCache, Collect
  PROVE  FreshCache'
<1>1. /\ UNCHANGED <<actual, enabled, state_changes, next, cache, events>>
      /\ at["collector"] = "idle" /\ at'["collector"] = "compare"
      /\ devstate_change_q # <<>> /\ devstate_change_q' = Tail(devstate_change_q)
      /\ \A t \in Threads \ {"collector"} : at'[t] = at[t] /\ ev'[t] = ev[t]
      /\ "collector" \in Threads
  BY DEF Collect, unchangedSources, TypeOK, Threads
<1>2. PICK d \in Devices : d = Head(devstate_change_q)
  BY <1>1 DEF TypeOK
<1>3. /\ ev'["collector"].key = StateKey(d)
      /\ ev'["collector"].state = Aggregate(Collected(d))
      /\ enabled
  BY <1>1, <1>2 DEF Collect, TypeOK, Side, Alone
<1>4. /\ \A t \in Threads : \A x : Works(t, x)' <=> Works(t, x)
      /\ \A x : Publishing(x)' <=> Publishing(x)
      /\ \A x : Queued(x)' <=> Queued(x)
      /\ \A f : ~Collecting(f)
  BY <1>1 DEF Works, Publishing, Queued, Collecting, Busy
<1>5. \A f \in Devices : Collecting(f)' <=> f = d
  BY <1>1, <1>3, KeysDiffer DEF Collecting, StateKey
<1>6. AskedFor' /\ Fresh'
  BY <1>1, ReadsFresh DEF Reads
<1>7. OneSource'
  <2>1. \A t \in Threads : at'[t] \in Busy => t # "collector"
    BY <1>1 DEF Busy
  <2> QED
    BY <1>1, <2>1 DEF FreshCache, OneSource, SourceKey
<1>8. \A f \in Devices : /\ In(f, devstate_change_q)' => In(f, devstate_change_q)
                         /\ In(f, devstate_change_q) => In(f, devstate_change_q)' \/ f = d
  <2>1. devstate_change_q \in Seq(Devices)
    BY DEF TypeOK
  <2>2. \A f \in Devices : In(f, devstate_change_q) /\ f # d => In(f, devstate_change_q')
    BY <1>1, <1>2, <2>1, InTail
  <2>3. \A i \in 1 .. Len(devstate_change_q') :
          i + 1 \in 1 .. Len(devstate_change_q) /\ devstate_change_q'[i] = devstate_change_q[i + 1]
    BY <1>1, <2>1
  <2> QED
    BY <2>2, <2>3 DEF In
<1>9. In(d, devstate_change_q)
  BY <1>1, <1>2 DEF In, TypeOK
<1>10. \A f \in Devices : /\ Collected(f)' = Collected(f) /\ (Heard(f)' <=> Heard(f))
                          /\ Upcoming(f) => Upcoming(f)' \/ f = d
  BY <1>1, <1>4, <1>8 DEF Collected, Heard, Upcoming
<1>11. ASSUME NEW f \in Devices PROVE CollectedAt(f, StateKey(f), "collector")'
  <2>1. CollectedAt(f, StateKey(f), "collector")
    BY <1>3 DEF FreshCache, UpToDate
  <2>2. CASE f = d
    BY <1>1, <1>3, <1>5, <1>10, <2>1, <2>2 DEF CollectedAt
  <2>3. CASE f # d
    BY <1>1, <1>4, <1>5, <1>10, <2>1, <2>3 DEF CollectedAt
  <2> QED
    BY <2>2, <2>3
<1>12. UpToDate'
  BY <1>11 DEF UpToDate
<1>13. HeardOf'
  <2> SUFFICES ASSUME NEW f \in Sound,
                      \/ cache'[StateKey(f)] # <<>> \/ Collecting(f)'
                      \/ In(f, devstate_change_q)'
                      \/ \E e \in Servers : Queued(ChangeKey(f, e))'
               PROVE  Heard(f)' \/ \E e \in Servers : Publishing(ChangeKey(f, e))'
    BY DEF HeardOf
  <2>1. f \in Devices
    BY DEF Sound
  <2>2. \/ cache[StateKey(f)] # <<>> \/ In(f, devstate_change_q)
        \/ \E e \in Servers : Queued(ChangeKey(f, e))
    BY <1>1, <1>4, <1>5, <1>8, <1>9, <2>1
  <2>3. Heard(f) \/ \E e \in Servers : Publishing(ChangeKey(f, e))
    BY <1>3, <2>2 DEF FreshCache, HeardOf
  <2> QED
    BY <1>4, <1>10, <2>1, <2>3
<1> QED
  BY <1>6, <1>7, <1>12, <1>13 DEF FreshCache

(* What has not changed need not be published, what has is. *)
LEMMA CompareFresh ==
  ASSUME TypeOK, Side, FreshCache, CollectSame \/ CollectChanged
  PROVE  FreshCache'
<1>1. /\ UNCHANGED <<actual, enabled, state_changes, next, cache, events, devstate_change_q>>
      /\ at["collector"] = "compare"
      /\ \/ at'["collector"] = "idle" /\ Unchanged
         \/ at'["collector"] = "remove" /\ UNCHANGED ev
      /\ \A t \in Threads \ {"collector"} : at'[t] = at[t] /\ ev'[t] = ev[t]
      /\ "collector" \in Threads
  BY DEF CollectSame, CollectChanged, unchangedSources, unchangedReaders, unchangedHint, TypeOK, Threads
<1>2. PICK d \in Devices : ev["collector"].key = StateKey(d)
  BY <1>1 DEF Side, CollectorHolds
<1>3. enabled
  BY <1>1 DEF Side, Alone
<1>4. /\ \A t \in Threads \ {"collector"} : \A x : Works(t, x)' <=> Works(t, x)
      /\ \A x : Queued(x)' <=> Queued(x)
      /\ \A x : Publishing(x) => Publishing(x)'
      /\ \A f : In(f, devstate_change_q)' <=> In(f, devstate_change_q)
      /\ \A f : Collecting(f)' => Collecting(f)
  BY <1>1 DEF Works, Publishing, Queued, Collecting, Busy, In
<1>5. AskedFor' /\ Fresh'
  BY <1>1, ReadsFresh DEF Reads
<1>6. OneSource'
  <2>1. at'["collector"] \in Busy => ev'["collector"].key = StateKey(d)
    BY <1>1, <1>2 DEF Busy
  <2> QED
    BY <1>1, <1>3, <2>1 DEF FreshCache, OneSource, SourceKey
<1>7. \A f \in Devices : /\ Collected(f)' = Collected(f) /\ (Heard(f)' <=> Heard(f))
                         /\ Upcoming(f) => Upcoming(f)'
  BY <1>1, <1>4 DEF Collected, Heard, Upcoming
<1>8. ASSUME NEW f \in Devices PROVE CollectedAt(f, StateKey(f), "collector")'
  <2>1. PICK x \in Keys : x = StateKey(f)
    BY KeysOf, DeviceStateConstants
  <2>2. CollectedAt(f, x, "collector")
    BY <1>3, <2>1 DEF FreshCache, UpToDate
  <2>3. CASE at'["collector"] = "remove"
    <3>1. Collecting(f)' <=> Collecting(f)
      BY <1>1, <2>3 DEF Collecting, Busy
    <3> QED
      BY <1>1, <1>7, <2>1, <2>2, <2>3, <3>1 DEF CollectedAt
  <2>4. CASE at'["collector"] = "idle" /\ f = d
    <3>1. Collecting(f) /\ ~Collecting(f)'
      BY <1>1, <1>2, <2>4 DEF Collecting, Busy
    <3>2. cache[x] = <<ev["collector"].state>>
      <4>1. cache[x] # <<>> /\ Head(cache[x]) = ev["collector"].state
        BY <1>1, <1>2, <2>1, <2>4 DEF Unchanged
      <4>2. cache[x] \in Seq(States) /\ Len(cache[x]) <= 1
        BY <2>2 DEF CollectedAt, TypeOK
      <4> QED
        BY <4>1, <4>2
    <3> QED
      BY <1>1, <1>7, <2>1, <2>2, <3>1, <3>2 DEF CollectedAt
  <2>5. CASE at'["collector"] = "idle" /\ f # d
    <3>1. ~Collecting(f) /\ ~Collecting(f)'
      BY <1>1, <1>2, <2>5 DEF Collecting, Busy, StateKey
    <3> QED
      BY <1>1, <1>7, <2>1, <2>2, <3>1 DEF CollectedAt
  <2> QED
    BY <1>1, <2>3, <2>4, <2>5
<1>9. UpToDate'
  BY <1>8 DEF UpToDate
<1>10. HeardOf'
  BY <1>1, <1>4, <1>7 DEF FreshCache, HeardOf, Sound
<1> QED
  BY <1>5, <1>6, <1>9, <1>10 DEF FreshCache

(* The steps that are at rest *)
LEMMA RestSteps ==
  ASSUME TypeOK, Side, FreshCache,
         \/ UNCHANGED vars \/ HintOther \/ HintStart \/ HintRead \/ HintTell
         \/ ChangeWait \/ ChangeTake \/ ChangeWakesUp \/ ChangeDone
         \/ \E f \in Devices : DriverChange(f) \/ ChangedUnknown(f)
  PROVE  Rests
<1> USE DeviceStateConstants
<1>1. /\ at \in [Threads -> Places] /\ actual \in [Devices -> [Servers -> States]]
      /\ state_changes \in Seq(Devices) /\ next \in Seq(Devices)
      /\ {"change", "collector", "ais", "pbx"} \cup Devices \subseteq Threads
      /\ "change" \notin Devices /\ "pbx" \notin Devices /\ "collector" \notin Devices
      /\ AskedFor
  BY DEF TypeOK, Places, Threads, FreshCache
<1>2. ASSUME UNCHANGED <<enabled, ev, cache, events, devstate_change_q, actual>>,
             \A t \in Threads : at'[t] = at[t] \/ {at[t], at'[t]} \cap (Busy \cup {"compare"}) = {},
             \A t \in Devices \cup {"collector"} : at'[t] = at[t],
             \A d \in Devices : In(d, state_changes)' \/ In(d, next)'
                                  <=> In(d, state_changes) \/ In(d, next)
      PROVE  Rests
  <2>1. AskedFor'
    BY <1>1, <1>2 DEF AskedFor
  <2>2. \A d \in Devices, e \in Servers : Pending(d, e) => Pending(d, e)'
    BY <1>2 DEF Pending
  <2> QED
    BY <1>2, <2>1, <2>2 DEF Rests
<1>3. CASE UNCHANGED vars
  BY <1>2, <1>3 DEF vars, In
<1>4. CASE HintOther \/ HintStart \/ HintRead \/ HintTell
  <2>1. /\ UNCHANGED <<enabled, ev, cache, events, devstate_change_q, actual, state_changes, next>>
        /\ \A t \in Threads \ {"pbx"} : at'[t] = at[t]
        /\ at'["pbx"] = at["pbx"] \/ {at["pbx"], at'["pbx"]} \subseteq {"idle", "read"}
    BY <1>1, <1>4 DEF HintOther, HintStart, HintRead, HintTell,
       unchangedSources, unchangedPublishers
  <2> QED
    BY <1>1, <1>2, <2>1 DEF Busy, In
<1>5. CASE ChangeWait \/ ChangeWakesUp \/ ChangeDone
  <2>1. /\ UNCHANGED <<enabled, ev, cache, events, devstate_change_q, actual, state_changes, next>>
        /\ \A t \in Threads \ {"change"} : at'[t] = at[t]
        /\ {at["change"], at'["change"]} \subseteq {"lock", "waiting", "woken", "work"}
    BY <1>1, <1>5 DEF ChangeWait, ChangeWakesUp, ChangeDone, unchangedReaders, unchangedHint
  <2> QED
    BY <1>1, <1>2, <2>1 DEF Busy, In
<1>6. CASE ChangeTake
  <2>1. /\ UNCHANGED <<enabled, ev, cache, events, devstate_change_q, actual>>
        /\ \A t \in Threads \ {"change"} : at'[t] = at[t]
        /\ {at["change"], at'["change"]} \subseteq {"lock", "woken", "work"}
        /\ next' = state_changes /\ state_changes' = <<>>
        /\ at["change"] \in {"lock", "woken"}
    BY <1>1, <1>6 DEF ChangeTake, unchangedReaders, unchangedHint
  <2>2. next = <<>>
    BY <2>1 DEF Side, ChangeClean
  <2>3. \A d \in Devices : In(d, state_changes)' \/ In(d, next)'
                             <=> In(d, state_changes) \/ In(d, next)
    BY <2>1, <2>2 DEF In
  <2> QED
    BY <1>1, <1>2, <2>1, <2>3 DEF Busy
<1>7. ASSUME NEW f \in Devices, DriverChange(f) PROVE Rests
  <2>1. /\ UNCHANGED <<enabled, ev, cache, events, devstate_change_q, state_changes, next>>
        /\ \A t \in Threads \ {f} : at'[t] = at[t]
        /\ at[f] = "idle" /\ at'[f] = "changed"
        /\ \A d \in Devices, e \in Servers : d # f \/ e # Local => actual'[d][e] = actual[d][e]
    <3>1. PICK s : actual' = [actual EXCEPT ![f][Local] = s]
      BY <1>7 DEF DriverChange
    <3>2. \A d \in Devices, e \in Servers : d # f \/ e # Local => actual'[d][e] = actual[d][e]
      BY <1>1, <3>1
    <3> QED
      BY <1>1, <1>7, <3>2 DEF DriverChange, unchangedReaders, unchangedHint
  <2>2. AskedFor'
    BY <1>1, <2>1 DEF AskedFor, In, Sound
  <2>3. /\ \A d \in Devices, e \in Servers : Pending(d, e) => Pending(d, e)'
        /\ Pending(f, Local)'
    BY <1>1, <2>1 DEF Pending, In
  <2>4. \A d \in Devices, e \in Servers : actual'[d][e] = actual[d][e] \/ Pending(d, e)'
    BY <2>1, <2>3
  <2> QED
    BY <1>1, <2>1, <2>2, <2>3, <2>4 DEF Rests, Busy
<1>8. ASSUME NEW f \in Devices, ChangedUnknown(f) PROVE Rests
  <2>1. /\ UNCHANGED <<enabled, ev, cache, events, devstate_change_q, actual, next>>
        /\ f \in Asked \/ actual[f][Local] = "UNKNOWN"
        /\ at[f] = "changed" /\ state_changes' = Append(state_changes, f)
        /\ at' = SignalChange([at EXCEPT ![f] = "idle"])
    BY <1>8 DEF ChangedUnknown, Asks, unchangedReaders, unchangedHint
  <2>2. /\ \A t \in Threads \ {f, "change"} : at'[t] = at[t]
        /\ at'[f] = "idle"
        /\ at'["change"] = at["change"] \/ {at["change"], at'["change"]} = {"waiting", "woken"}
    BY <1>1, <2>1 DEF SignalChange
  <2>3. \A d \in Devices : In(d, state_changes) \/ d = f => In(d, state_changes')
    BY <1>1, <2>1, InAppended
  <2>4. \A d \in Devices : In(d, state_changes') => In(d, state_changes) \/ d = f
    <3>1. /\ Len(state_changes') = Len(state_changes) + 1 /\ Len(state_changes) \in Nat
          /\ \A i \in 1 .. Len(state_changes) : state_changes'[i] = state_changes[i]
          /\ state_changes'[Len(state_changes) + 1] = f
      BY <1>1, <2>1
    <3>2. \A i \in 1 .. Len(state_changes') :
            i \in 1 .. Len(state_changes) \/ i = Len(state_changes) + 1
      BY <3>1
    <3> QED
      BY <3>1, <3>2 DEF In
  <2>5. AskedFor'
    <3>5. f \in Sound => f \notin Known
      BY <2>1 DEF Sound, Single, TypeOK
    <3>1. \A d \in Sound : In(d, state_changes') \/ In(d, next) => d \notin Known
      BY <1>1, <2>1, <2>4, <3>5 DEF AskedFor, Sound
    <3>2. \A d \in Devices : at'[d] # "compute"
      BY <1>1, <2>2 DEF AskedFor
    <3> QED
      BY <2>1, <3>1, <3>2 DEF AskedFor, In, Sound
  <2>6. \A d \in Devices, e \in Servers : Pending(d, e) => Pending(d, e)'
    BY <1>1, <2>1, <2>2, <2>3 DEF Pending, In
  <2> QED
    BY <1>1, <2>1, <2>2, <2>5, <2>6 DEF Rests, Busy
<1> QED
  BY <1>3, <1>4, <1>5, <1>6, <1>7, <1>8

(* The steps with which a thread begins to publish *)
LEMMA BeginSteps ==
  ASSUME TypeOK, TypeOK', FreshCache,
         \/ ChangeCompute \/ \E f \in Devices : ChangedKnown(f)
         \/ \E f \in Devices, g \in Servers : Deliver(f, g)
  PROVE  \E t \in Threads, f \in Devices, g \in Servers : Begins(t, f, g)
<1> USE DeviceStateConstants
<1>1. /\ at \in [Threads -> Places] /\ actual \in [Devices -> [Servers -> States]]
      /\ {"change", "collector", "ais", "pbx"} \cup Devices \subseteq Threads
      /\ "change" \notin Devices /\ "ais" \notin Devices /\ "collector" \notin Devices
      /\ next \in Seq(Devices) /\ AskedFor
  BY DEF TypeOK, Places, Threads, FreshCache
<1>2. \A f \in Devices : \A s : LocalEvent(f, s) = [key |-> SourceKey(f, Local), state |-> s]
  BY DEF LocalEvent, SourceKey
<1>3. ASSUME NEW f \in Devices, ChangedKnown(f) PROVE Begins(f, f, Local)
  <2>1. /\ UNCHANGED <<enabled, cache, events, devstate_change_q, actual, state_changes, next>>
        /\ at[f] = "changed" /\ f \in Known /\ at' = [at EXCEPT ![f] = "remove"]
        /\ ev' = [ev EXCEPT ![f] = [key |-> SourceKey(f, Local), state |-> actual'[f][Local]]]
    BY <1>2, <1>3 DEF ChangedKnown, unchangedReaders, unchangedHint
  <2>2. \A d \in Devices \ {f} : at'[d] = at[d]
    BY <1>1, <2>1
  <2>3. AskedFor'
    BY <1>1, <2>1, <2>2 DEF AskedFor, In, Sound
  <2>4. \A d \in Devices, e \in Servers : (d # f \/ e # Local) /\ Pending(d, e) => Pending(d, e)'
    BY <2>1, <2>2 DEF Pending, In
  <2>5. f \in Sound => f = Source(f, Local)
    BY <2>1 DEF Source
  <2> QED
    BY <1>1, <2>1, <2>3, <2>4, <2>5 DEF Begins, Busy
<1>4. ASSUME ChangeCompute PROVE Begins("change", Head(next), Local) /\ Head(next) \in Devices
  <2>1. PICK f \in Devices : f = Head(next)
    BY <1>1, <1>4 DEF ChangeCompute
  <2>2. /\ UNCHANGED <<enabled, cache, events, devstate_change_q, actual, state_changes>>
        /\ at["change"] = "work" /\ at' = [at EXCEPT !["change"] = "remove"]
        /\ next # <<>> /\ next' = Tail(next)
        /\ ev' = [ev EXCEPT !["change"] = [key |-> SourceKey(f, Local), state |-> actual'[f][Local]]]
    BY <1>2, <1>4, <2>1 DEF ChangeCompute, unchangedReaders, unchangedHint
  <2>3. \A d \in Devices : at'[d] = at[d]
    BY <1>1, <2>2
  <2>4. \A d \in Devices : In(d, next') => In(d, next)
    <3>1. \A i \in 1 .. Len(next') : i + 1 \in 1 .. Len(next) /\ next'[i] = next[i + 1]
      BY <1>1, <2>2
    <3> QED
      BY <3>1 DEF In
  <2>5. \A d \in Devices : In(d, next) /\ d # f => In(d, next')
    BY <1>1, <2>1, <2>2, InTail
  <2>6. f \in Sound => f \notin Known
    <3>1. In(f, next)
      BY <1>1, <2>1, <2>2 DEF In
    <3> QED
      BY <1>1, <3>1 DEF AskedFor
  <2>7. AskedFor'
    BY <1>1, <2>2, <2>3, <2>4 DEF AskedFor, In, Sound
  <2>8. \A d \in Devices, e \in Servers : (d # f \/ e # Local) /\ Pending(d, e) => Pending(d, e)'
    BY <2>2, <2>3, <2>5 DEF Pending, In
  <2>9. f \in Sound => "change" = Source(f, Local)
    BY <2>6 DEF Source
  <2> QED
    BY <1>1, <2>1, <2>2, <2>7, <2>8, <2>9 DEF Begins, Busy
<1>5. ASSUME NEW f \in Devices, NEW g \in Servers, Deliver(f, g) PROVE Begins("ais", f, g)
  <2>1. PICK s \in States : /\ actual' = [actual EXCEPT ![f][g] = s]
                            /\ ev' = [ev EXCEPT !["ais"] = [key |-> ChangeKey(f, g), state |-> s]]
    BY <1>5, DeviceStateConstants DEF Deliver
  <2>2. /\ UNCHANGED <<enabled, cache, events, devstate_change_q, state_changes, next>>
        /\ enabled /\ g # Local /\ at["ais"] = "idle" /\ at' = [at EXCEPT !["ais"] = "remove"]
    BY <1>5 DEF Deliver, unchangedReaders, unchangedHint
  <2>3. /\ actual'[f][g] = s
        /\ \A d \in Devices, e \in Servers : d # f \/ e # g => actual'[d][e] = actual[d][e]
    BY <1>1, <2>1
  <2>4. \A d \in Devices : at'[d] = at[d]
    BY <1>1, <2>2
  <2>5. AskedFor'
    BY <1>1, <2>2, <2>4 DEF AskedFor, In, Sound
  <2>6. \A d \in Devices, e \in Servers : Pending(d, e) => Pending(d, e)'
    BY <2>2, <2>4 DEF Pending, In
  <2>7. ChangeKey(f, g) = SourceKey(f, g) /\ "ais" = Source(f, g)
    BY <2>2 DEF SourceKey, Source
  <2> QED
    BY <1>1, <2>1, <2>2, <2>3, <2>5, <2>6, <2>7 DEF Begins, Busy
<1> QED
  BY <1>1, <1>3, <1>4, <1>5

(* Once an allocation has failed nothing is claimed. *)
LEMMA CacheStep ==
  ASSUME TypeOK, TypeOK', Side, CacheInv, [Next]_vars
  PROVE  CacheInv'
<1> SUFFICES ASSUME fails' = 0 PROVE FreshCache'
  BY DEF CacheInv
<1>1. fails \in Nat /\ Devices \subseteq Threads /\ {"change", "collector", "ais"} \subseteq Threads
  BY DeviceStateConstants DEF TypeOK, Threads
<1>2. fails = 0
  <2>1. fails' = fails \/ fails' = fails + 1
    BY DEF Next, vars, Driver, DriverChange, ChangedKnown, ChangedUnknown, ChangedNoMemory,
       DriverCompute, DriverEventFails, ChangeThread, ChangeWait, ChangeTake, ChangeCompute,
       ChangeEventFails, ChangeDone, ChangeWakesUp, Deliver, DeliverFails, Publish, Remove, Link,
       LinkFails, Queue, QueueFails, Collector, Collect, CollectFails, CollectSame, CollectChanged,
       CollectUnread, CollectEventFails, Dispatcher, DispatchState, DispatchChange, DispatchFails,
       Pbx, HintOther, HintStart, HintRead, HintReadFails, HintTell, Fail, unchangedSources
  <2> QED
    BY <1>1, <2>1
<1>3. FreshCache
  BY <1>2 DEF CacheInv
<1>4. ~Fail
  BY <1>1, <1>2 DEF Fail
<1>5. ASSUME NEW t \in Threads, Publish(t) PROVE FreshCache'
  <2>1. ~LinkFails(t) /\ ~QueueFails(t)
    BY <1>4 DEF LinkFails, QueueFails
  <2> QED
    BY <1>3, <1>5, <2>1, CacheFresh, QueueFresh DEF Publish
<1>6. ASSUME \/ UNCHANGED vars \/ Pbx \/ ChangeWait \/ ChangeTake \/ ChangeWakesUp \/ ChangeDone
             \/ \E f \in Devices : DriverChange(f) \/ ChangedUnknown(f)
      PROVE  FreshCache'
  <2>1. ~HintReadFails
    BY <1>4 DEF HintReadFails
  <2> QED
    BY <1>3, <1>6, <2>1, RestSteps, RestsFresh DEF Pbx
<1>7. ASSUME \/ ChangeCompute \/ \E f \in Devices : ChangedKnown(f)
             \/ \E f \in Devices, g \in Servers : Deliver(f, g)
      PROVE  FreshCache'
  BY <1>3, <1>7, BeginSteps, BeginsFresh
<1>8. ASSUME NEW f \in Devices,
             ChangedNoMemory(f) \/ DriverCompute(f) \/ DriverEventFails(f)
      PROVE  FreshCache'
  <2>1. at[f] # "compute"
    BY <1>3 DEF FreshCache, AskedFor
  <2> QED
    BY <1>4, <1>8, <2>1 DEF ChangedNoMemory, DriverCompute, DriverEventFails
<1>9. CASE Dispatcher
  <2>1. ~DispatchFails
    BY <1>4 DEF DispatchFails
  <2> QED
    BY <1>3, <1>9, <2>1, DispatchFresh DEF Dispatcher
<1>10. CASE Collect \/ CollectSame \/ CollectChanged
  BY <1>3, <1>10, CollectFresh, CompareFresh
<1>11. /\ ~ChangeEventFails /\ ~CollectFails /\ ~CollectUnread /\ ~CollectEventFails
       /\ \A f \in Devices, g \in Servers : ~DeliverFails(f, g)
  BY <1>4 DEF ChangeEventFails, CollectFails, CollectUnread, CollectEventFails, DeliverFails
<1> QED
  BY <1>1, <1>5, <1>6, <1>7, <1>8, <1>9, <1>10, <1>11 DEF Next, Driver, ChangeThread, Collector

(* Where nothing is on its way the cache holds what the sources say. *)
LEMMA QuietCache ==
  ASSUME TypeOK, Side, FreshCache, Quiet, NEW d \in Sound
  PROVE  LET reporting == {e \in Servers : cache[ChangeKey(d, e)] # <<>>}
             together  == Aggregate({actual[d][e] : e \in reporting})
         IN  /\ \A e \in Servers :
                  cache[ChangeKey(d, e)] # <<actual[d][e]>>
                    => cache[ChangeKey(d, e)] = <<>> /\ (enabled => actual[d][e] = Idle)
             /\ DeviceState(d) = IF reporting = {} \/ together = "UNKNOWN"
                                 THEN actual[d][Local] ELSE together
<1> DEFINE reporting == {e \in Servers : cache[ChangeKey(d, e)] # <<>>}
<1>1. d \in Devices /\ d \in Threads /\ "collector" \in Threads /\ Local \in Servers
  BY DeviceStateConstants DEF Sound, Threads
<1>2. /\ \A t \in Threads : at[t] \notin Busy \cup {"compare", "changed"}
      /\ state_changes = <<>> /\ next = <<>> /\ events = <<>> /\ devstate_change_q = <<>>
  BY DEF Quiet, Busy
<1>3. /\ \A t \in Threads : \A k : ~Works(t, k)
      /\ \A k : ~Publishing(k) /\ ~Queued(k)
      /\ ~Collecting(d) /\ ~Upcoming(d) /\ \A e : ~Pending(d, e)
  BY <1>1, <1>2 DEF Works, Publishing, Queued, Collecting, Upcoming, Pending, In
<1>4. \A e \in Servers : \/ cache[SourceKey(d, e)] = <<actual[d][e]>>
                         \/ cache[SourceKey(d, e)] = <<>> /\ actual[d][e] = Idle
  BY <1>1, <1>3, Sources DEF FreshCache, Fresh, FreshAt
<1>5. CASE ~enabled
  <2>1. \A e \in Servers : cache[ChangeKey(d, e)] = <<>>
    BY <1>1, <1>5 DEF Side, Alone
  <2>2. cache[StateKey(d)] = <<actual[d][Local]>> \/ cache[StateKey(d)] = <<>>
    BY <1>1, <1>4, <1>5 DEF SourceKey
  <2>3. DeviceState(d) = actual[d][Local]
    BY <2>2 DEF DeviceState
  <2>4. reporting = {}
    BY <2>1
  <2> HIDE DEF reporting
  <2> QED
    BY <1>5, <2>1, <2>3, <2>4 DEF reporting
<1>6. CASE enabled
  <2>1. \A e \in Servers : \/ cache[ChangeKey(d, e)] = <<actual[d][e]>>
                           \/ cache[ChangeKey(d, e)] = <<>> /\ actual[d][e] = Idle
    BY <1>1, <1>4, <1>6 DEF SourceKey
  <2>2. reporting = {} <=> ~Heard(d)
    BY DEF Heard
  <2>3. Collected(d) = {actual[d][e] : e \in reporting}
    <3>1. \A e \in reporting : Range(cache[ChangeKey(d, e)]) = {actual[d][e]}
      BY <2>1 DEF Range
    <3>2. \A e \in Servers \ reporting : Range(cache[ChangeKey(d, e)]) = {}
      BY DEF Range
    <3>3. \A x : x \in Collected(d) <=> \E e \in Servers : x \in Range(cache[ChangeKey(d, e)])
      BY DEF Collected
    <3>4. \A e \in reporting : e \in Servers
      OBVIOUS
    <3> HIDE DEF reporting
    <3>5. \A x : x \in Collected(d) <=> \E e \in reporting : x = actual[d][e]
      BY <3>1, <3>2, <3>3, <3>4
    <3> QED
      BY <3>5
  <2>4. CollectedAt(d, StateKey(d), "collector")
    BY <1>1, <1>6 DEF FreshCache, UpToDate
  <2>5. \/ cache[StateKey(d)] = <<Aggregate(Collected(d))>> /\ Heard(d)
        \/ cache[StateKey(d)] = <<>> /\ ~Heard(d)
    <3>1. cache[StateKey(d)] # <<>> => Heard(d)
      BY <1>3, <1>6 DEF FreshCache, HeardOf
    <3> QED
      BY <1>3, <2>4, <3>1 DEF CollectedAt
  <2>6. DeviceState(d) = IF ~Heard(d) \/ Aggregate(Collected(d)) = "UNKNOWN"
                         THEN actual[d][Local] ELSE Aggregate(Collected(d))
    BY <2>5 DEF DeviceState
  <2> HIDE DEF reporting
  <2>7. DeviceState(d) =
          IF reporting = {} \/ Aggregate({actual[d][e] : e \in reporting}) = "UNKNOWN"
          THEN actual[d][Local] ELSE Aggregate({actual[d][e] : e \in reporting})
    BY <2>2, <2>3, <2>6
  <2> QED
    BY <2>1, <2>7 DEF reporting
<1> QED
  BY <1>5, <1>6

(* When nothing is on its way and no allocation has failed, what is known of *)
(* a device is what its driver says (tris_device_state), and in a cluster    *)
(* the aggregate of what the servers say, if that says anything: however the *)
(* drivers, the change thread, the servers, the collector and the dispatcher *)
(* interleave, no report that has been overtaken stays in the cache. The     *)
(* device is one that its driver always reports in the same way; whatever    *)
(* its driver answers, UNKNOWN and INVALID included.                         *)
THEOREM CacheTold == Spec => []CacheFollowsDriver
<1>1. Init => TypeOK /\ Side /\ CacheInv
  BY TypeInit, SideInit, FreshInit DEF CacheInv
<1>2. TypeOK /\ Side /\ CacheInv /\ [Next]_vars => (TypeOK /\ Side /\ CacheInv)'
  BY TypeStep, SideStep, CacheStep
<1>3. TypeOK /\ Side /\ CacheInv => CacheFollowsDriver
  <2> SUFFICES ASSUME TypeOK, Side, CacheInv PROVE CacheFollowsDriver
    OBVIOUS
  <2>1. ASSUME Quiet, fails = 0, NEW d \in Devices, Single(d)
        PROVE  LET reporting == {e \in Servers : cache[ChangeKey(d, e)] # <<>>}
                   together  == Aggregate({actual[d][e] : e \in reporting})
               IN  /\ \A e \in Servers :
                        cache[ChangeKey(d, e)] # <<actual[d][e]>>
                          => cache[ChangeKey(d, e)] = <<>> /\ (enabled => actual[d][e] = Idle)
                   /\ DeviceState(d) = IF reporting = {} \/ together = "UNKNOWN"
                                       THEN actual[d][Local] ELSE together
    BY <2>1, QuietCache DEF CacheInv, Sound
  <2> QED
    BY <2>1 DEF CacheFollowsDriver
<1> QED
  BY <1>1, <1>2, <1>3, PTL DEF Spec
=============================================================================
