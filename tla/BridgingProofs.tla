--------------------------- MODULE BridgingProofs ---------------------------
(***************************************************************************)
(* Proofs about Bridging: the bridge outlives whoever uses it, its channels *)
(* are set up by the technology it has, and its array holds them exactly,   *)
(* unless features meet calls that suspend channels.                        *)
(***************************************************************************)
EXTENDS Bridging, FiniteSetTheorems, TLAPS

Waits   == {"wait", "cond", "poll"}
Spins   == {"add", "suspend", "feature", "unsuspend", "remove"}
Away    == {"out", "new", "remove", "gone"}
Places  == {"out", "new", "sleep", "pause", "wake", "trip", "gone"} \union Waits \union Spins
Client_ == {"idle", "suspend", "control", "unsuspend", "destroyed"}

(* The types of everything but the count of references. *)
Types ==
    /\ use \in Uses
    /\ channels \in SUBSET Chans
    /\ array \in [Chans -> Nat]
    /\ state \in [Chans -> States]
    /\ suspended \in [Chans -> BOOLEAN]
    /\ joined \in [Chans -> Technologies \union {"none"}]
    /\ pc \in [Chans -> Places]
    /\ technology \in Technologies
    /\ thread \in {"none", "start", "poll", "trip", "mix"}
    /\ winner \in Chans \union {Nobody}
    /\ stop \in BOOLEAN /\ refresh \in BOOLEAN
    /\ lock \in Chans \union {Client, Nobody}
    /\ digits \in [Chans -> Nat]
    /\ client \in [at : Client_, chan : Chans \union {Nobody}, calls : Nat]

(* Who holds the lock between two steps, and which channels are listed *)
LockHeld ==
    /\ \A c \in Chans : lock = c <=> pc[c] \in Spins
    /\ lock = Client <=> client.at \in {"suspend", "unsuspend"}

Listed == \A c \in Chans : c \in channels <=> pc[c] \notin Away

Basic == Types /\ LockHeld /\ Listed

-----------------------------------------------------------------------------
(* Where the threads of the channels are after a step *)

(* A thread that waited may have been woken. *)
Same(a, b) == a = b \/ (a \in Waits /\ b = "wake")

(* The thread of c goes from a place in A to one in B, the others stay. *)
Turn(c, A, B) ==
    /\ pc' \in [Chans -> Places]
    /\ pc[c] \in A /\ pc'[c] \in B
    /\ \A d \in Chans \ {c} : Same(pc[d], pc'[d])

(* All stay. *)
Stay ==
    /\ pc' \in [Chans -> Places]
    /\ \A d \in Chans : Same(pc[d], pc'[d])

LEMMA Woke ==
    ASSUME NEW p \in [Chans -> Places], NEW S
    PROVE  /\ Wake(p, S) \in [Chans -> Places]
           /\ \A d \in Chans : Same(p[d], Wake(p, S)[d])
  BY DEF Wake, Same, Places, Waits, Spins

LEMMA Turned ==
    ASSUME pc \in [Chans -> Places], NEW c \in Chans, NEW S, NEW B \in SUBSET Places,
           NEW x \in B, pc' = [Wake(pc, S) EXCEPT ![c] = x]
    PROVE  Turn(c, {pc[c]}, B)
  <1>1. PICK q : q = Wake(pc, S)
    OBVIOUS
  <1>2. /\ q \in [Chans -> Places]
        /\ \A d \in Chans : Same(pc[d], q[d])
    BY <1>1, Woke
  <1>3. pc' = [q EXCEPT ![c] = x] /\ x \in Places
    BY <1>1
  <1> QED
    BY <1>2, <1>3 DEF Turn

LEMMA TurnedAlone ==
    ASSUME pc \in [Chans -> Places], NEW c \in Chans, NEW B \in SUBSET Places,
           NEW x \in B, pc' = [pc EXCEPT ![c] = x]
    PROVE  Turn(c, {pc[c]}, B)
  BY DEF Turn, Same

(* The places of a channel that goes on, or leaves *)
Goes == {"sleep", "pause"}

LEMMA Turns ==
    ASSUME Types, NEW c \in Chans
    PROVE  /\ tris_bridge_join(c) => Turn(c, {"out"}, {"new"})
           /\ Enter(c) => Turn(c, {"new"}, {"add"})
           /\ Added(c) => Turn(c, {"add"}, Goes)
           /\ Sleep(c) => Turn(c, {"sleep"}, {"wait", "wake"})
           /\ Pause(c) => Turn(c, {"pause"}, {"cond", "trip", "poll"})
           /\ PollTrips(c) => Turn(c, {"poll"}, {"trip"})
           /\ Suspended(c) => Turn(c, {"suspend"}, {"feature"})
           /\ bridge_channel_feature(c) => Turn(c, {"feature"}, {"unsuspend"})
           /\ bridge_channel_dtmf_stream(c) => Turn(c, {"feature"}, {"unsuspend"})
           /\ Removed(c) => Turn(c, {"remove"}, {"gone"})
  <1> USE DEF Places, Waits, Spins, Goes
  <1>0. pc \in [Chans -> Places]
    BY DEF Types
  <1>1. tris_bridge_join(c) => Turn(c, {"out"}, {"new"})
    BY <1>0, TurnedAlone DEF tris_bridge_join
  <1>2. Enter(c) => Turn(c, {"new"}, {"add"})
    BY <1>0, TurnedAlone DEF Enter
  <1>3. ASSUME Added(c) PROVE Turn(c, {"add"}, Goes)
    <2>1. \E S : \E x \in Goes : pc' = [Wake(pc, S) EXCEPT ![c] = x]
      BY <1>3 DEF Added, Continue
    <2> QED
      BY <1>0, <1>3, <2>1, Turned DEF Added
  <1>4. ASSUME Sleep(c) PROVE Turn(c, {"sleep"}, {"wait", "wake"})
    <2>1. \E x \in {"wait", "wake"} : pc' = [pc EXCEPT ![c] = x]
      BY <1>4 DEF Sleep
    <2> QED
      BY <1>0, <1>4, <2>1, TurnedAlone DEF Sleep
  <1>5. ASSUME Pause(c) PROVE Turn(c, {"pause"}, {"cond", "trip", "poll"})
    <2>1. \E x \in {"cond", "trip", "poll"} : pc' = [pc EXCEPT ![c] = x]
      BY <1>5 DEF Pause
    <2> QED
      BY <1>0, <1>5, <2>1, TurnedAlone DEF Pause
  <1>6. PollTrips(c) => Turn(c, {"poll"}, {"trip"})
    BY <1>0, TurnedAlone DEF PollTrips
  <1>7. Suspended(c) => Turn(c, {"suspend"}, {"feature"})
    BY <1>0, TurnedAlone DEF Suspended
  <1>8. ASSUME bridge_channel_feature(c) PROVE Turn(c, {"feature"}, {"unsuspend"})
    <2>1. \/ pc' = [pc EXCEPT ![c] = "unsuspend"]
          \/ \E S : pc' = [Wake(pc, S) EXCEPT ![c] = "unsuspend"]
      BY <1>8 DEF bridge_channel_feature
    <2> QED
      BY <1>0, <1>8, <2>1, Turned, TurnedAlone DEF bridge_channel_feature
  <1>9. bridge_channel_dtmf_stream(c) => Turn(c, {"feature"}, {"unsuspend"})
    BY <1>0, TurnedAlone DEF bridge_channel_dtmf_stream
  <1>10. ASSUME Removed(c) PROVE Turn(c, {"remove"}, {"gone"})
    <2>1. \E S : pc' = [Wake(pc, S) EXCEPT ![c] = "gone"]
      BY <1>10 DEF Removed
    <2> QED
      BY <1>0, <1>10, <2>1, Turned DEF Removed
  <1> QED
    BY <1>1, <1>2, <1>3, <1>4, <1>5, <1>6, <1>7, <1>8, <1>9, <1>10

(* A channel's thread that has the lock goes on, plays or leaves. *)
GoesOn(c) ==
    /\ state'[c] = "WAIT" /\ lock' = Nobody
    /\ channels' = channels /\ technology' = technology /\ refresh' = refresh
    /\ joined' = joined
    /\ thread' = IF thread = "none" THEN "start" ELSE thread
    /\ stop' = (stop /\ thread # "none")
    /\ refs' = IF thread = "none" THEN refs + 1 ELSE refs

Plays(c) ==
    /\ state'[c] \in {"FEATURE", "DTMF"} /\ lock' = c
    /\ UNCHANGED <<channels, technology, thread, stop, refresh, refs, joined>>

Quits(c) ==
    /\ stop' \in BOOLEAN /\ lock' = c
    /\ channels' = channels \ {c}
    /\ joined' = [joined EXCEPT ![c] = "none"]
    /\ UNCHANGED <<technology, thread, refresh, refs>>

LEMMA WokenTurns ==
    ASSUME Types, NEW c \in Chans, Woken(c)
    PROVE  /\ pc[c] \in {"wake", "trip"} /\ lock = Nobody
           /\ state' \in [Chans -> States] /\ digits' \in [Chans -> Nat]
           /\ UNCHANGED <<use, array, winner, hungup, client>>
           /\ \/ /\ Turn(c, {"wake", "trip"}, Goes) /\ GoesOn(c)
                 /\ suspended' = suspended
              \/ /\ Turn(c, {"wake", "trip"}, {"suspend"}) /\ Plays(c)
                 /\ suspended' = [suspended EXCEPT ![c] = TRUE]
              \/ /\ Turn(c, {"wake", "trip"}, {"remove"}) /\ Quits(c)
                 /\ suspended' = suspended
  <1>0. pc \in [Chans -> Places] /\ state \in [Chans -> States] /\ stop \in BOOLEAN
    BY DEF Types
  <1>1. pc[c] \in {"wake", "trip"} /\ lock = Nobody
        /\ UNCHANGED <<use, array, winner, hungup, client>>
    BY DEF Woken
  <1>2. digits' \in [Chans -> Nat]
    BY DEF Woken, Types
  <1>3. PICK s \in {state, [state EXCEPT ![c] = "FEATURE"], [state EXCEPT ![c] = "END"]} :
             \/ /\ s[c] = "WAIT"
                /\ state' = s
                /\ Continue(c, pc, technology, refresh)
                /\ UNCHANGED <<channels, suspended, joined>>
             \/ /\ s[c] \in {"FEATURE", "DTMF"}
                /\ state' = s
                /\ suspended' = [suspended EXCEPT ![c] = TRUE]
                /\ lock' = c
                /\ pc' = [pc EXCEPT ![c] = "suspend"]
                /\ UNCHANGED <<channels, technology, thread, stop, refresh, refs, joined>>
             \/ /\ s[c] \in Leaves
                /\ Leave(c, s)
                /\ UNCHANGED suspended
    BY DEF Woken
  <1>4. s \in [Chans -> States]
    BY <1>0, <1>3 DEF States
  <1>5. CASE s[c] = "WAIT"
    <2>1. state' = s /\ Continue(c, pc, technology, refresh)
          /\ UNCHANGED <<channels, suspended, joined>>
      BY <1>3, <1>5 DEF Leaves
    <2>2. \E x \in Goes : pc' = [pc EXCEPT ![c] = x]
      BY <2>1 DEF Continue, Goes
    <2>3. Turn(c, {"wake", "trip"}, Goes)
      BY <1>0, <1>1, <2>2, TurnedAlone DEF Goes, Places, Turn
    <2> QED
      BY <1>1, <1>2, <1>4, <1>5, <2>1, <2>3 DEF GoesOn, Continue
  <1>6. CASE s[c] \in {"FEATURE", "DTMF"}
    <2>1. /\ state' = s /\ suspended' = [suspended EXCEPT ![c] = TRUE]
          /\ lock' = c /\ pc' = [pc EXCEPT ![c] = "suspend"]
          /\ UNCHANGED <<channels, technology, thread, stop, refresh, refs, joined>>
      BY <1>3, <1>6 DEF Leaves
    <2>2. Turn(c, {"wake", "trip"}, {"suspend"})
      BY <1>0, <1>1, <2>1, TurnedAlone DEF Places, Spins, Turn
    <2> QED
      BY <1>1, <1>2, <1>4, <1>6, <2>1, <2>2 DEF Plays
  <1>7. CASE s[c] \in Leaves
    <2>1. Leave(c, s) /\ suspended' = suspended
      BY <1>3, <1>7 DEF Leaves
    <2>4. \E S : pc' = [Wake(pc, S) EXCEPT ![c] = "remove"]
      BY <2>1 DEF Leave
    <2>5. Turn(c, {pc[c]}, {"remove"})
      BY <1>0, <2>4, Turned DEF Places, Spins
    <2>2. Turn(c, {"wake", "trip"}, {"remove"})
      BY <1>1, <2>5 DEF Turn
    <2>3. state' \in [Chans -> States]
      BY <1>4, <2>1 DEF Leave, tris_bridge_change_state, States, Leaves
    <2> QED
      BY <1>0, <1>1, <1>2, <2>1, <2>2, <2>3 DEF Quits, Leave
  <1> QED
    BY <1>4, <1>5, <1>6, <1>7 DEF States

LEMMA UnsuspendedTurns ==
    ASSUME Types, NEW c \in Chans, Unsuspended(c)
    PROVE  /\ pc[c] = "unsuspend" /\ ~waiting
           /\ array' = bridge_array_add(array, c)
           /\ state' \in [Chans -> States]
           /\ UNCHANGED <<use, winner, suspended, digits, hungup, client>>
           /\ \/ Turn(c, {"unsuspend"}, Goes) /\ GoesOn(c)
              \/ Turn(c, {"unsuspend"}, {"remove"}) /\ Quits(c)
  <1>0. pc \in [Chans -> Places] /\ state \in [Chans -> States] /\ stop \in BOOLEAN
    BY DEF Types
  <1>1. /\ pc[c] = "unsuspend" /\ ~waiting
        /\ array' = bridge_array_add(array, c)
        /\ UNCHANGED <<use, winner, suspended, digits, hungup, client>>
    BY DEF Unsuspended, MayTouch
  <1>2. CASE state[c] = "WAIT"
    <2>1. Continue(c, pc, technology, refresh) /\ UNCHANGED <<channels, state, joined>>
      BY <1>2 DEF Unsuspended
    <2>2. \E x \in Goes : pc' = [pc EXCEPT ![c] = x]
      BY <2>1 DEF Continue, Goes
    <2>3. Turn(c, {"unsuspend"}, Goes)
      BY <1>0, <1>1, <2>2, TurnedAlone DEF Goes, Places, Turn
    <2> QED
      BY <1>0, <1>1, <1>2, <2>1, <2>3 DEF GoesOn, Continue
  <1>3. CASE state[c] # "WAIT"
    <2>1. Leave(c, state)
      BY <1>3 DEF Unsuspended
    <2>4. \E S : pc' = [Wake(pc, S) EXCEPT ![c] = "remove"]
      BY <2>1 DEF Leave
    <2>5. Turn(c, {pc[c]}, {"remove"})
      BY <1>0, <2>4, Turned DEF Places, Spins
    <2>2. Turn(c, {"unsuspend"}, {"remove"})
      BY <1>1, <2>5 DEF Turn
    <2>3. state' \in [Chans -> States]
      BY <1>0, <2>1 DEF Leave, tris_bridge_change_state, States, Leaves
    <2> QED
      BY <1>0, <1>1, <2>1, <2>2, <2>3 DEF Quits, Leave
  <1> QED
    BY <1>2, <1>3

(* What the threads of the bridge and of the API do to the others *)
LEMMA Stays ==
    ASSUME Types
    PROVE  /\ BridgeThread \/ ClientCalls => Stay
           /\ \A c \in Chans : HangsUp(c) => Stay
  <1>0. pc \in [Chans -> Places]
    BY DEF Types
  <1>1. ASSUME \E S : pc' = Wake(pc, S) PROVE Stay
    BY <1>0, <1>1, Woke DEF Stay
  <1>2. ASSUME pc' = pc PROVE Stay
    BY <1>0, <1>2 DEF Stay, Same
  <1>3. ASSUME NEW p \in [Chans -> Places], \A d \in Chans : Same(pc[d], p[d]),
               NEW f, Loop(f, p)
        PROVE  Stay
    <2>1. CASE pc' = p
      BY <1>3, <2>1 DEF Stay
    <2>2. CASE pc' = [c \in Chans |-> IF c \in channels /\ p[c] = "poll" THEN "wake" ELSE p[c]]
      BY <1>3, <2>2 DEF Stay, Same, Waits, Places
    <2> QED
      BY <1>3, <2>1, <2>2 DEF Loop
  <1>4. \A f : Loop(f, pc) => Stay
    BY <1>0, <1>3 DEF Same
  <1>5. BridgeThread => Stay
    <2>1. ThreadStarts \/ ThreadTicks => Stay
      BY <1>4 DEF ThreadStarts, ThreadTicks
    <2>2. WaitReturns => Stay
      BY <1>2 DEF WaitReturns, cvars
    <2>3. ASSUME ThreadTrips PROVE Stay
      <3>1. \/ Loop("simple", pc)
            \/ \E S : Loop("simple", Wake(pc, S))
        BY <2>3 DEF ThreadTrips
      <3>2. ASSUME NEW S, Loop("simple", Wake(pc, S)) PROVE Stay
        <4>1. PICK p : p = Wake(pc, S)
          OBVIOUS
        <4> QED
          BY <1>0, <1>3, <3>2, <4>1, Woke
      <3> QED
        BY <1>4, <3>1, <3>2
    <2> QED
      BY <2>1, <2>2, <2>3 DEF BridgeThread
  <1>6. ClientCalls => Stay
    <2>1. \A c \in Chans : tris_bridge_remove(c) \/ tris_bridge_depart(c) => Stay
      BY <1>1 DEF tris_bridge_remove, tris_bridge_depart, Tell
    <2>2. tris_bridge_destroy => Stay
      BY <1>1 DEF tris_bridge_destroy, Tell
    <2>3. \A c \in Chans : tris_bridge_suspend(c) => Stay
      BY <1>2 DEF tris_bridge_suspend
    <2>4. ClientEnds => Stay
      BY <1>2 DEF ClientEnds, SuspendDone, UnsuspendDone, tris_bridge_unsuspend, cvars
    <2> QED
      BY <2>1, <2>2, <2>3, <2>4 DEF ClientCalls
  <1>7. \A c \in Chans : HangsUp(c) => Stay
    BY <1>2 DEF HangsUp, cvars
  <1> QED
    BY <1>5, <1>6, <1>7

-----------------------------------------------------------------------------
(* Types, the holder of the lock and the list of channels *)

LEMMA BasicInit == Init => Basic
  <1> SUFFICES ASSUME Init PROVE Basic
    OBVIOUS
  <1>1. MaxDigits \in Nat /\ MaxCalls \in Nat /\ Nobody \notin Chans
        /\ Client \notin Chans /\ Client # Nobody
    BY BridgingConstants
  <1>2. Types
    BY <1>1 DEF Init, Types, States, Technologies, Places, Client_
  <1>3. LockHeld /\ Listed
    BY <1>1 DEF Init, LockHeld, Listed, Spins, Away
  <1> QED
    BY <1>2, <1>3 DEF Basic

LEMMA ChannelKeepsBasic ==
    ASSUME Basic, NEW c \in Chans, tris_bridge_join(c) \/ ChannelThread(c)
    PROVE  Basic'
  <1>0. /\ Types /\ LockHeld /\ Listed
        /\ Client \notin Chans /\ Nobody \notin Chans /\ Client # Nobody
    BY BridgingConstants DEF Basic
  <1> USE DEF Places, Waits, Spins, Goes, Away, Same, Turn
  <1>1. ASSUME tris_bridge_join(c) PROVE Basic'
    <2>1. Turn(c, {"out"}, {"new"})
      BY <1>0, <1>1, Turns
    <2>2. Types' /\ UNCHANGED <<lock, channels, client>>
      BY <1>0, <1>1, <2>1 DEF tris_bridge_join, Types
    <2> QED
      BY <1>0, <2>1, <2>2 DEF Basic, LockHeld, Listed
  <1>2. ASSUME Enter(c) PROVE Basic'
    <2>1. Turn(c, {"new"}, {"add"})
      BY <1>0, <1>2, Turns
    <2>2. Types' /\ lock = Nobody /\ lock' = c /\ channels' = channels \union {c}
          /\ UNCHANGED client
      BY <1>0, <1>2, <2>1 DEF Enter, Types
    <2> QED
      BY <1>0, <2>1, <2>2 DEF Basic, LockHeld, Listed
  <1>3. ASSUME Added(c) PROVE Basic'
    <2>1. Turn(c, {"add"}, Goes)
      BY <1>0, <1>3, Turns
    <2>2. lock' = Nobody /\ UNCHANGED <<channels, client>>
      BY <1>3 DEF Added, Continue
    <2>3. state' \in [Chans -> States]
      BY <1>0, <1>3 DEF Added, tris_bridge_change_state, Types, States, Leaves
    <2>4. /\ joined' \in [Chans -> Technologies \union {"none"}]
          /\ technology' \in Technologies /\ refresh' \in BOOLEAN
          /\ stop' \in BOOLEAN /\ thread' \in {"none", "start", "poll", "trip", "mix"}
      BY <1>0, <1>3 DEF Added, Continue, SmartTechnology, SmartRefresh, Types, Technologies
    <2>5. array' \in [Chans -> Nat]
      BY <1>0, <1>3 DEF Added, bridge_array_add, Types
    <2>6. Types'
      BY <1>0, <1>3, <2>1, <2>2, <2>3, <2>4, <2>5 DEF Added, Types
    <2> QED
      BY <1>0, <2>1, <2>2, <2>6 DEF Basic, LockHeld, Listed
  <1>4. ASSUME Sleep(c) \/ Pause(c) \/ PollTrips(c) PROVE Basic'
    <2>1. Turn(c, {"sleep", "pause", "poll"}, {"wait", "wake", "cond", "trip", "poll"})
      BY <1>0, <1>4, Turns
    <2>2. Types' /\ UNCHANGED <<lock, channels, client>>
      BY <1>0, <1>4, <2>1 DEF Sleep, Pause, PollTrips, Types, bvars
    <2> QED
      BY <1>0, <2>1, <2>2 DEF Basic, LockHeld, Listed
  <1>5. ASSUME Woken(c) PROVE Basic'
    <2>0. /\ lock = Nobody /\ state' \in [Chans -> States] /\ digits' \in [Chans -> Nat]
          /\ UNCHANGED <<use, array, winner, client>>
      BY <1>0, <1>5, WokenTurns
    <2>1. CASE Turn(c, {"wake", "trip"}, Goes) /\ GoesOn(c) /\ suspended' = suspended
      <3>1. Types'
        BY <1>0, <2>0, <2>1 DEF GoesOn, Types
      <3> QED
        BY <1>0, <2>0, <2>1, <3>1 DEF GoesOn, Basic, LockHeld, Listed
    <2>2. CASE Turn(c, {"wake", "trip"}, {"suspend"}) /\ Plays(c)
               /\ suspended' = [suspended EXCEPT ![c] = TRUE]
      <3>1. Types'
        BY <1>0, <2>0, <2>2 DEF Plays, Types
      <3> QED
        BY <1>0, <2>0, <2>2, <3>1 DEF Plays, Basic, LockHeld, Listed
    <2>3. CASE Turn(c, {"wake", "trip"}, {"remove"}) /\ Quits(c) /\ suspended' = suspended
      <3>1. Types'
        BY <1>0, <2>0, <2>3 DEF Quits, Types
      <3> QED
        BY <1>0, <2>0, <2>3, <3>1 DEF Quits, Basic, LockHeld, Listed
    <2> QED
      BY <1>0, <1>5, <2>1, <2>2, <2>3, WokenTurns
  <1>6. ASSUME Suspended(c) PROVE Basic'
    <2>1. Turn(c, {"suspend"}, {"feature"})
      BY <1>0, <1>6, Turns
    <2>2. Types' /\ UNCHANGED <<lock, channels, client>>
      BY <1>0, <1>6, <2>1 DEF Suspended, bridge_array_remove, Types
    <2> QED
      BY <1>0, <2>1, <2>2 DEF Basic, LockHeld, Listed
  <1>7. ASSUME bridge_channel_feature(c) PROVE Basic'
    <2>1. Turn(c, {"feature"}, {"unsuspend"})
      BY <1>0, <1>7, Turns
    <2>2. state' \in [Chans -> States]
      <3>1. PICK t : /\ t \in [Chans -> States]
                     /\ \E s \in States : state' = [t EXCEPT ![c] = s]
        <4>1. state \in [Chans -> States]
          BY <1>0 DEF Types
        <4>2. \A S : \A x \in States : tris_bridge_change_state(state, S, x) \in [Chans -> States]
          BY <4>1 DEF tris_bridge_change_state
        <4>3. {"WAIT", "END", "DEPART", "FEATURE", "DTMF", "HANGUP"} \subseteq States
          BY DEF States, Leaves
        <4>4. /\ tris_bridge_change_state(state, channels \ {c}, "DTMF") \in [Chans -> States]
              /\ \A d : tris_bridge_change_state(state, {d}, "HANGUP") \in [Chans -> States]
          BY <4>2, <4>3
        <4> QED
          BY <1>7, <4>1, <4>3, <4>4 DEF bridge_channel_feature
      <3> QED
        BY <3>1 DEF States, Leaves
    <2>3. Types' /\ UNCHANGED <<lock, channels, client>>
      BY <1>0, <1>7, <2>1, <2>2 DEF bridge_channel_feature, bvars, Types
    <2> QED
      BY <1>0, <2>1, <2>3 DEF Basic, LockHeld, Listed
  <1>8. ASSUME bridge_channel_dtmf_stream(c) PROVE Basic'
    <2>1. Turn(c, {"feature"}, {"unsuspend"})
      BY <1>0, <1>8, Turns
    <2>2. Types' /\ UNCHANGED <<lock, channels, client>>
      BY <1>0, <1>8, <2>1 DEF bridge_channel_dtmf_stream, bvars, Types, States
    <2> QED
      BY <1>0, <2>1, <2>2 DEF Basic, LockHeld, Listed
  <1>9. ASSUME Unsuspended(c) PROVE Basic'
    <2>0. /\ state' \in [Chans -> States] /\ array' \in [Chans -> Nat]
          /\ UNCHANGED <<use, winner, suspended, digits, client>>
      BY <1>0, <1>9, UnsuspendedTurns DEF bridge_array_add, Types
    <2>1. CASE Turn(c, {"unsuspend"}, Goes) /\ GoesOn(c)
      <3>1. Types'
        BY <1>0, <2>0, <2>1 DEF GoesOn, Types
      <3> QED
        BY <1>0, <2>0, <2>1, <3>1 DEF GoesOn, Basic, LockHeld, Listed
    <2>2. CASE Turn(c, {"unsuspend"}, {"remove"}) /\ Quits(c)
      <3>1. Types'
        BY <1>0, <2>0, <2>2 DEF Quits, Types
      <3> QED
        BY <1>0, <2>0, <2>2, <3>1 DEF Quits, Basic, LockHeld, Listed
    <2> QED
      BY <1>0, <1>9, <2>1, <2>2, UnsuspendedTurns
  <1>10. ASSUME Removed(c) PROVE Basic'
    <2>1. Turn(c, {"remove"}, {"gone"})
      BY <1>0, <1>10, Turns
    <2>2. lock' = Nobody /\ UNCHANGED <<channels, client>>
      BY <1>10 DEF Removed
    <2>3. /\ joined' \in [Chans -> Technologies \union {"none"}]
          /\ technology' \in Technologies /\ refresh' \in BOOLEAN
      BY <1>0, <1>10 DEF Removed, SmartTechnology, SmartRefresh, Types, Technologies
    <2>4. array' \in [Chans -> Nat]
      BY <1>0, <1>10 DEF Removed, bridge_array_remove, Types
    <2>5. Types'
      BY <1>0, <1>10, <2>1, <2>2, <2>3, <2>4 DEF Removed, Types
    <2> QED
      BY <1>0, <2>1, <2>2, <2>5 DEF Basic, LockHeld, Listed
  <1> QED
    BY <1>1, <1>2, <1>3, <1>4, <1>5, <1>6, <1>7, <1>8, <1>9, <1>10 DEF ChannelThread

LEMMA ArrayTypes ==
    ASSUME NEW a \in [Chans -> Nat], NEW x
    PROVE  bridge_array_add(a, x) \in [Chans -> Nat] /\ bridge_array_remove(a, x) \in [Chans -> Nat]
  <1>1. CASE x \in Chans
    BY <1>1 DEF bridge_array_add, bridge_array_remove
  <1>2. CASE x \notin Chans
    <2>1. bridge_array_add(a, x) = a /\ bridge_array_remove(a, x) = a
      BY <1>2 DEF bridge_array_add, bridge_array_remove
    <2> QED
      BY <2>1
  <1> QED
    BY <1>1, <1>2

(* What one round of the bridge thread leaves *)
LEMMA LoopTypes ==
    ASSUME Types, NEW f \in Technologies, NEW p, Loop(f, p)
    PROVE  thread' \in {"none", "start", "poll", "trip", "mix"} /\ refresh' \in BOOLEAN
  BY DEF Loop, Types

LEMMA OthersKeepBasic ==
    ASSUME Basic, BridgeThread \/ ClientCalls \/ \E c \in Chans : HangsUp(c)
    PROVE  Basic'
  <1>0. /\ Types /\ LockHeld /\ Listed
        /\ Client \notin Chans /\ Nobody \notin Chans /\ Client # Nobody
    BY BridgingConstants DEF Basic
  <1>1. Stay
    BY <1>0, Stays
  <1>2. \A c \in Chans : /\ pc'[c] \in Spins <=> pc[c] \in Spins
                         /\ pc'[c] \in Away <=> pc[c] \in Away
    BY <1>1 DEF Stay, Same, Waits, Spins, Away
  <1>3. pc' \in [Chans -> Places]
    BY <1>1 DEF Stay
  <1>4. ASSUME Types', UNCHANGED <<lock, channels>>,
               client'.at \in {"suspend", "unsuspend"} <=> client.at \in {"suspend", "unsuspend"}
        PROVE  Basic'
    BY <1>0, <1>2, <1>4 DEF Basic, LockHeld, Listed
  <1>5. ASSUME ThreadStarts PROVE Basic'
    <2>1. Loop(technology, pc)
      BY <1>5 DEF ThreadStarts
    <2>2. thread' \in {"none", "start", "poll", "trip", "mix"} /\ refresh' \in BOOLEAN
      BY <1>0, <2>1, LoopTypes DEF Types
    <2>3. Types' /\ UNCHANGED <<lock, channels, client>>
      BY <1>0, <1>3, <1>5, <2>2 DEF ThreadStarts, Types
    <2> QED
      BY <1>4, <2>3
  <1>6. ASSUME WaitReturns PROVE Basic'
    <2>1. Types' /\ UNCHANGED <<lock, channels, client>>
      BY <1>0, <1>3, <1>6 DEF WaitReturns, cvars, Types
    <2> QED
      BY <1>4, <2>1
  <1>7. ASSUME ThreadTrips PROVE Basic'
    <2>1. \E p : Loop("simple", p)
      BY <1>7 DEF ThreadTrips
    <2>2. thread' \in {"none", "start", "poll", "trip", "mix"} /\ refresh' \in BOOLEAN
      BY <1>0, <2>1, LoopTypes DEF Technologies
    <2>3. state' \in [Chans -> States] /\ digits' \in [Chans -> Nat]
      <3>1. CASE Found(winner)
        BY <1>0, <1>7, <3>1 DEF ThreadTrips, HandleTrip, Found, Types, States, Leaves
      <3>2. CASE ~Found(winner)
        BY <1>0, <1>7, <3>2 DEF ThreadTrips, Types
      <3> QED
        BY <3>1, <3>2
    <2>4. Types' /\ UNCHANGED <<lock, channels, client>>
      BY <1>0, <1>3, <1>7, <2>2, <2>3 DEF ThreadTrips, Types
    <2> QED
      BY <1>4, <2>4
  <1>8. ASSUME ThreadTicks PROVE Basic'
    <2>1. Loop("softmix", pc)
      BY <1>8 DEF ThreadTicks
    <2>2. thread' \in {"none", "start", "poll", "trip", "mix"} /\ refresh' \in BOOLEAN
      BY <1>0, <2>1, LoopTypes DEF Technologies
    <2>3. Types' /\ UNCHANGED <<lock, channels, client>>
      BY <1>0, <1>3, <1>8, <2>2 DEF ThreadTicks, Types
    <2> QED
      BY <1>4, <2>3
  <1>9. ASSUME NEW c \in Chans, tris_bridge_remove(c) \/ tris_bridge_depart(c) PROVE Basic'
    <2>1. state' \in [Chans -> States]
      BY <1>0, <1>9 DEF tris_bridge_remove, tris_bridge_depart, Tell, Types,
                       tris_bridge_change_state, States, Leaves
    <2>2. client' = [client EXCEPT !.calls = @ - 1] /\ client.calls > 0
      BY <1>9 DEF tris_bridge_remove, tris_bridge_depart, Called, Calls
    <2>3. Types' /\ UNCHANGED <<lock, channels>> /\ client'.at = client.at
      BY <1>0, <1>3, <1>9, <2>1, <2>2 DEF tris_bridge_remove, tris_bridge_depart,
                                          Tell, Types, bvars
    <2> QED
      BY <1>4, <2>3
  <1>10. ASSUME NEW c \in Chans, tris_bridge_suspend(c) PROVE Basic'
    <2>1. /\ lock = Nobody /\ lock' = Client /\ channels' = channels
          /\ client' = [at |-> "suspend", chan |-> c, calls |-> client.calls - 1]
          /\ client.calls > 0
      BY <1>10 DEF tris_bridge_suspend, Calls
    <2>2. Types'
      BY <1>0, <1>3, <1>10, <2>1 DEF tris_bridge_suspend, Types, Client_
    <2> QED
      BY <1>0, <1>2, <2>1, <2>2 DEF Basic, LockHeld, Listed
  <1>11. ASSUME SuspendDone PROVE Basic'
    <2>1. array' \in [Chans -> Nat]
      BY <1>0, <1>11, ArrayTypes DEF SuspendDone, Types
    <2>2. /\ client.at = "suspend" /\ lock' = Nobody /\ channels' = channels
          /\ client' = [client EXCEPT !.at = "control"]
      BY <1>11 DEF SuspendDone
    <2>3. Types'
      BY <1>0, <1>3, <1>11, <2>1, <2>2 DEF SuspendDone, Types, Client_, cvars
    <2>4. client'.at = "control" /\ lock = Client
      BY <1>0, <2>2 DEF Types, LockHeld
    <2> QED
      BY <1>0, <1>2, <2>2, <2>3, <2>4 DEF Basic, LockHeld, Listed
  <1>12. ASSUME tris_bridge_unsuspend PROVE Basic'
    <2>1. CASE client.chan \in channels
      <3>1. /\ client.at = "control" /\ lock = Nobody /\ lock' = Client /\ channels' = channels
            /\ client' = [client EXCEPT !.at = "unsuspend"]
        BY <1>12, <2>1 DEF tris_bridge_unsuspend
      <3>2. Types'
        BY <1>0, <1>3, <1>12, <2>1, <3>1 DEF tris_bridge_unsuspend, Types, Client_
      <3>3. client'.at = "unsuspend"
        BY <1>0, <3>1 DEF Types
      <3> QED
        BY <1>0, <1>2, <3>1, <3>2, <3>3 DEF Basic, LockHeld, Listed
    <2>2. CASE client.chan \notin channels
      <3>1. /\ client.at = "control" /\ UNCHANGED <<lock, channels>>
            /\ client' = [client EXCEPT !.at = "idle", !.chan = Nobody]
        BY <1>12, <2>2 DEF tris_bridge_unsuspend
      <3>2. Types'
        BY <1>0, <1>3, <1>12, <2>2, <3>1 DEF tris_bridge_unsuspend, Types, Client_
      <3>3. client'.at = "idle"
        BY <1>0, <3>1 DEF Types
      <3> QED
        BY <1>4, <3>1, <3>2, <3>3
    <2> QED
      BY <2>1, <2>2
  <1>13. ASSUME UnsuspendDone PROVE Basic'
    <2>1. array' \in [Chans -> Nat]
      BY <1>0, <1>13, ArrayTypes DEF UnsuspendDone, Types
    <2>2. /\ client.at = "unsuspend" /\ lock' = Nobody /\ channels' = channels
          /\ client' = [client EXCEPT !.at = "idle", !.chan = Nobody]
      BY <1>13 DEF UnsuspendDone
    <2>3. Types'
      BY <1>0, <1>3, <1>13, <2>1, <2>2 DEF UnsuspendDone, Types, Client_, cvars
    <2>4. client'.at = "idle" /\ lock = Client
      BY <1>0, <2>2 DEF Types, LockHeld
    <2> QED
      BY <1>0, <1>2, <2>2, <2>3, <2>4 DEF Basic, LockHeld, Listed
  <1>14. ASSUME tris_bridge_destroy PROVE Basic'
    <2>1. state' \in [Chans -> States]
      BY <1>0, <1>14 DEF tris_bridge_destroy, Tell, Types,
                        tris_bridge_change_state, States, Leaves
    <2>2. client' = [client EXCEPT !.at = "destroyed"] /\ client.at = "idle"
      BY <1>14 DEF tris_bridge_destroy, Calls
    <2>3. Types' /\ UNCHANGED <<lock, channels>> /\ client'.at = "destroyed"
      BY <1>0, <1>3, <1>14, <2>1, <2>2 DEF tris_bridge_destroy, Tell, Types, Client_
    <2> QED
      BY <1>4, <2>2, <2>3
  <1>15. ASSUME NEW c \in Chans, HangsUp(c) PROVE Basic'
    <2>1. Types' /\ UNCHANGED <<lock, channels, client>>
      BY <1>0, <1>15 DEF HangsUp, bvars, cvars, Types
    <2> QED
      BY <1>4, <2>1
  <1> QED
    BY <1>5, <1>6, <1>7, <1>8, <1>9, <1>10, <1>11, <1>12, <1>13, <1>14, <1>15
    DEF BridgeThread, ClientCalls, ClientEnds

LEMMA BasicStep ==
    ASSUME Basic, [Next]_vars
    PROVE  Basic'
  <1>1. CASE UNCHANGED vars
    BY <1>1 DEF vars, bvars, cvars, Basic, Types, LockHeld, Listed
  <1>2. CASE Next
    BY <1>2, ChannelKeepsBasic, OthersKeepBasic DEF Next
  <1> QED
    BY <1>1, <1>2

-----------------------------------------------------------------------------
(* References: the creator of the bridge has one until it destroys the       *)
(* bridge, the bridge thread one, and each channel between join and leave.   *)

Users == {c \in Chans : pc[c] \notin {"out", "gone"}}

Created == IF client.at = "destroyed" THEN 0 ELSE 1
Running == IF thread = "none" THEN 0 ELSE 1

RefsCounted == refs = Created + Running + Cardinality(Users)

LEMMA UsersFinite == IsFiniteSet(Users) /\ Cardinality(Users) \in Nat
  BY BridgingConstants, FS_Subset, FS_CardinalityType DEF Users

LEMMA RefsInit == Init => RefsCounted
  <1> SUFFICES ASSUME Init PROVE RefsCounted
    OBVIOUS
  <1>1. Users = {}
    BY DEF Init, Users
  <1>2. Cardinality(Users) = 0
    BY <1>1, FS_EmptySet
  <1> QED
    BY <1>2 DEF Init, RefsCounted, Created, Running

(* A channel that neither comes nor goes *)
LEMMA UsersSame ==
    ASSUME Stay \/ \E c \in Chans : \E A, B :
                      Turn(c, A, B) /\ {"out", "gone"} \cap (A \union B) = {}
    PROVE  Users' = Users
  BY DEF Stay, Turn, Same, Users, Waits

LEMMA RefsStep ==
    ASSUME Basic, RefsCounted, [Next]_vars
    PROVE  RefsCounted'
  <1>0. Types
    BY DEF Basic
  <1>1. IsFiniteSet(Users) /\ Cardinality(Users) \in Nat
    BY UsersFinite
  <1>a. ASSUME Users' = Users, UNCHANGED <<refs, thread, client>> PROVE RefsCounted'
    BY <1>a DEF RefsCounted, Created, Running
  <1>b. ASSUME Users' = Users, client'.at = client.at,
               \/ /\ thread' = (IF thread = "none" THEN "start" ELSE thread)
                  /\ refs' = (IF thread = "none" THEN refs + 1 ELSE refs)
               \/ UNCHANGED <<thread, refs>>
        PROVE  RefsCounted'
    BY <1>1, <1>b DEF RefsCounted, Created, Running
  <1>c. ASSUME Users' = Users, client' = client, thread # "none",
               \/ thread' = "none" /\ refs' = refs - 1
               \/ thread' # "none" /\ refs' = refs
        PROVE  RefsCounted'
    BY <1>1, <1>c DEF RefsCounted, Created, Running
  <1>2. ASSUME NEW c \in Chans, tris_bridge_join(c) PROVE RefsCounted'
    <2>1. Turn(c, {"out"}, {"new"})
      BY <1>0, <1>2, Turns
    <2>2. Users' = Users \union {c} /\ c \notin Users
      BY <2>1 DEF Turn, Same, Users, Waits
    <2>3. Cardinality(Users') = Cardinality(Users) + 1
      BY <1>1, <2>2, FS_AddElement
    <2> QED
      BY <1>1, <1>2, <2>3 DEF tris_bridge_join, RefsCounted, Created, Running
  <1>3. ASSUME NEW c \in Chans, Enter(c) \/ Sleep(c) \/ Pause(c) \/ PollTrips(c)
                 \/ Suspended(c) \/ bridge_channel_feature(c) \/ bridge_channel_dtmf_stream(c)
        PROVE  RefsCounted'
    <2>1. Turn(c, Places \ {"out", "gone"}, Places \ {"out", "gone"})
      BY <1>0, <1>3, Turns DEF Turn, Places, Waits, Spins
    <2>2. Users' = Users
      BY <2>1, UsersSame
    <2> QED
      BY <1>a, <1>3, <2>2 DEF Enter, Sleep, Pause, PollTrips, Suspended, bvars,
         bridge_channel_feature, bridge_channel_dtmf_stream
  <1>4. ASSUME NEW c \in Chans, Added(c) PROVE RefsCounted'
    <2>1. Users' = Users
      BY <1>0, <1>4, Turns, UsersSame DEF Goes
    <2>2. /\ thread' = (IF thread = "none" THEN "start" ELSE thread)
          /\ refs' = (IF thread = "none" THEN refs + 1 ELSE refs)
          /\ client' = client
      BY <1>4 DEF Added, Continue
    <2> QED
      BY <1>b, <2>1, <2>2
  <1>5. ASSUME NEW c \in Chans, Woken(c) \/ Unsuspended(c) PROVE RefsCounted'
    <2>1. /\ client' = client
          /\ \E B \in {Goes, {"suspend"}, {"remove"}} : Turn(c, {"wake", "trip", "unsuspend"}, B)
          /\ \/ GoesOn(c) \/ Plays(c) \/ Quits(c)
      BY <1>0, <1>5, WokenTurns, UnsuspendedTurns DEF Turn
    <2>2. Users' = Users
      BY <2>1, UsersSame DEF Goes
    <2> QED
      BY <1>b, <2>1, <2>2 DEF GoesOn, Plays, Quits
  <1>6. ASSUME NEW c \in Chans, Removed(c) PROVE RefsCounted'
    <2>1. Turn(c, {"remove"}, {"gone"})
      BY <1>0, <1>6, Turns
    <2>2. Users' = Users \ {c} /\ c \in Users
      BY <2>1 DEF Turn, Same, Users, Waits
    <2>3. Cardinality(Users') = Cardinality(Users) - 1
      BY <1>1, <2>2, FS_RemoveElement
    <2> QED
      BY <1>1, <1>6, <2>3 DEF Removed, RefsCounted, Created, Running
  <1>7. ASSUME BridgeThread PROVE RefsCounted'
    <2>1. Users' = Users
      BY <1>0, <1>7, Stays, UsersSame
    <2>2. CASE WaitReturns
      BY <1>c, <2>1, <2>2 DEF WaitReturns
    <2>3. CASE \E f, p : Loop(f, p) /\ thread # "none" /\ client' = client
      BY <1>c, <2>1, <2>3 DEF Loop
    <2> QED
      BY <1>7, <2>2, <2>3 DEF BridgeThread, ThreadStarts, ThreadTrips, ThreadTicks
  <1>8. ASSUME ClientCalls, ~tris_bridge_destroy PROVE RefsCounted'
    <2>1. Users' = Users
      BY <1>0, <1>8, Stays, UsersSame
    <2>2. UNCHANGED <<thread, refs>>
      BY <1>8 DEF ClientCalls, ClientEnds, tris_bridge_remove, tris_bridge_depart, bvars,
         tris_bridge_suspend, SuspendDone, tris_bridge_unsuspend, UnsuspendDone
    <2>3. client'.at # "destroyed" /\ client.at # "destroyed"
      <3>0. client \in [at : Client_, chan : Chans \union {Nobody}, calls : Nat]
        BY <1>0 DEF Types
      <3>1. CASE \E c \in Chans : tris_bridge_remove(c) \/ tris_bridge_depart(c)
        BY <3>0, <3>1 DEF tris_bridge_remove, tris_bridge_depart, Called, Calls
      <3>2. CASE \E c \in Chans : tris_bridge_suspend(c)
        BY <3>2 DEF tris_bridge_suspend, Calls
      <3>3. CASE SuspendDone
        BY <3>0, <3>3 DEF SuspendDone
      <3>4. CASE UnsuspendDone
        BY <3>0, <3>4 DEF UnsuspendDone
      <3>5. CASE tris_bridge_unsuspend
        BY <3>0, <3>5 DEF tris_bridge_unsuspend
      <3> QED
        BY <1>8, <3>1, <3>2, <3>3, <3>4, <3>5 DEF ClientCalls, ClientEnds
    <2> QED
      BY <2>1, <2>2, <2>3 DEF RefsCounted, Created, Running
  <1>9. ASSUME tris_bridge_destroy PROVE RefsCounted'
    <2>1. Users' = Users
      BY <1>0, <1>9, Stays, UsersSame DEF ClientCalls
    <2>2. /\ client.at = "idle" /\ client'.at = "destroyed"
          /\ thread' = thread /\ refs' = refs - 1
      BY <1>0, <1>9 DEF tris_bridge_destroy, Calls, Types
    <2> QED
      BY <1>1, <2>1, <2>2 DEF RefsCounted, Created, Running
  <1>10. ASSUME NEW c \in Chans, HangsUp(c) PROVE RefsCounted'
    BY <1>a, <1>10 DEF HangsUp, bvars, cvars, Users
  <1>11. ASSUME UNCHANGED vars PROVE RefsCounted'
    BY <1>a, <1>11 DEF vars, bvars, cvars, Users
  <1> QED
    BY <1>2, <1>3, <1>4, <1>5, <1>6, <1>7, <1>8, <1>9, <1>10, <1>11 DEF Next, ChannelThread

(* The types, the holder of the lock and the count of references of a bridge *)
(* stay in their ranges (struct tris_bridge of bridging.h).                   *)
THEOREM BridgeTypesHold == Spec => []TypeOK
  <1>1. Init => Basic /\ RefsCounted
    BY BasicInit, RefsInit
  <1>2. Basic /\ RefsCounted /\ [Next]_vars => (Basic /\ RefsCounted)'
    BY BasicStep, RefsStep
  <1>3. Basic /\ RefsCounted => TypeOK
    <2> SUFFICES ASSUME Basic, RefsCounted PROVE TypeOK
      OBVIOUS
    <2>1. refs \in Nat
      BY UsersFinite DEF RefsCounted, Created, Running
    <2> QED
      BY <2>1 DEF Basic, Types, LockHeld, TypeOK, Places, Waits, Spins
  <1> QED
    BY <1>1, <1>2, <1>3, PTL DEF Spec

(* A bridge is freed only when its thread has ended and every channel that   *)
(* was given to it has left (destroy_bridge, the ao2 references of bridging). *)
THEOREM BridgeFreedUnused == Spec => []FreedUnused
  <1>1. Init => Basic /\ RefsCounted
    BY BasicInit, RefsInit
  <1>2. Basic /\ RefsCounted /\ [Next]_vars => (Basic /\ RefsCounted)'
    BY BasicStep, RefsStep
  <1>3. Basic /\ RefsCounted => FreedUnused
    <2> SUFFICES ASSUME Basic, RefsCounted, refs = 0
                 PROVE  thread = "none" /\ \A c \in Chans : pc[c] \in {"out", "gone"}
      BY DEF FreedUnused
    <2>1. Running = 0 /\ Cardinality(Users) = 0
      BY UsersFinite DEF RefsCounted, Created, Running
    <2>2. Users = {}
      BY <2>1, UsersFinite, FS_EmptySet
    <2> QED
      BY <2>1, <2>2 DEF Running, Users
  <1> QED
    BY <1>1, <1>2, <1>3, PTL DEF Spec

-----------------------------------------------------------------------------
(* The technology: it has set up the listed channels, but for one that is   *)
(* on its way in, and the bridge thread is in its function or refreshes.    *)

SetUp ==
    \A c \in Chans :
        joined[c] = IF c \in channels /\ pc[c] # "add" THEN technology ELSE "none"

InFunction ==
    /\ thread \in {"poll", "trip"} => technology = "simple" \/ refresh
    /\ thread = "mix" => technology = "softmix" \/ refresh

LEMMA TechInit == Init => SetUp /\ InFunction
  BY DEF Init, SetUp, InFunction

LEMMA TechStep ==
    ASSUME Basic, Basic', SetUp, InFunction, [Next]_vars
    PROVE  SetUp' /\ InFunction'
  <1>0. Types /\ LockHeld /\ Listed /\ Listed' /\ Types'
    BY DEF Basic
  <1>1. ASSUME UNCHANGED <<joined, channels, technology, refresh>>,
               thread' = thread \/ (thread = "none" /\ thread' = "start"),
               \A c \in Chans : c \in channels => (pc'[c] = "add" <=> pc[c] = "add")
        PROVE  SetUp' /\ InFunction'
    BY <1>1 DEF SetUp, InFunction
  <1>2. ASSUME NEW c \in Chans, tris_bridge_join(c) \/ Sleep(c) \/ Pause(c) \/ PollTrips(c)
                 \/ Suspended(c) \/ bridge_channel_feature(c) \/ bridge_channel_dtmf_stream(c)
        PROVE  SetUp' /\ InFunction'
    <2>1. Turn(c, Places \ {"add"}, Places \ {"add"})
      BY <1>0, <1>2, Turns DEF Turn, Places, Waits, Spins
    <2> QED
      BY <1>1, <1>2, <2>1 DEF tris_bridge_join, Sleep, Pause, PollTrips, Suspended, bvars,
         bridge_channel_feature, bridge_channel_dtmf_stream, Turn, Same, Waits
  <1>3. ASSUME NEW c \in Chans, Enter(c) PROVE SetUp' /\ InFunction'
    <2>1. Turn(c, {"new"}, {"add"}) /\ c \notin channels
      BY <1>0, <1>3, Turns DEF Listed, Away, Turn
    <2> QED
      BY <1>0, <1>3, <2>1 DEF Enter, SetUp, InFunction, Turn, Same, Waits, Types
  <1>4. ASSUME NEW c \in Chans, Added(c) PROVE SetUp' /\ InFunction'
    <2>1. Turn(c, {"add"}, Goes)
      BY <1>0, <1>4, Turns
    <2>a. \E new : /\ joined' = [d \in Chans |-> IF d \in SmartMoved(new, c) \union {c} THEN new ELSE joined[d]]
                   /\ technology' = new
                   /\ refresh' = SmartRefresh(new)
      BY <1>4 DEF Added, Continue
    <2>2. PICK new :
            /\ \A d \in Chans : joined'[d] =
                 IF d = c \/ (new # technology /\ d \in channels) THEN new ELSE joined[d]
            /\ technology' = new
            /\ refresh' = (refresh \/ (new # technology /\ thread # "none"))
      BY <2>a DEF SmartMoved, SmartRefresh
    <2>b. /\ thread' = IF thread = "none" THEN "start" ELSE thread
          /\ channels' = channels
      BY <1>4 DEF Added, Continue
    <2>3. \A d \in Chans \ {c} : pc[d] # "add" /\ pc'[d] # "add"
      BY <1>0, <2>1 DEF LockHeld, Spins, Turn, Same, Waits
    <2>4. c \in channels
      BY <1>0, <2>1 DEF Listed, Away, Turn
    <2>5. SetUp'
      <3> SUFFICES ASSUME NEW d \in Chans
                   PROVE  joined'[d] = IF d \in channels' /\ pc'[d] # "add" THEN technology' ELSE "none"
        BY DEF SetUp
      <3>1. CASE d = c
        BY <2>1, <2>2, <2>b, <2>4, <3>1 DEF Turn, Goes
      <3>2. CASE d # c
        BY <2>2, <2>b, <2>3, <3>2 DEF SetUp
      <3> QED
        BY <3>1, <3>2
    <2> QED
      BY <1>0, <2>2, <2>b, <2>5 DEF InFunction, Types
  <1>5. ASSUME NEW c \in Chans, Woken(c) \/ Unsuspended(c) PROVE SetUp' /\ InFunction'
    <2>1. /\ Turn(c, Places \ {"add", "new", "out", "gone"}, Places \ {"add"})
          /\ \/ GoesOn(c) \/ Plays(c)
             \/ Quits(c) /\ Turn(c, {"wake", "trip", "unsuspend"}, {"remove"})
      BY <1>0, <1>5, WokenTurns, UnsuspendedTurns DEF Turn, Goes, Places, Waits, Spins
    <2>2. CASE GoesOn(c) \/ Plays(c)
      BY <1>1, <2>1, <2>2 DEF GoesOn, Plays, Turn, Same, Waits
    <2>3. CASE Quits(c) /\ Turn(c, {"wake", "trip", "unsuspend"}, {"remove"})
      BY <1>0, <2>3 DEF Quits, SetUp, InFunction, Turn, Same, Waits, Types
    <2> QED
      BY <2>1, <2>2, <2>3
  <1>6. ASSUME NEW c \in Chans, Removed(c) PROVE SetUp' /\ InFunction'
    <2>1. Turn(c, {"remove"}, {"gone"})
      BY <1>0, <1>6, Turns
    <2>2. PICK new, moved :
            /\ moved = (IF new = technology THEN {} ELSE channels \ {c})
            /\ joined' = [d \in Chans |-> IF d \in moved THEN new ELSE joined[d]]
            /\ technology' = new
            /\ refresh' = (refresh \/ (new # technology /\ thread # "none"))
            /\ thread' = thread
            /\ channels' = channels
      BY <1>6 DEF Removed, SmartMoved, SmartRefresh
    <2>3. \A d \in Chans : pc[d] # "add" /\ pc'[d] # "add"
      BY <1>0, <2>1 DEF LockHeld, Spins, Turn, Same, Waits
    <2>4. c \notin channels
      BY <1>0, <2>1 DEF Listed, Away, Turn
    <2>5. SetUp'
      <3> SUFFICES ASSUME NEW d \in Chans
                   PROVE  joined'[d] = IF d \in channels' /\ pc'[d] # "add" THEN technology' ELSE "none"
        BY DEF SetUp
      <3> QED
        BY <2>2, <2>3, <2>4 DEF SetUp
    <2> QED
      BY <1>0, <2>2, <2>5 DEF InFunction, Types
  <1>7. ASSUME BridgeThread, ~WaitReturns PROVE SetUp' /\ InFunction'
    <2>1. Stay
      BY <1>0, <1>7, Stays
    <2>2. UNCHANGED <<joined, channels, technology>>
      BY <1>7 DEF BridgeThread, ThreadStarts, ThreadTrips, ThreadTicks
    <2>3. SetUp'
      BY <1>0, <2>1, <2>2 DEF SetUp, Stay, Same, Waits
    <2>4. \E f, p : Loop(f, p) /\ (refresh \/ f = technology)
      BY <1>7 DEF BridgeThread, ThreadStarts, ThreadTrips, ThreadTicks, InFunction
    <2> QED
      BY <1>0, <2>2, <2>3, <2>4 DEF Loop, InFunction, Types, Technologies
  <1>8. ASSUME WaitReturns PROVE SetUp' /\ InFunction'
    BY <1>8 DEF WaitReturns, SetUp, InFunction, cvars
  <1>9. ASSUME ClientCalls \/ \E c \in Chans : HangsUp(c) PROVE SetUp' /\ InFunction'
    <2>1. Stay
      BY <1>0, <1>9, Stays
    <2>2. UNCHANGED <<joined, channels, technology, refresh, thread>>
      BY <1>9 DEF ClientCalls, ClientEnds, tris_bridge_remove, tris_bridge_depart, bvars, cvars, Tell,
         tris_bridge_suspend, SuspendDone, tris_bridge_unsuspend, UnsuspendDone,
         tris_bridge_destroy, HangsUp
    <2> QED
      BY <1>1, <2>1, <2>2 DEF Stay, Same, Waits
  <1>10. ASSUME UNCHANGED vars PROVE SetUp' /\ InFunction'
    BY <1>1, <1>10 DEF vars, bvars, cvars
  <1> QED
    BY <1>2, <1>3, <1>4, <1>5, <1>6, <1>7, <1>8, <1>9, <1>10 DEF Next, ChannelThread, BridgeThread

(* While the lock is free the technology of the bridge has set up exactly    *)
(* its channels, and the bridge thread runs its function or refreshes        *)
(* (bridge_channel_join, smart_bridge_operation and bridge_thread).          *)
THEOREM BridgeTechnologyExact == Spec => []TechnologyExact
  <1>1. Init => Basic /\ SetUp /\ InFunction
    BY BasicInit, TechInit
  <1>2. Basic /\ SetUp /\ InFunction /\ [Next]_vars => (Basic /\ SetUp /\ InFunction)'
    BY BasicStep, TechStep
  <1>3. Basic /\ SetUp /\ InFunction => TechnologyExact
    <2> SUFFICES ASSUME Basic, SetUp, InFunction, lock = Nobody PROVE TechnologyExact
      BY DEF TechnologyExact
    <2>1. \A c \in Chans : pc[c] # "add"
      BY BridgingConstants DEF Basic, LockHeld, Spins
    <2> QED
      BY <2>1 DEF SetUp, InFunction, TechnologyExact
  <1> QED
    BY <1>1, <1>2, <1>3, PTL DEF Spec

(* Nobody changes the array while the bridge thread stays in tris_waitfor_n   *)
(* (the loops that poke it while bridge->waiting is set, bridging.c).         *)
THEOREM BridgeFrozenWhileWaiting == Spec => FrozenWhileWaiting
  <1>1. Next /\ waiting => array' = array
    <2> SUFFICES ASSUME Next, waiting PROVE array' = array
      OBVIOUS
    <2>1. CASE \E c \in Chans : tris_bridge_join(c) \/ HangsUp(c)
      BY <2>1 DEF tris_bridge_join, HangsUp, bvars
    <2>2. CASE \E c \in Chans : ChannelThread(c)
      BY <2>2 DEF ChannelThread, Enter, Added, Sleep, Pause, PollTrips, Woken, Suspended,
         bridge_channel_feature, bridge_channel_dtmf_stream, Unsuspended, Removed, MayTouch, bvars
    <2>3. CASE BridgeThread
      BY <2>3 DEF BridgeThread, ThreadStarts, WaitReturns, ThreadTrips, ThreadTicks
    <2>4. CASE ClientCalls
      BY <2>4 DEF ClientCalls, ClientEnds, tris_bridge_remove, tris_bridge_depart, bvars,
         tris_bridge_suspend, SuspendDone, tris_bridge_unsuspend, UnsuspendDone,
         tris_bridge_destroy, MayTouch
    <2> QED
      BY <2>1, <2>2, <2>3, <2>4 DEF Next
  <1>2. [Next]_vars => [waiting /\ waiting' => array' = array]_vars
    BY <1>1 DEF vars
  <1> QED
    BY <1>2, PTL DEF Spec, FrozenWhileWaiting

-----------------------------------------------------------------------------
(* The array.  A channel that a call has suspended must not be suspended     *)
(* for a feature as well: it would be added to the array twice.  Hence the   *)
(* assumption that such calls are not made on bridges whose channels have    *)
(* features.                                                                 *)

Apart == \A u \in Uses : "suspend" \in u.calls => u.hooks = {}

(* No channel plays or collects digits if calls suspend channels. *)
Calm ==
    "suspend" \in use.calls =>
        \A c \in Chans : /\ digits[c] = 0
                         /\ state[c] \notin {"FEATURE", "DTMF"}
                         /\ pc[c] \notin {"suspend", "feature", "unsuspend"}

(* The channel a call has suspended has been let in, and is in the bridge     *)
(* as long as the call has the lock.                                         *)
Held ==
    client.at \in {"suspend", "control", "unsuspend"} =>
        /\ "suspend" \in use.calls
        /\ client.chan \in Chans
        /\ pc[client.chan] \notin {"out", "new", "add"}
        /\ client.at # "control" => client.chan \in channels

Marked ==
    \A c \in Chans :
        /\ pc[c] \in {"out", "new"} => ~suspended[c]
        /\ c \in channels =>
             (suspended[c] <=> \/ pc[c] \in {"suspend", "feature"}
                               \/ client.at \in {"suspend", "control"} /\ client.chan = c)

Placed ==
    \A c \in Chans :
        /\ pc[c] \in {"out", "new", "gone"} => array[c] = 0
        /\ pc[c] = "remove" => array[c] \in {0, 1}
        /\ c \in channels =>
             array[c] = IF \/ pc[c] \in {"add", "feature", "unsuspend"}
                           \/ client.at \in {"control", "unsuspend"} /\ client.chan = c
                          THEN 0 ELSE 1

LEMMA ArrayInit ==
    ASSUME Apart, Init
    PROVE  Calm /\ Held /\ Marked /\ Placed
  <1>1. Calm
    BY DEF Init, Calm, Apart
  <1>2. Held /\ Marked /\ Placed
    BY DEF Init, Held, Marked, Placed
  <1> QED
    BY <1>1, <1>2

LEMMA UseConstant == ASSUME [Next]_vars PROVE use' = use
  <1>1. CASE UNCHANGED vars
    BY <1>1 DEF vars
  <1>2. CASE \E c \in Chans : tris_bridge_join(c) \/ HangsUp(c)
    BY <1>2 DEF tris_bridge_join, HangsUp
  <1>3. CASE \E c \in Chans : ChannelThread(c)
    BY <1>3 DEF ChannelThread, Enter, Added, Sleep, Pause, PollTrips, Woken, Suspended,
       bridge_channel_feature, bridge_channel_dtmf_stream, Unsuspended, Removed
  <1>4. CASE BridgeThread
    BY <1>4 DEF BridgeThread, ThreadStarts, WaitReturns, ThreadTrips, ThreadTicks
  <1>5. CASE ClientCalls
    BY <1>5 DEF ClientCalls, ClientEnds, tris_bridge_remove, tris_bridge_depart,
       tris_bridge_suspend, SuspendDone, tris_bridge_unsuspend, UnsuspendDone, tris_bridge_destroy
  <1> QED
    BY <1>1, <1>2, <1>3, <1>4, <1>5 DEF Next

LEMMA CalmStep ==
    ASSUME Basic, Calm, [Next]_vars
    PROVE  Calm'
  <1>0. Types
    BY DEF Basic
  <1>1. SUFFICES ASSUME "suspend" \in use.calls
                 PROVE  \A c \in Chans :
                          /\ digits'[c] = 0
                          /\ state'[c] \notin {"FEATURE", "DTMF"}
                          /\ pc'[c] \notin {"suspend", "feature", "unsuspend"}
    BY UseConstant DEF Calm
  <1> DEFINE Goal == \A c \in Chans :
                          /\ digits'[c] = 0
                          /\ state'[c] \notin {"FEATURE", "DTMF"}
                          /\ pc'[c] \notin {"suspend", "feature", "unsuspend"}
  <1>2. \A c \in Chans : /\ digits[c] = 0
                         /\ state[c] \notin {"FEATURE", "DTMF"}
                         /\ pc[c] \notin {"suspend", "feature", "unsuspend"}
    BY <1>1 DEF Calm
  <1>a. ASSUME digits' = digits,
               state' = state \/ \E S, new : /\ state' = tris_bridge_change_state(state, S, new)
                                             /\ new \in Leaves,
               \/ Stay
               \/ \E c \in Chans : \E A, B : /\ Turn(c, A, B)
                                             /\ {"suspend", "feature", "unsuspend"} \cap B = {}
        PROVE  Goal
    <2>1. \A c \in Chans : state'[c] \notin {"FEATURE", "DTMF"}
      BY <1>2, <1>a DEF tris_bridge_change_state, Leaves
    <2>2. \A c \in Chans : pc'[c] \notin {"suspend", "feature", "unsuspend"}
      BY <1>2, <1>a DEF Stay, Turn, Same
    <2> QED
      BY <1>2, <1>a, <2>1, <2>2
  <1>3. ASSUME NEW c \in Chans, tris_bridge_join(c) \/ Enter(c) \/ Sleep(c) \/ Pause(c)
                                \/ PollTrips(c)
        PROVE  Goal
    <2>1. \E B : /\ Turn(c, {pc[c]}, B)
                 /\ {"suspend", "feature", "unsuspend"} \cap B = {}
      <3>1. Turn(c, {pc[c]}, {"new", "add", "wait", "wake", "cond", "trip", "poll"})
        BY <1>0, <1>3, Turns DEF Turn
      <3> QED
        BY <3>1
    <2>2. digits' = digits /\ state' = state
      BY <1>3 DEF tris_bridge_join, Enter, Sleep, Pause, PollTrips
    <2> QED
      BY <1>a, <2>1, <2>2
  <1>4. ASSUME NEW c \in Chans, Added(c) PROVE Goal
    <2>1. Turn(c, {"add"}, Goes) /\ {"suspend", "feature", "unsuspend"} \cap Goes = {}
      BY <1>0, <1>4, Turns DEF Goes
    <2>2. digits' = digits /\ \E S : state' = tris_bridge_change_state(state, S, "HANGUP")
      BY <1>4 DEF Added
    <2> QED
      BY <1>a, <2>1, <2>2 DEF Leaves
  <1>5. ASSUME NEW c \in Chans, Woken(c) PROVE Goal
    <2>1. PICK s, d :
            /\ IF pc[c] = "trip" /\ ~suspended[c] THEN HandleTrip(c, s, d)
                 ELSE s = state /\ d = digits
            /\ digits' = d
            /\ \/ /\ s[c] = "WAIT"
                  /\ state' = s
                  /\ Continue(c, pc, technology, refresh)
                  /\ UNCHANGED <<channels, suspended, joined>>
               \/ /\ s[c] \in {"FEATURE", "DTMF"}
                  /\ state' = s
                  /\ suspended' = [suspended EXCEPT ![c] = TRUE]
                  /\ lock' = c
                  /\ pc' = [pc EXCEPT ![c] = "suspend"]
                  /\ UNCHANGED <<channels, technology, thread, stop, refresh, refs, joined>>
               \/ /\ s[c] \in Leaves
                  /\ Leave(c, s)
                  /\ UNCHANGED suspended
      BY <1>5 DEF Woken
    <2>2. d = digits /\ (s = state \/ s = [state EXCEPT ![c] = "END"])
      BY <1>2, <2>1 DEF HandleTrip
    <2>3. \A e \in Chans : s[e] \notin {"FEATURE", "DTMF"}
      BY <1>0, <1>2, <2>2 DEF Types
    <2>4. \A e \in Chans : state'[e] \notin {"FEATURE", "DTMF"}
      BY <2>1, <2>3 DEF Leave, tris_bridge_change_state
    <2>5. ~Plays(c)
      BY <2>4 DEF Plays
    <2>6. Turn(c, {"wake", "trip"}, {"sleep", "pause", "remove"})
      BY <1>0, <1>5, <2>5, WokenTurns DEF Turn, Goes
    <2>7. \A e \in Chans : pc'[e] \notin {"suspend", "feature", "unsuspend"}
      BY <1>2, <2>6 DEF Turn, Same
    <2> QED
      BY <1>2, <2>1, <2>2, <2>4, <2>7
  <1>6. ASSUME NEW c \in Chans, Suspended(c) \/ bridge_channel_feature(c)
                                \/ bridge_channel_dtmf_stream(c) \/ Unsuspended(c)
        PROVE  Goal
    BY <1>2, <1>6 DEF Suspended, bridge_channel_feature, bridge_channel_dtmf_stream, Unsuspended
  <1>7. ASSUME NEW c \in Chans, Removed(c) PROVE Goal
    <2>1. Turn(c, {"remove"}, {"gone"})
      BY <1>0, <1>7, Turns
    <2>2. digits' = digits /\ state' = state
      BY <1>7 DEF Removed
    <2>3. {"suspend", "feature", "unsuspend"} \cap {"gone"} = {}
      OBVIOUS
    <2> QED
      BY <1>a, <2>1, <2>2, <2>3
  <1>8. ASSUME BridgeThread PROVE Goal
    <2>1. Stay
      BY <1>0, <1>8, Stays
    <2>2. \/ digits' = digits /\ state' = state
          \/ winner \in channels /\ HandleTrip(winner, state', digits')
      BY <1>8 DEF BridgeThread, ThreadStarts, WaitReturns, ThreadTrips, ThreadTicks, cvars, Found
    <2>3. \A e \in Chans : digits'[e] = 0 /\ state'[e] \notin {"FEATURE", "DTMF"}
      <3>1. CASE digits' = digits /\ state' = state
        BY <1>2, <3>1
      <3>2. CASE winner \in channels /\ HandleTrip(winner, state', digits')
        <4>1. winner \in Chans /\ digits[winner] = 0
          BY <1>0, <1>2, <3>2 DEF Types
        <4> QED
          BY <1>0, <1>2, <3>2, <4>1 DEF HandleTrip, Types
      <3> QED
        BY <2>2, <3>1, <3>2
    <2> QED
      BY <1>2, <2>1, <2>3 DEF Stay, Same
  <1>9. ASSUME ClientCalls PROVE Goal
    <2>1. Stay
      BY <1>0, <1>9, Stays
    <2>2. CASE \E c \in Chans : tris_bridge_remove(c) \/ tris_bridge_depart(c)
      BY <1>a, <2>1, <2>2 DEF tris_bridge_remove, tris_bridge_depart, Tell, Leaves
    <2>3. CASE tris_bridge_destroy
      BY <1>a, <2>1, <2>3 DEF tris_bridge_destroy, Tell, Leaves
    <2>4. CASE ClientEnds \/ \E c \in Chans : tris_bridge_suspend(c)
      <3>1. digits' = digits /\ state' = state
        BY <2>4 DEF ClientEnds, tris_bridge_suspend, SuspendDone, tris_bridge_unsuspend,
           UnsuspendDone, cvars
      <3> QED
        BY <1>a, <2>1, <3>1
    <2> QED
      BY <1>9, <2>2, <2>3, <2>4 DEF ClientCalls
  <1>10. ASSUME (\E c \in Chans : HangsUp(c)) \/ UNCHANGED vars PROVE Goal
    <2>1. digits' = digits /\ state' = state /\ pc' = pc
      BY <1>10 DEF HangsUp, vars, cvars
    <2> QED
      BY <1>2, <2>1
  <1> QED
    BY <1>3, <1>4, <1>5, <1>6, <1>7, <1>8, <1>9, <1>10 DEF Next, ChannelThread

(* Where the thread of a channel is in the bridge without the lock *)
Inside == {"sleep", "pause", "wake", "trip"} \union Waits

ArrayInv == Held /\ Marked /\ Placed

(* Nothing of the array has changed, no channel has come in or left. *)
LEMMA ArrayUnchanged ==
    ASSUME Basic, Calm, ArrayInv,
           UNCHANGED <<use, channels, array, suspended>>,
           \/ client'.at = client.at /\ client'.chan = client.chan
           \/ {client.at, client'.at} \cap {"suspend", "control", "unsuspend"} = {},
           \A c \in Chans : pc'[c] = pc[c] \/ {pc[c], pc'[c]} \subseteq Inside
    PROVE  ArrayInv'
  <1>1. \A c \in Chans : pc'[c] = pc[c] \/
            {pc[c], pc'[c]} \cap {"out", "new", "add", "suspend", "feature", "unsuspend",
                                  "remove", "gone"} = {}
    BY DEF Inside, Waits
  <1>2. Held'
    BY <1>1 DEF ArrayInv, Held
  <1>3. Marked'
    BY <1>1 DEF ArrayInv, Marked
  <1>4. Placed'
    BY <1>1 DEF ArrayInv, Placed
  <1> QED
    BY <1>2, <1>3, <1>4 DEF ArrayInv

LEMMA ChannelKeepsArray ==
    ASSUME Basic, Basic', Calm, Calm', use' = use, ArrayInv,
           NEW c \in Chans, tris_bridge_join(c) \/ ChannelThread(c)
    PROVE  ArrayInv'
  <1>0. /\ Types /\ LockHeld /\ Listed /\ Held /\ Marked /\ Placed /\ Listed'
        /\ Client \notin Chans /\ Nobody \notin Chans /\ Client # Nobody
    BY BridgingConstants DEF Basic, ArrayInv
  <1>a. /\ array \in [Chans -> Nat] /\ suspended \in [Chans -> BOOLEAN]
        /\ channels \subseteq Chans
    BY <1>0 DEF Types
  <1>b. lock # Client => client.at \notin {"suspend", "unsuspend"}
    BY <1>0 DEF LockHeld
  <1> DEFINE Else == \A d \in Chans \ {c} : pc'[d] = pc[d] \/ {pc[d], pc'[d]} \subseteq Inside
  <1>c. \A A, B : Turn(c, A, B) => Else
    BY DEF Turn, Same, Inside
  <1> USE DEF Inside, Waits
  <1>1. ASSUME tris_bridge_join(c) PROVE ArrayInv'
    <2>1. Turn(c, {"out"}, {"new"}) /\ Else
      BY <1>0, <1>1, <1>c, Turns
    <2>2. UNCHANGED <<use, channels, array, suspended, client>>
      BY <1>1 DEF tris_bridge_join
    <2> QED
      BY <1>0, <2>1, <2>2 DEF Turn, Listed, Away, ArrayInv, Held, Marked, Placed
  <1>2. ASSUME Enter(c) PROVE ArrayInv'
    <2>1. Turn(c, {"new"}, {"add"}) /\ Else
      BY <1>0, <1>2, <1>c, Turns
    <2>2. UNCHANGED <<use, array, suspended, client>> /\ channels' = channels \union {c}
      BY <1>2 DEF Enter
    <2>3. c \notin channels
      BY <1>0, <2>1 DEF Listed, Away, Turn
    <2>4. Held'
      BY <1>0, <2>1, <2>2, <2>3 DEF Turn, Held
    <2>5. Marked'
      BY <1>0, <2>1, <2>2, <2>3 DEF Turn, Held, Marked
    <2>6. Placed'
      BY <1>0, <2>1, <2>2, <2>3 DEF Turn, Held, Placed
    <2> QED
      BY <2>4, <2>5, <2>6 DEF ArrayInv
  <1>3. ASSUME Added(c) PROVE ArrayInv'
    <2>1. Turn(c, {"add"}, Goes) /\ Else
      BY <1>0, <1>3, <1>c, Turns
    <2>2. /\ UNCHANGED <<use, channels, suspended, client>>
          /\ array' = [array EXCEPT ![c] = @ + 1]
      BY <1>3 DEF Added, bridge_array_add
    <2>3. c \in channels /\ lock = c
      BY <1>0, <2>1 DEF Listed, LockHeld, Spins, Away, Turn
    <2>4. Held'
      BY <1>0, <2>1, <2>2, <2>3 DEF Turn, Held, Goes
    <2>5. Marked'
      BY <1>0, <2>1, <2>2, <2>3 DEF Turn, Held, Marked, Goes
    <2>6. Placed'
      BY <1>0, <1>a, <2>1, <2>2, <2>3 DEF Turn, Held, Placed, Goes
    <2> QED
      BY <2>4, <2>5, <2>6 DEF ArrayInv
  <1>4. ASSUME Sleep(c) \/ Pause(c) \/ PollTrips(c) PROVE ArrayInv'
    <2>1. Turn(c, Inside, Inside) /\ Else
      <3>1. Turn(c, {"sleep", "pause", "poll"}, {"wait", "wake", "cond", "trip", "poll"})
        BY <1>0, <1>4, Turns DEF Turn
      <3> QED
        BY <1>c, <3>1 DEF Turn
    <2>2. UNCHANGED <<use, channels, array, suspended, client>>
      BY <1>4 DEF Sleep, Pause, PollTrips, bvars
    <2> QED
      BY <2>1, <2>2, ArrayUnchanged DEF Turn
  <1>5. ASSUME Woken(c) PROVE ArrayInv'
    <2>1. lock = Nobody /\ UNCHANGED <<use, array, client>>
      BY <1>0, <1>5, WokenTurns
    <2>2. CASE Turn(c, {"wake", "trip"}, Goes) /\ GoesOn(c) /\ suspended' = suspended
      <3>1. Turn(c, Inside, Inside) /\ Else /\ channels' = channels
        BY <1>c, <2>2 DEF Turn, Goes, GoesOn
      <3> QED
        BY <2>1, <2>2, <3>1, ArrayUnchanged DEF Turn
    <2>3. CASE Turn(c, {"wake", "trip"}, {"suspend"}) /\ Plays(c)
               /\ suspended' = [suspended EXCEPT ![c] = TRUE]
      <3>1. Else /\ channels' = channels
        BY <1>c, <2>3 DEF Plays
      <3>2. client.at \notin {"suspend", "control", "unsuspend"}
        BY <1>0, <2>3 DEF Calm, Held, Turn
      <3>3. Held'
        BY <2>1, <3>2 DEF Held
      <3>4. Marked'
        BY <1>0, <1>a, <2>1, <2>3, <3>1, <3>2 DEF Turn, Marked
      <3>5. Placed'
        BY <1>0, <2>1, <2>3, <3>1, <3>2 DEF Turn, Placed
      <3> QED
        BY <3>3, <3>4, <3>5 DEF ArrayInv
    <2>4. CASE Turn(c, {"wake", "trip"}, {"remove"}) /\ Quits(c) /\ suspended' = suspended
      <3>1. Else /\ channels' = channels \ {c} /\ c \in channels
        BY <1>0, <1>c, <2>4 DEF Quits, Listed, Away, Turn
      <3>2. Held'
        BY <1>0, <1>b, <2>1, <2>4, <3>1 DEF Turn, Held
      <3>3. Marked'
        BY <1>0, <2>1, <2>4, <3>1 DEF Turn, Marked
      <3>4. Placed'
        BY <1>0, <2>1, <2>4, <3>1 DEF Turn, Placed
      <3> QED
        BY <3>2, <3>3, <3>4 DEF ArrayInv
    <2> QED
      BY <1>0, <1>5, <2>2, <2>3, <2>4, WokenTurns
  <1>6. ASSUME Suspended(c) PROVE ArrayInv'
    <2>1. Turn(c, {"suspend"}, {"feature"}) /\ Else
      BY <1>0, <1>6, <1>c, Turns
    <2>2. /\ UNCHANGED <<use, channels, suspended, client>>
          /\ array' = [array EXCEPT ![c] = IF @ > 0 THEN @ - 1 ELSE 0]
      BY <1>6 DEF Suspended, bridge_array_remove
    <2>3. c \in channels /\ client.at \notin {"suspend", "control", "unsuspend"}
      BY <1>0, <2>1 DEF Listed, Away, Turn, Calm, Held
    <2>4. Held'
      BY <2>2, <2>3 DEF Held
    <2>5. Marked'
      BY <1>0, <2>1, <2>2, <2>3 DEF Turn, Marked
    <2>6. Placed'
      BY <1>0, <1>a, <2>1, <2>2, <2>3 DEF Turn, Placed
    <2> QED
      BY <2>4, <2>5, <2>6 DEF ArrayInv
  <1>7. ASSUME bridge_channel_feature(c) \/ bridge_channel_dtmf_stream(c) PROVE ArrayInv'
    <2>1. Turn(c, {"feature"}, {"unsuspend"}) /\ Else
      BY <1>0, <1>7, <1>c, Turns
    <2>2. /\ UNCHANGED <<use, channels, array, client>>
          /\ suspended' = [suspended EXCEPT ![c] = FALSE]
      BY <1>7 DEF bridge_channel_feature, bridge_channel_dtmf_stream, bvars
    <2>3. c \in channels /\ client.at \notin {"suspend", "control", "unsuspend"}
      BY <1>0, <2>1 DEF Listed, Away, Turn, Calm, Held
    <2>4. Held'
      BY <2>2, <2>3 DEF Held
    <2>5. Marked'
      BY <1>0, <1>a, <2>1, <2>2, <2>3 DEF Turn, Marked
    <2>6. Placed'
      BY <1>0, <2>1, <2>2, <2>3 DEF Turn, Placed
    <2> QED
      BY <2>4, <2>5, <2>6 DEF ArrayInv
  <1>8. ASSUME Unsuspended(c) PROVE ArrayInv'
    <2>1. /\ UNCHANGED <<use, suspended, client>>
          /\ array' = [array EXCEPT ![c] = @ + 1]
          /\ \/ Turn(c, {"unsuspend"}, Goes) /\ GoesOn(c)
             \/ Turn(c, {"unsuspend"}, {"remove"}) /\ Quits(c)
      BY <1>0, <1>8, UnsuspendedTurns DEF bridge_array_add
    <2>2. /\ pc[c] = "unsuspend" /\ Else
          /\ c \in channels /\ client.at \notin {"suspend", "control", "unsuspend"}
      BY <1>0, <1>c, <2>1 DEF Listed, Away, Turn, Calm, Held
    <2>3. Held'
      BY <2>1, <2>2 DEF Held
    <2>4. CASE Turn(c, {"unsuspend"}, Goes) /\ GoesOn(c)
      <3>1. channels' = channels
        BY <2>4 DEF GoesOn
      <3>2. Marked'
        BY <1>0, <2>1, <2>2, <2>4, <3>1 DEF Turn, Marked, Goes
      <3>3. Placed'
        BY <1>0, <1>a, <2>1, <2>2, <2>4, <3>1 DEF Turn, Placed, Goes
      <3> QED
        BY <2>3, <3>2, <3>3 DEF ArrayInv
    <2>5. CASE Turn(c, {"unsuspend"}, {"remove"}) /\ Quits(c)
      <3>1. channels' = channels \ {c}
        BY <2>5 DEF Quits
      <3>2. Marked'
        BY <1>0, <2>1, <2>2, <2>5, <3>1 DEF Turn, Marked
      <3>3. Placed'
        BY <1>0, <1>a, <2>1, <2>2, <2>5, <3>1 DEF Turn, Placed
      <3> QED
        BY <2>3, <3>2, <3>3 DEF ArrayInv
    <2> QED
      BY <2>1, <2>4, <2>5
  <1>9. ASSUME Removed(c) PROVE ArrayInv'
    <2>1. Turn(c, {"remove"}, {"gone"}) /\ Else
      BY <1>0, <1>9, <1>c, Turns
    <2>2. /\ UNCHANGED <<use, channels, suspended, client>>
          /\ array' = [array EXCEPT ![c] = IF @ > 0 THEN @ - 1 ELSE 0]
      BY <1>9 DEF Removed, bridge_array_remove
    <2>3. c \notin channels
      BY <1>0, <2>1 DEF Listed, Away, Turn
    <2>4. Held'
      BY <1>0, <2>1, <2>2, <2>3 DEF Turn, Held
    <2>5. Marked'
      BY <1>0, <2>1, <2>2, <2>3 DEF Turn, Marked
    <2>6. Placed'
      BY <1>0, <1>a, <2>1, <2>2, <2>3 DEF Turn, Placed
    <2> QED
      BY <2>4, <2>5, <2>6 DEF ArrayInv
  <1> QED
    BY <1>1, <1>2, <1>3, <1>4, <1>5, <1>6, <1>7, <1>8, <1>9 DEF ChannelThread

LEMMA OthersKeepArray ==
    ASSUME Basic, Basic', Calm, use' = use, ArrayInv,
           BridgeThread \/ ClientCalls \/ (\E c \in Chans : HangsUp(c)) \/ UNCHANGED vars
    PROVE  ArrayInv'
  <1>0. /\ Types /\ LockHeld /\ Listed /\ Held /\ Marked /\ Placed
        /\ Client \notin Chans /\ Nobody \notin Chans /\ Client # Nobody
    BY BridgingConstants DEF Basic, ArrayInv
  <1>a. /\ array \in [Chans -> Nat] /\ suspended \in [Chans -> BOOLEAN]
        /\ channels \subseteq Chans
        /\ client \in [at : Client_, chan : Chans \union {Nobody}, calls : Nat]
    BY <1>0 DEF Types
  <1>b. \A c \in Chans : pc'[c] = pc[c] \/ {pc[c], pc'[c]} \subseteq Inside
    <2>1. CASE UNCHANGED vars
      BY <2>1 DEF vars, cvars
    <2>2. CASE Stay
      BY <2>2 DEF Stay, Same, Inside, Waits
    <2> QED
      BY <1>0, <2>1, <2>2, Stays
  <1>c. ASSUME UNCHANGED <<channels, array, suspended>>,
               \/ client'.at = client.at /\ client'.chan = client.chan
               \/ {client.at, client'.at} \cap {"suspend", "control", "unsuspend"} = {}
        PROVE  ArrayInv'
    BY <1>b, <1>c, ArrayUnchanged
  <1>1. CASE BridgeThread \/ (\E c \in Chans : HangsUp(c)) \/ UNCHANGED vars
    <2>1. UNCHANGED <<channels, array, suspended, client>>
      BY <1>1 DEF BridgeThread, ThreadStarts, WaitReturns, ThreadTrips, ThreadTicks, HangsUp,
         vars, bvars, cvars
    <2> QED
      BY <1>c, <2>1
  <1>2. CASE \E c \in Chans : tris_bridge_remove(c) \/ tris_bridge_depart(c)
    <2>1. UNCHANGED <<channels, array, suspended>> /\ client' = [client EXCEPT !.calls = @ - 1]
      BY <1>2 DEF tris_bridge_remove, tris_bridge_depart, Tell, Called, bvars
    <2> QED
      BY <1>a, <1>c, <2>1
  <1>3. CASE tris_bridge_destroy
    <2>1. /\ UNCHANGED <<channels, array, suspended>> /\ client.at = "idle"
          /\ client' = [client EXCEPT !.at = "destroyed"]
      BY <1>3 DEF tris_bridge_destroy, Tell, Calls
    <2> QED
      BY <1>a, <1>c, <2>1
  <1>4. ASSUME NEW c \in Chans, tris_bridge_suspend(c) PROVE ArrayInv'
    <2>1. /\ UNCHANGED <<channels, array, pc>> /\ lock = Nobody
          /\ client.at = "idle" /\ "suspend" \in use.calls /\ c \in channels
          /\ client'.at = "suspend" /\ client'.chan = c
          /\ suspended' = [suspended EXCEPT ![c] = TRUE]
      BY <1>4 DEF tris_bridge_suspend, Calls
    <2>2. pc[c] \notin {"out", "new"} \union Spins
      BY <1>0, <2>1 DEF LockHeld, Listed, Away
    <2>3. Held'
      BY <2>1, <2>2 DEF Held, Spins
    <2>4. Marked'
      BY <1>0, <1>a, <2>1, <2>2 DEF Marked, Spins
    <2>5. Placed'
      BY <1>0, <2>1, <2>2 DEF Placed, Spins
    <2> QED
      BY <2>3, <2>4, <2>5 DEF ArrayInv
  <1>5. ASSUME SuspendDone PROVE ArrayInv'
    <2>1. /\ UNCHANGED <<channels, pc, suspended>> /\ client.at = "suspend"
          /\ client' = [client EXCEPT !.at = "control"]
          /\ array' = [array EXCEPT ![client.chan] = IF @ > 0 THEN @ - 1 ELSE 0]
      BY <1>5 DEF SuspendDone, bridge_array_remove, cvars
    <2>2. client'.at = "control" /\ client'.chan = client.chan
      BY <1>a, <2>1
    <2>3. client.chan \in channels /\ client.chan \in Chans
      BY <1>0, <2>1 DEF Held
    <2>4. lock = Client /\ pc[client.chan] \notin Spins
      BY <1>0, <2>1, <2>3 DEF LockHeld
    <2>5. Held'
      BY <1>0, <2>1, <2>2 DEF Held
    <2>6. Marked'
      BY <1>0, <2>1, <2>2 DEF Marked
    <2>7. Placed'
      BY <1>0, <1>a, <2>1, <2>2, <2>3, <2>4 DEF Placed, Spins, Listed, Away
    <2> QED
      BY <2>5, <2>6, <2>7 DEF ArrayInv
  <1>6. ASSUME tris_bridge_unsuspend PROVE ArrayInv'
    <2>1. UNCHANGED <<channels, array, pc>> /\ client.at = "control" /\ client.chan \in Chans
      BY <1>0, <1>6 DEF tris_bridge_unsuspend, Held
    <2>2. CASE client.chan \in channels
      <3>1. /\ client' = [client EXCEPT !.at = "unsuspend"]
            /\ suspended' = [suspended EXCEPT ![client.chan] = FALSE]
            /\ lock = Nobody
        BY <1>6, <2>2 DEF tris_bridge_unsuspend
      <3>2. client'.at = "unsuspend" /\ client'.chan = client.chan
        BY <1>a, <3>1
      <3>3. pc[client.chan] \notin Spins
        BY <1>0, <2>1, <3>1 DEF LockHeld
      <3>4. Held'
        BY <1>0, <2>1, <2>2, <3>2 DEF Held
      <3>5. Marked'
        BY <1>0, <1>a, <2>1, <3>1, <3>2, <3>3 DEF Marked, Spins
      <3>6. Placed'
        BY <1>0, <2>1, <3>2 DEF Placed
      <3> QED
        BY <3>4, <3>5, <3>6 DEF ArrayInv
    <2>3. CASE client.chan \notin channels
      <3>1. /\ client' = [client EXCEPT !.at = "idle", !.chan = Nobody]
            /\ suspended' = suspended
        BY <1>6, <2>3 DEF tris_bridge_unsuspend
      <3>2. client'.at = "idle"
        BY <1>a, <3>1
      <3>3. Held'
        BY <3>2 DEF Held
      <3>4. Marked'
        BY <1>0, <2>1, <2>3, <3>1, <3>2 DEF Marked
      <3>5. Placed'
        BY <1>0, <2>1, <2>3, <3>1, <3>2 DEF Placed
      <3> QED
        BY <3>3, <3>4, <3>5 DEF ArrayInv
    <2> QED
      BY <2>2, <2>3
  <1>7. ASSUME UnsuspendDone PROVE ArrayInv'
    <2>1. /\ UNCHANGED <<channels, pc, suspended>> /\ client.at = "unsuspend"
          /\ client' = [client EXCEPT !.at = "idle", !.chan = Nobody]
          /\ array' = [array EXCEPT ![client.chan] = @ + 1]
      BY <1>7 DEF UnsuspendDone, bridge_array_add, cvars
    <2>2. client'.at = "idle"
      BY <1>a, <2>1
    <2>3. client.chan \in channels /\ client.chan \in Chans
          /\ pc[client.chan] \notin {"out", "new", "add"}
      BY <1>0, <2>1 DEF Held
    <2>4. lock = Client /\ pc[client.chan] \notin Spins
      BY <1>0, <2>1, <2>3 DEF LockHeld
    <2>5. Held'
      BY <2>2 DEF Held
    <2>6. Marked'
      BY <1>0, <2>1, <2>2 DEF Marked
    <2>7. Placed'
      BY <1>0, <1>a, <2>1, <2>2, <2>3, <2>4 DEF Placed, Spins, Listed, Away
    <2> QED
      BY <2>5, <2>6, <2>7 DEF ArrayInv
  <1> QED
    BY <1>1, <1>2, <1>3, <1>4, <1>5, <1>6, <1>7 DEF ClientCalls, ClientEnds

(* While the lock is free the array the bridge thread waits on holds each    *)
(* channel of the bridge that is not suspended, once, and no other           *)
(* (bridge_array_add and bridge_array_remove, called on the way in and out,   *)
(* for a feature and by tris_bridge_suspend), if calls suspend channels only  *)
(* on bridges without features.                                              *)
THEOREM BridgeArrayExact ==
    ASSUME \A u \in Uses : "suspend" \in u.calls => u.hooks = {}
    PROVE  Spec => []ArrayExact
  <1>0. Apart
    BY DEF Apart
  <1>1. Init => Basic /\ Calm /\ ArrayInv
    BY <1>0, BasicInit, ArrayInit DEF ArrayInv
  <1>2. Basic /\ Calm /\ ArrayInv /\ [Next]_vars => (Basic /\ Calm /\ ArrayInv)'
    <2> SUFFICES ASSUME Basic, Calm, ArrayInv, [Next]_vars
                 PROVE  Basic' /\ Calm' /\ ArrayInv'
      OBVIOUS
    <2>1. Basic' /\ Calm' /\ use' = use
      BY BasicStep, CalmStep, UseConstant
    <2> QED
      BY <2>1, ChannelKeepsArray, OthersKeepArray DEF Next
  <1>3. Basic /\ ArrayInv => ArrayExact
    <2> SUFFICES ASSUME Basic, ArrayInv, lock = Nobody, NEW c \in Chans
                 PROVE  array[c] = IF c \in channels /\ ~suspended[c] THEN 1 ELSE 0
      BY DEF ArrayExact
    <2>1. pc[c] \notin Spins /\ client.at \notin {"suspend", "unsuspend"}
      BY BridgingConstants DEF Basic, LockHeld
    <2>2. CASE c \in channels
      BY <2>1, <2>2 DEF ArrayInv, Marked, Placed, Spins
    <2>3. CASE c \notin channels
      <3>1. pc[c] \in {"out", "new", "gone"}
        BY <2>1, <2>3 DEF Basic, Listed, Away, Spins
      <3> QED
        BY <2>3, <3>1 DEF ArrayInv, Placed
    <2> QED
      BY <2>2, <2>3
  <1> QED
    BY <1>1, <1>2, <1>3, PTL DEF Spec
=============================================================================
