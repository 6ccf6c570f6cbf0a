------------------------------ MODULE Bridging ------------------------------
(***************************************************************************)
(* A bridge of the bridging core (main/bridging.c): channels join it from   *)
(* threads of their own, a thread of the bridge reads all of them           *)
(* (bridge_simple, which runs generic_thread_loop) or mixes for them        *)
(* (bridge_softmix, where each channel reads itself), and other threads     *)
(* remove, depart, suspend and swap channels and destroy the bridge.        *)
(*                                                                         *)
(* The state is protected by the lock of the bridge, but the bridge thread  *)
(* waits for its channels without it, on the very array the others change:  *)
(* whoever changes the array keeps the lock and spins until the thread has  *)
(* come back.  A step of this module is a section under the lock up to such *)
(* a spin, or from it; `lock' is the thread that is spinning (or collecting *)
(* digits) with the lock held.                                              *)
(***************************************************************************)
EXTENDS Naturals, FiniteSets

CONSTANTS Chans,        \* the channels
          Uses,         \* the ways the bridge may be used, see Use
          MaxDigits,    \* bound: digits pressed on a channel with features
          MaxCalls,     \* bound: calls of the API from other threads
          Client,       \* the thread that makes those calls
          Nobody        \* no channel, no thread

VARIABLES use,          \* how this bridge is used
          channels,     \* bridge->channels
          array,        \* bridge->array: how often each channel is in it
          state,        \* bridge_channel->state
          suspended,    \* bridge_channel->suspended
          joined,       \* the technology that has set the channel up
          pc,           \* where the thread of the channel is
          technology,   \* bridge->technology
          thread,       \* bridge->thread and where that thread is
          winner,       \* the channel tris_waitfor_n returned
          stop,         \* bridge->stop
          refresh,      \* bridge->refresh
          lock,         \* who holds the lock of the bridge between two steps
          refs,         \* references to the bridge
          digits,       \* digits still to be pressed on the channel
          hungup,       \* the channel has been hung up by its far end
          client        \* the thread that calls the API

bvars == <<channels, array, technology, thread, winner, stop, refresh, lock, refs>>
cvars == <<state, suspended, joined, pc>>
vars == <<use, bvars, cvars, digits, hungup, client>>

-----------------------------------------------------------------------------
(* enum tris_bridge_channel_state, the technologies, and what is declared.  *)

Leaves == {"END", "HANGUP", "DEPART"}
States == {"WAIT", "FEATURE", "DTMF"} \union Leaves

\* bridge_simple mixes two channels, bridge_softmix any number; both have a
\* bridge thread, and with bridge_softmix each channel's thread reads it.
Technologies == {"simple", "softmix"}
Multithreaded(t) == t = "softmix"

\* The flags of the bridge, the channels that join it, those among them with
\* feature hooks, those with the flag DISSOLVE in features of their own (as an
\* attended transfer gives the channel it has called, on a bridge without that
\* flag) and those that may hang up, whom each may swap with, and the calls
\* other threads make.
Use == [flags : SUBSET {"DISSOLVE", "SMART"},
        joins : SUBSET Chans,
        hooks : SUBSET Chans,
        drops : SUBSET Chans,
        ends : SUBSET Chans,
        swaps : [Chans -> SUBSET Chans],
        calls : SUBSET {"remove", "depart", "suspend", "destroy"}]

ASSUME BridgingConstants ==
    /\ IsFiniteSet(Chans)
    /\ Uses \subseteq Use
    /\ MaxDigits \in Nat /\ MaxCalls \in Nat
    /\ {Client, Nobody} \cap Chans = {} /\ Client # Nobody

Init == /\ use \in Uses
        /\ channels = {}
        /\ array = [c \in Chans |-> 0]
        /\ state = [c \in Chans |-> "WAIT"]
        /\ suspended = [c \in Chans |-> FALSE]
        /\ joined = [c \in Chans |-> "none"]
        /\ pc = [c \in Chans |-> "out"]
        /\ technology = "simple"
        /\ thread = "none"
        /\ winner = Nobody
        /\ stop = FALSE
        /\ refresh = FALSE
        /\ lock = Nobody
        /\ refs = 1
        /\ digits = [c \in Chans |-> IF c \in use.hooks THEN MaxDigits ELSE 0]
        /\ hungup = [c \in Chans |-> FALSE]
        /\ client = [at |-> "idle", chan |-> Nobody, calls |-> MaxCalls]

-----------------------------------------------------------------------------
(* Helpers of bridging.c.                                                   *)

\* bridge->waiting: the bridge thread is in tris_waitfor_n.
waiting == thread = "poll"

\* Mutant: the array is changed without waiting for the bridge thread.
TouchAnytime == TRUE

\* The condition a thread spins on before it touches the array.
MayTouch == ~waiting

\* Mutant: the last entry of the array is not looked at.
RemoveButLast(a, c) == [a EXCEPT ![c] = IF @ > 1 THEN @ - 1 ELSE @]

bridge_array_add(a, c) == [a EXCEPT ![c] = @ + 1]
bridge_array_remove(a, c) == [a EXCEPT ![c] = IF @ > 0 THEN @ - 1 ELSE 0]
ArrayEmpty == \A c \in Chans : array[c] = 0

\* Mutant: only the bridge thread is poked.
WakeNobody(p, S) == p

\* pthread_kill and tris_cond_signal wake the threads of the channels in S,
\* wherever they wait; a thread that is about to wait is not woken.
Wake(p, S) == [c \in Chans |-> IF c \in S /\ p[c] \in {"wait", "cond", "poll"}
                                 THEN "wake" ELSE p[c]]

\* tris_bridge_change_state for the channels in S.
tris_bridge_change_state(s, S, new) ==
    [c \in Chans |-> IF c \in S THEN new ELSE s[c]]

\* Something can be read from the channel.
Readable(c) == hungup[c] \/ digits[c] > 0

-----------------------------------------------------------------------------
(* smart_bridge_operation: with a third channel the bridge moves to         *)
(* bridge_softmix, with two it moves back.  Every channel but the one whose *)
(* join caused it leaves the old technology, joins the new one and is woken.*)

SmartTechnology(count) ==
    IF "SMART" \notin use.flags THEN technology
    ELSE IF technology = "simple" /\ count > 2 THEN "softmix"
    ELSE IF technology = "softmix" /\ count <= 2 THEN "simple"
    ELSE technology

\* Mutant: the running bridge thread is not told to refresh itself.
NoRefresh(new) == refresh

SmartRefresh(new) == refresh \/ (new # technology /\ thread # "none")

SmartMoved(new, c) == IF new = technology THEN {} ELSE channels \ {c}

-----------------------------------------------------------------------------
(* bridge_channel_join: the thread of a channel.                            *)

\* tris_bridge_join or tris_bridge_impart: the reference is taken before the
\* thread of the channel asks for the lock.
tris_bridge_join(c) ==
    /\ pc[c] = "out"
    /\ c \in use.joins
    /\ client.at # "destroyed"
    /\ refs' = refs + 1
    /\ pc' = [pc EXCEPT ![c] = "new"]
    /\ UNCHANGED <<use, channels, array, technology, thread, winner, stop,
                   refresh, lock, state, suspended, joined, digits, hungup, client>>

Enter(c) ==
    /\ pc[c] = "new"
    /\ lock = Nobody
    /\ channels' = channels \union {c}
    /\ lock' = c
    /\ pc' = [pc EXCEPT ![c] = "add"]
    /\ UNCHANGED <<use, array, technology, thread, winner, stop, refresh, refs,
                   state, suspended, joined, digits, hungup, client>>

\* Mutant: the bridge thread takes no reference of its own.
ContinueUncounted(c, p, tech, refr) ==
    /\ thread' = IF thread = "none" THEN "start" ELSE thread
    /\ stop' = (stop /\ thread # "none")
    /\ refs' = refs
    /\ pc' = [p EXCEPT ![c] = IF Multithreaded(tech) THEN "pause" ELSE "sleep"]
    /\ technology' = tech
    /\ refresh' = refr
    /\ lock' = Nobody

\* The head of the loop with state WAIT: a bridge thread is started if none is
\* running, and the lock is released for the wait of the threading model.  p
\* is the place of every thread, tech the technology after the section.
Continue(c, p, tech, refr) ==
    /\ thread' = IF thread = "none" THEN "start" ELSE thread
    /\ stop' = (stop /\ thread # "none")
    /\ refs' = IF thread = "none" THEN refs + 1 ELSE refs
    /\ pc' = [p EXCEPT ![c] = IF Multithreaded(tech) THEN "pause" ELSE "sleep"]
    /\ technology' = tech
    /\ refresh' = refr
    /\ lock' = Nobody

\* The array is changed once the bridge thread has left it alone; then the
\* channel swapped with is told to hang up, or the bridge may move to another
\* technology, and the technology sets the channel up.
Added(c) ==
    /\ pc[c] = "add"
    /\ MayTouch
    /\ array' = bridge_array_add(array, c)
    /\ \E swap \in use.swaps[c] \union {Nobody} :
         LET out == IF swap \in channels THEN {swap} ELSE {}
             new == IF swap # Nobody THEN technology
                    ELSE SmartTechnology(Cardinality(channels))
             moved == SmartMoved(new, c)
         IN  /\ state' = tris_bridge_change_state(state, out, "HANGUP")
             /\ joined' = [d \in Chans |-> IF d \in moved \union {c} THEN new ELSE joined[d]]
             /\ Continue(c, Wake(pc, out \union moved), new, SmartRefresh(new))
    /\ UNCHANGED <<use, channels, winner, suspended, digits, hungup, client>>

\* bridge_channel_join_singlethreaded: the state is looked at under the lock
\* of the channel, which tris_bridge_change_state takes before it signals.
Sleep(c) ==
    /\ pc[c] = "sleep"
    /\ pc' = [pc EXCEPT ![c] = IF state[c] = "WAIT" THEN "wait" ELSE "wake"]
    /\ UNCHANGED <<use, bvars, state, suspended, joined, digits, hungup, client>>

\* bridge_channel_join_multithreaded: wait for the channel or, when it is
\* suspended, for a signal, whatever its state is by then.
Pause(c) ==
    /\ pc[c] = "pause"
    /\ pc' = [pc EXCEPT ![c] = IF suspended[c] THEN "cond"
                               ELSE IF Readable(c) THEN "trip" ELSE "poll"]
    /\ UNCHANGED <<use, bvars, state, suspended, joined, digits, hungup, client>>

PollTrips(c) ==
    /\ pc[c] = "poll"
    /\ Readable(c)
    /\ pc' = [pc EXCEPT ![c] = "trip"]
    /\ UNCHANGED <<use, bvars, state, suspended, joined, digits, hungup, client>>

\* tris_bridge_handle_trip: what is read from a channel of the bridge may be a
\* digit a feature begins with, or tell that the channel was hung up.  s is
\* the state of every channel afterwards, d the digits left.
HandleTrip(c, s, d) ==
    \/ /\ digits[c] > 0
       /\ d = [digits EXCEPT ![c] = @ - 1]
       /\ s = [state EXCEPT ![c] = "FEATURE"]
    \/ /\ hungup[c]
       /\ d = digits
       /\ s = [state EXCEPT ![c] = "END"]
    \/ /\ ~Readable(c)
       /\ d = digits
       /\ s = state

\* bridge_check_dissolve: a channel that has ended dissolves the bridge when
\* the bridge has the flag or the channel brought it.
Dissolves(c, s) == s[c] = "END" /\ ("DISSOLVE" \in use.flags \/ c \in use.drops)

\* Who is told to hang up then.
Dissolved(c, s) == IF Dissolves(c, s)
                     THEN {d \in channels : s[d] \notin {"END", "DEPART"}} ELSE {}

\* The end of the loop: the bridge may dissolve, the technology tears the
\* channel down, and it is taken off the list.
Leave(c, s) ==
    LET out == Dissolved(c, s)
    IN  /\ state' = tris_bridge_change_state(s, out, "HANGUP")
        /\ stop' = (stop \/ Dissolves(c, s))
        /\ joined' = [joined EXCEPT ![c] = "none"]
        /\ channels' = channels \ {c}
        /\ pc' = [Wake(pc, out) EXCEPT ![c] = "remove"]
        /\ lock' = c
        /\ UNCHANGED <<technology, thread, refresh, refs>>

\* The thread of the channel has the lock again; with the multithreaded model
\* it first handles what its own wait returned.
Woken(c) ==
    /\ pc[c] \in {"wake", "trip"}
    /\ lock = Nobody
    /\ \E s \in {state, [state EXCEPT ![c] = "FEATURE"], [state EXCEPT ![c] = "END"]},
          d \in {digits, [digits EXCEPT ![c] = IF @ > 0 THEN @ - 1 ELSE 0]} :
         /\ IF pc[c] = "trip" /\ ~suspended[c] THEN HandleTrip(c, s, d)
            ELSE s = state /\ d = digits
         /\ digits' = d
         /\ \/ /\ s[c] = "WAIT"
               /\ state' = s
               /\ Continue(c, pc, technology, refresh)
               /\ UNCHANGED <<channels, suspended, joined>>
            \/ /\ s[c] \in {"FEATURE", "DTMF"}
               /\ state' = s
               /\ suspended' = [suspended EXCEPT ![c] = TRUE]
               /\ lock' = c
               /\ pc' = [pc EXCEPT ![c] = "suspend"]
               /\ UNCHANGED <<channels, technology, thread, stop, refresh, refs, joined>>
            \/ /\ s[c] \in Leaves
               /\ Leave(c, s)
               /\ UNCHANGED suspended
    /\ UNCHANGED <<use, array, winner, hungup, client>>

\* bridge_channel_suspend, for a feature or digits to play.
Suspended(c) ==
    /\ pc[c] = "suspend"
    /\ MayTouch
    /\ array' = bridge_array_remove(array, c)
    /\ pc' = [pc EXCEPT ![c] = "feature"]
    /\ UNCHANGED <<use, channels, technology, thread, winner, stop, refresh, lock,
                   refs, state, suspended, joined, digits, hungup, client>>

\* bridge_channel_feature: the digits match a hook, whose callback decides on
\* the state, or they are played to all the others.  A menu or a transfer that
\* fails goes back to WAIT, the hangup feature ends the channel, the three-way
\* feature departs it; a blind transfer that succeeds leaves the state alone,
\* with which the channel leaves as well.  To abort an attended transfer ends
\* the channel and tells another one of the bridge to hang up.
bridge_channel_feature(c) ==
    /\ pc[c] = "feature"
    /\ state[c] = "FEATURE"
    /\ \/ /\ \E s \in {"WAIT", "END", "DEPART", "FEATURE"} : state' = [state EXCEPT ![c] = s]
          /\ pc' = [pc EXCEPT ![c] = "unsuspend"]
       \/ \E d \in channels \ {c} :
             /\ state' = [tris_bridge_change_state(state, {d}, "HANGUP") EXCEPT ![c] = "END"]
             /\ pc' = [Wake(pc, {d}) EXCEPT ![c] = "unsuspend"]
       \/ LET others == channels \ {c}
          IN  /\ state' = [tris_bridge_change_state(state, others, "DTMF") EXCEPT ![c] = "WAIT"]
              /\ pc' = [Wake(pc, others) EXCEPT ![c] = "unsuspend"]
    /\ suspended' = [suspended EXCEPT ![c] = FALSE]
    /\ UNCHANGED <<use, bvars, joined, digits, hungup, client>>

\* bridge_channel_dtmf_stream: the digits are played, and the channel waits.
bridge_channel_dtmf_stream(c) ==
    /\ pc[c] = "feature"
    /\ state[c] = "DTMF"
    /\ state' = [state EXCEPT ![c] = "WAIT"]
    /\ suspended' = [suspended EXCEPT ![c] = FALSE]
    /\ pc' = [pc EXCEPT ![c] = "unsuspend"]
    /\ UNCHANGED <<use, bvars, joined, digits, hungup, client>>

\* bridge_channel_unsuspend and the test of the loop.
Unsuspended(c) ==
    /\ pc[c] = "unsuspend"
    /\ MayTouch
    /\ array' = bridge_array_add(array, c)
    /\ IF state[c] = "WAIT"
       THEN /\ Continue(c, pc, technology, refresh)
            /\ UNCHANGED <<channels, state, joined>>
       ELSE Leave(c, state)
    /\ UNCHANGED <<use, winner, suspended, digits, hungup, client>>

\* The channel is taken out of the array, the bridge may move to another
\* technology, and the reference of the channel is dropped.
Removed(c) ==
    /\ pc[c] = "remove"
    /\ MayTouch
    /\ array' = bridge_array_remove(array, c)
    /\ LET new == SmartTechnology(Cardinality(channels))
           moved == SmartMoved(new, c)
       IN  /\ technology' = new
           /\ refresh' = SmartRefresh(new)
           /\ joined' = [d \in Chans |-> IF d \in moved THEN new ELSE joined[d]]
           /\ pc' = [Wake(pc, moved) EXCEPT ![c] = "gone"]
    /\ lock' = Nobody
    /\ refs' = refs - 1
    /\ UNCHANGED <<use, channels, thread, winner, stop, state, suspended, digits,
                   hungup, client>>

-----------------------------------------------------------------------------
(* bridge_thread with generic_thread_loop or softmix_bridge_thread.         *)

\* The tests of the two loops, with the lock held: the thread ends, goes on
\* with the function it is in, or takes the one of the technology the bridge
\* has moved to.  softmix_bridge_thread pokes every channel in each round.
Loop(function, p) ==
    LET next == IF refresh THEN technology ELSE function
    IN  IF stop \/ ArrayEmpty
        THEN /\ thread' = "none"
             /\ refs' = refs - 1
             /\ pc' = p
             /\ UNCHANGED refresh
        ELSE /\ thread' = IF next = "softmix" THEN "mix" ELSE "poll"
             /\ refresh' = FALSE
             /\ pc' = IF next = "softmix"
                        THEN [c \in Chans |-> IF c \in channels /\ p[c] = "poll" THEN "wake" ELSE p[c]]
                        ELSE p
             /\ UNCHANGED refs

ThreadStarts ==
    /\ thread = "start"
    /\ lock = Nobody
    /\ Loop(technology, pc)
    /\ UNCHANGED <<use, channels, array, technology, winner, stop, lock, state,
                   suspended, joined, digits, hungup, client>>

\* tris_waitfor_n returns a channel, or none when somebody who spins on the
\* array has poked the thread; waiting is reset before the lock is asked for.
WaitReturns ==
    /\ thread = "poll"
    /\ \/ \E c \in Chans : array[c] > 0 /\ Readable(c) /\ winner' = c
       \/ lock # Nobody /\ winner' = Nobody
    /\ thread' = "trip"
    /\ UNCHANGED <<use, channels, array, technology, stop, refresh, lock, refs,
                   cvars, digits, hungup, client>>

\* The channel is looked for again: it may have left since.
Found(c) == c \in channels

ThreadTrips ==
    /\ thread = "trip"
    /\ lock = Nobody
    /\ IF Found(winner)
       THEN /\ HandleTrip(winner, state', digits')
            /\ Loop("simple", IF state' = state THEN pc ELSE Wake(pc, {winner}))
       ELSE /\ Loop("simple", pc)
            /\ UNCHANGED <<state, digits>>
    /\ winner' = Nobody
    /\ UNCHANGED <<use, channels, array, technology, stop, lock, suspended, joined,
                   hungup, client>>

\* The timer of bridge_softmix has ticked.
ThreadTicks ==
    /\ thread = "mix"
    /\ lock = Nobody
    /\ Loop("softmix", pc)
    /\ UNCHANGED <<use, channels, array, technology, winner, stop, lock, state,
                   suspended, joined, digits, hungup, client>>

-----------------------------------------------------------------------------
(* Calls of other threads, and the far ends of the channels.                *)

Tell(S, new) == /\ state' = tris_bridge_change_state(state, S, new)
                /\ pc' = Wake(pc, S)
                /\ UNCHANGED <<suspended, joined>>

\* A thread that may call: the bridge is not destroyed, its lock is free.
Calls(call) == /\ call \in use.calls
               /\ client.at = "idle"
               /\ client.calls > 0
               /\ lock = Nobody

Called == client' = [client EXCEPT !.calls = @ - 1]

tris_bridge_remove(c) ==
    /\ Calls("remove")
    /\ c \in channels
    /\ Tell({c}, "HANGUP")
    /\ Called
    /\ UNCHANGED <<use, bvars, digits, hungup>>

\* tris_bridge_depart then waits for the thread of the channel to end.
tris_bridge_depart(c) ==
    /\ Calls("depart")
    /\ c \in channels
    /\ Tell({c}, "DEPART")
    /\ Called
    /\ UNCHANGED <<use, bvars, digits, hungup>>

tris_bridge_suspend(c) ==
    /\ Calls("suspend")
    /\ c \in channels
    /\ suspended' = [suspended EXCEPT ![c] = TRUE]
    /\ client' = [at |-> "suspend", chan |-> c, calls |-> client.calls - 1]
    /\ lock' = Client
    /\ UNCHANGED <<use, channels, array, technology, thread, winner, stop, refresh,
                   refs, state, joined, pc, digits, hungup>>

SuspendDone ==
    /\ client.at = "suspend"
    /\ MayTouch
    /\ array' = bridge_array_remove(array, client.chan)
    /\ client' = [client EXCEPT !.at = "control"]
    /\ lock' = Nobody
    /\ UNCHANGED <<use, channels, technology, thread, winner, stop, refresh, refs,
                   cvars, digits, hungup>>

\* tris_bridge_unsuspend: the channel may have left in the meantime.
tris_bridge_unsuspend ==
    /\ client.at = "control"
    /\ lock = Nobody
    /\ IF client.chan \in channels
       THEN /\ suspended' = [suspended EXCEPT ![client.chan] = FALSE]
            /\ client' = [client EXCEPT !.at = "unsuspend"]
            /\ lock' = Client
       ELSE /\ client' = [client EXCEPT !.at = "idle", !.chan = Nobody]
            /\ UNCHANGED <<suspended, lock>>
    /\ UNCHANGED <<use, channels, array, technology, thread, winner, stop, refresh,
                   refs, state, joined, pc, digits, hungup>>

UnsuspendDone ==
    /\ client.at = "unsuspend"
    /\ MayTouch
    /\ array' = bridge_array_add(array, client.chan)
    /\ client' = [client EXCEPT !.at = "idle", !.chan = Nobody]
    /\ lock' = Nobody
    /\ UNCHANGED <<use, channels, technology, thread, winner, stop, refresh, refs,
                   cvars, digits, hungup>>

tris_bridge_destroy ==
    /\ Calls("destroy")
    /\ stop' = TRUE
    /\ Tell(channels, "END")
    /\ client' = [client EXCEPT !.at = "destroyed"]
    /\ refs' = refs - 1
    /\ UNCHANGED <<use, channels, array, technology, thread, winner, refresh, lock,
                   digits, hungup>>

HangsUp(c) ==
    /\ c \in channels \intersect use.ends
    /\ ~hungup[c]
    /\ hungup' = [hungup EXCEPT ![c] = TRUE]
    /\ UNCHANGED <<use, bvars, cvars, digits, client>>

-----------------------------------------------------------------------------
ChannelThread(c) ==
    \/ Enter(c) \/ Added(c) \/ Sleep(c) \/ Pause(c) \/ PollTrips(c) \/ Woken(c)
    \/ Suspended(c) \/ bridge_channel_feature(c) \/ bridge_channel_dtmf_stream(c)
    \/ Unsuspended(c) \/ Removed(c)

BridgeThread == ThreadStarts \/ WaitReturns \/ ThreadTrips \/ ThreadTicks

ClientEnds == SuspendDone \/ tris_bridge_unsuspend \/ UnsuspendDone

ClientCalls == \/ \E c \in Chans : \/ tris_bridge_remove(c)
                                   \/ tris_bridge_depart(c)
                                   \/ tris_bridge_suspend(c)
               \/ ClientEnds
               \/ tris_bridge_destroy

Next == \/ \E c \in Chans : tris_bridge_join(c) \/ ChannelThread(c) \/ HangsUp(c)
        \/ BridgeThread
        \/ ClientCalls

Spec == Init /\ [][Next]_vars

\* The threads of the channels and of the bridge run; whoever has suspended a
\* channel gives it back; nothing makes channels join or hang up.
FairSpec == /\ Spec
            /\ \A c \in Chans : WF_vars(ChannelThread(c))
            /\ WF_vars(BridgeThread)
            /\ WF_vars(ClientEnds)

-----------------------------------------------------------------------------
(* Properties.                                                              *)

\* Every field keeps to its values, and only a thread that spins or collects
\* digits holds the lock between two steps.
TypeOK ==
    /\ use \in Uses
    /\ channels \in SUBSET Chans
    /\ array \in [Chans -> Nat]
    /\ state \in [Chans -> States]
    /\ suspended \in [Chans -> BOOLEAN]
    /\ joined \in [Chans -> Technologies \union {"none"}]
    /\ pc \in [Chans -> {"out", "new", "add", "sleep", "wait", "pause", "cond", "poll",
                         "wake", "trip", "suspend", "feature", "unsuspend", "remove", "gone"}]
    /\ technology \in Technologies
    /\ thread \in {"none", "start", "poll", "trip", "mix"}
    /\ winner \in Chans \union {Nobody}
    /\ <<stop, refresh>> \in BOOLEAN \X BOOLEAN
    /\ lock \in Chans \union {Client, Nobody}
    /\ refs \in Nat
    /\ client.chan \in Chans \union {Nobody}
    /\ \A c \in Chans : lock = c <=> pc[c] \in {"add", "suspend", "feature", "unsuspend", "remove"}
    /\ lock = Client <=> client.at \in {"suspend", "unsuspend"}

\* While the lock is free the array holds each channel of the bridge that is
\* not suspended, once: a channel that has left is never waited for again, and
\* none that stays is forgotten.
ArrayExact ==
    lock = Nobody =>
        \A c \in Chans : array[c] = IF c \in channels /\ ~suspended[c] THEN 1 ELSE 0

\* While the lock is free every channel of the bridge is set up by the
\* technology the bridge has, and the bridge thread runs the function of that
\* technology or has been told to change.
TechnologyExact ==
    lock = Nobody =>
        /\ \A c \in Chans : joined[c] = IF c \in channels THEN technology ELSE "none"
        /\ thread \in {"poll", "trip"} => technology = "simple" \/ refresh
        /\ thread = "mix" => technology = "softmix" \/ refresh

\* The bridge is freed only when its thread has ended and every channel that
\* was given to it has left.
FreedUnused ==
    refs = 0 => thread = "none" /\ \A c \in Chans : pc[c] \in {"out", "gone"}

\* Nobody changes the array the bridge thread is waiting on.
FrozenWhileWaiting == [][waiting /\ waiting' => array' = array]_vars

\* The thread of the channel waits to be signalled although the technology
\* wants it to read the channel, or for the channel although it should yield
\* that to the thread of the bridge, which does not wake it.
Missed(c) == pc[c] = IF Multithreaded(technology) THEN "wait" ELSE "poll"

\* When the bridge moves to another technology every channel becomes aware of
\* it: none goes on waiting in the threading model of the old one.
MoveNoticed == \A c \in Chans : ~Missed(c)

\* The thread of the channel may wait for a signal that has come already: one
\* that has missed a move, or that waits for its channel to be taken back by
\* the bridge without a look at the state.
Sleeps(c) == Missed(c) \/ pc[c] = "cond"

\* The channel was told to leave: by a call, a swap, a feature, or a bridge that
\* dissolves; or it knows that its far end has hung up.
Told(c) == c \in channels /\ state[c] \in Leaves

\* What it was told is overwritten: a feature begins with a digit that is read
\* from it, or digits are played to it.
Overwritten(c) == state[c] \in {"FEATURE", "DTMF"}

\* The far end of the channel hangs up, on a bridge where nothing stops the
\* thread of the bridge (the flag of the bridge or of one of its channels, or
\* its destruction) and no channel is suspended by a call: either may leave a
\* channel on the bridge without a thread that reads it.
FarEndLeft(c) == /\ c \in channels
                 /\ hungup[c]
                 /\ "DISSOLVE" \notin use.flags /\ use.drops = {}
                 /\ use.calls \intersect {"suspend", "destroy"} = {}

\* A channel that is told to leave does, as tris_bridge_depart waits for, unless
\* that is overwritten or its thread sleeps through it; so does a channel whose
\* far end hangs up, which no feature or played digit prevents.
LeavesWhenTold ==
    \A c \in Chans :
        /\ Told(c) ~> c \notin channels \/ Sleeps(c) \/ Overwritten(c)
        /\ FarEndLeft(c) ~> c \notin channels \/ Sleeps(c)
=============================================================================
