---------------------------- MODULE AutoService ----------------------------
(***************************************************************************)
(* The autoservice of main/autoservice.c: one thread that reads the frames *)
(* of the channels whose own threads are busy elsewhere, keeps the frames  *)
(* that matter, and gives them back when the owner of the channel asks for *)
(* it again.                                                               *)
(*                                                                         *)
(* Entries (struct asent) are numbered in the order in which they enter    *)
(* aslist.  New entries go to its head, so the list is a set of numbers    *)
(* read from the greatest to the smallest.  An entry that its creator has  *)
(* not inserted yet is in the creator's local variables.                   *)
(***************************************************************************)
EXTENDS Integers, Sequences, FiniteSets, FiniteSetsExt, SequencesExt

CONSTANTS
  Chans,        \* channels
  Callers,      \* threads that call tris_autoservice_start and _stop
  Uses,         \* the pairs <<caller, channel>> that may occur
  MaxEnt,       \* bound: entries ever inserted
  MaxFrame,     \* bound: frames ever queued
  MaxNest,      \* bound: nested starts of one caller on one channel
  MaxMons,      \* MAX_AUTOMONS
  DtmfOnly,     \* channels that have TRIS_FLAG_END_DTMF_ONLY set to begin with
  StateMod,     \* as_chan_list_state wraps at this number (2^32 in C)
  MayLap,       \* whether the counter may lap a caller that polls it
  MayFail,      \* whether allocation and thread creation may fail
  NoChan        \* NULL

ASSUME ASConstants ==
  /\ IsFiniteSet(Chans)
  /\ IsFiniteSet(Callers)
  /\ Uses \subseteq Callers \X Chans
  /\ DtmfOnly \subseteq Chans
  /\ MaxEnt \in Nat
  /\ MaxFrame \in Nat
  /\ MaxNest \in Nat
  /\ MaxMons \in Nat
  /\ StateMod \in Nat /\ StateMod >= 2
  /\ MayLap \in BOOLEAN
  /\ MayFail \in BOOLEAN
  /\ NoChan \notin Chans

Ent    == 1 .. MaxEnt
NoEnt  == 0
Kinds  == {"save", "drop", "hangup"}
Frame  == [id : 0 .. MaxFrame, kind : Kinds]
Hangup == [id |-> 0, kind |-> "hangup"]   \* the thread's own hangup_frame

VARIABLES
  aslist,     \* the entries in the list
  counter,    \* as_chan_list_state
  nent,       \* entries inserted so far
  echan,      \* as->chan
  use,        \* as->use_count
  orig,       \* as->orig_end_dtmf_flag
  deferred,   \* as->deferred_frames, newest first
  freed,      \* the entries whose memory was freed
  apc,        \* where autoservice_run is; "none": asthread is NULL
  ents,       \* its array ents; mons holds their channels
  achan,      \* its variable chan
  hand,       \* its variable defer_frame
  cpc,        \* where each caller is
  cchan,      \* the channel it is called with
  cent,       \* the entry it removed
  corig,      \* orig_end_dtmf_flag of an entry not yet inserted
  csaved,     \* its local variable chan_list_state
  held,       \* starts of each caller on each channel not yet stopped
  readq,      \* chan->readq
  softhangup, \* whether chan->_softhangup is set
  dtmfonly,   \* TRIS_FLAG_END_DTMF_ONLY of each channel
  nframe,     \* frames queued so far; a frame's id is its place in this order
  sent        \* history: ids of the frames to be saved, by channel

listVars   == <<aslist, counter, nent, echan, use, orig, freed>>
threadVars == <<apc, ents, achan, hand>>
callerVars == <<cpc, cchan, cent, corig, csaved, held>>
chanVars   == <<readq, softhangup, dtmfonly, nframe, sent>>
vars == <<listVars, deferred, threadVars, callerVars, chanVars>>

TypeOK ==
  /\ aslist \in SUBSET Ent
  /\ counter \in 0 .. StateMod - 1
  /\ nent \in 0 .. MaxEnt
  /\ echan \in [Ent -> Chans \cup {NoChan}]
  /\ use \in [Ent -> Nat]
  /\ orig \in [Ent -> BOOLEAN]
  /\ deferred \in [Ent -> Seq(Frame)]
  /\ freed \in SUBSET Ent
  /\ apc \in {"none", "lock", "asleep", "awake", "wait", "read", "defer"}
  /\ ents \in SUBSET Ent
  /\ achan \in Chans \cup {NoChan}
  /\ hand \in Frame
  /\ cpc \in [Callers -> {"idle", "flag", "insert", "waiting", "restore"}]
  /\ cchan \in [Callers -> Chans \cup {NoChan}]
  /\ cent \in [Callers -> Ent \cup {NoEnt}]
  /\ corig \in [Callers -> BOOLEAN]
  /\ csaved \in [Callers -> 0 .. StateMod - 1]
  /\ held \in [Callers -> [Chans -> Nat]]
  /\ readq \in [Chans -> Seq(Frame)]
  /\ softhangup \in [Chans -> BOOLEAN]
  /\ dtmfonly \in [Chans -> BOOLEAN]
  /\ nframe \in 0 .. MaxFrame
  /\ sent \in [Chans -> SUBSET (1 .. MaxFrame)]

Init ==
  /\ aslist = {}
  /\ counter = 0
  /\ nent = 0
  /\ echan = [e \in Ent |-> NoChan]
  /\ use = [e \in Ent |-> 0]
  /\ orig = [e \in Ent |-> FALSE]
  /\ deferred = [e \in Ent |-> <<>>]
  /\ freed = {}
  /\ apc = "none"
  /\ ents = {}
  /\ achan = NoChan
  /\ hand = Hangup
  /\ cpc = [t \in Callers |-> "idle"]
  /\ cchan = [t \in Callers |-> NoChan]
  /\ cent = [t \in Callers |-> NoEnt]
  /\ corig = [t \in Callers |-> FALSE]
  /\ csaved = [t \in Callers |-> 0]
  /\ held = [t \in Callers |-> [c \in Chans |-> 0]]
  /\ readq = [c \in Chans |-> <<>>]
  /\ softhangup = [c \in Chans |-> FALSE]
  /\ dtmfonly = [c \in Chans |-> c \in DtmfOnly]
  /\ nframe = 0
  /\ sent = [c \in Chans |-> {}]

-----------------------------------------------------------------------------
(* Helpers *)

(* The first entry of S, in list order, that services channel c. *)
Listed(S, c) == {e \in S : echan[e] = c}
First(S, c)  == CHOOSE e \in Listed(S, c) : \A d \in Listed(S, c) : d <= e

(* The entries autoservice_run copies: the first MAX_AUTOMONS of those     *)
(* whose channel is not hung up.                                           *)
Snapshot ==
  LET up == {e \in aslist : ~softhangup[echan[e]]}
  IN  {e \in up : Cardinality({d \in up : d > e}) < MaxMons}

(* The last frame on the read queue is a hangup: nothing is queued. *)
HangupLast(q) == q # <<>> /\ q[Len(q)].kind = "hangup"

(* __tris_queue_frame at the tail and at the head *)
QueueTail(q, f) == IF HangupLast(q) THEN q ELSE Append(q, f)
QueueHead(q, f) == IF HangupLast(q) THEN q ELSE <<f>> \o q

(* TRIS_LIST_REMOVE_HEAD and tris_queue_frame_head until d is empty *)
RequeueReversed(q, d) == FoldLeft(QueueHead, q, Reverse(d))  \* mutant
Requeue(q, d) == FoldLeft(QueueHead, q, d)

(* TRIS_LIST_INSERT_HEAD(&ents[i]->deferred_frames, dup_f, frame_list) *)
DeferOnly(d, f)  == <<f>>  \* mutant: only the newest frame is kept
DeferFrame(d, f) == <<f>> \o d

(* as_chan_list_state++ *)
Turn(n) == (n + 1) % StateMod

CallerAt(t, pc) == cpc' = [cpc EXCEPT ![t] = pc]

Hold(t, c, n) == held' = [held EXCEPT ![t][c] = @ + n]

-----------------------------------------------------------------------------
(* tris_autoservice_start *)

(* mutant: a nested start is not counted *)
StartUncounted(t) ==
  \E c \in Chans :
    /\ cpc[t] = "idle" /\ <<t, c>> \in Uses /\ held[t][c] < MaxNest
    /\ Listed(aslist, c) # {}
    /\ Hold(t, c, 1)
    /\ UNCHANGED <<listVars, deferred, threadVars, cpc, cchan, cent, corig,
                   csaved, chanVars>>

(* An entry of the channel is in the list: count one more use. *)
StartExisting(t) ==
  \E c \in Chans :
    /\ cpc[t] = "idle" /\ <<t, c>> \in Uses /\ held[t][c] < MaxNest
    /\ Listed(aslist, c) # {}
    /\ use' = [use EXCEPT ![First(aslist, c)] = @ + 1]
    /\ Hold(t, c, 1)
    /\ UNCHANGED <<aslist, counter, nent, echan, orig, freed, deferred,
                   threadVars, cpc, cchan, cent, corig, csaved, chanVars>>

(* There is none: unlock the list and allocate an entry.  When there is no *)
(* memory the call fails and nothing changes.                              *)
StartNew(t) ==
  \E c \in Chans :
    /\ cpc[t] = "idle" /\ <<t, c>> \in Uses /\ held[t][c] < MaxNest
    /\ Listed(aslist, c) = {}
    /\ cchan' = [cchan EXCEPT ![t] = c]
    /\ CallerAt(t, "flag")
    /\ UNCHANGED <<listVars, deferred, threadVars, cent, corig, csaved, held,
                   chanVars>>

(* Under the channel's lock: remember the DTMF flag and set it. *)
StartFlag(t) ==
  /\ cpc[t] = "flag"
  /\ corig' = [corig EXCEPT ![t] = dtmfonly[cchan[t]]]
  /\ dtmfonly' = [dtmfonly EXCEPT ![cchan[t]] = TRUE]
  /\ CallerAt(t, "insert")
  /\ UNCHANGED <<listVars, deferred, threadVars, cchan, cent, csaved, held,
                 readq, softhangup, nframe, sent>>

(* Insert at the head of the list. *)
Insert(t) ==
  LET e == nent + 1 IN
  /\ nent < MaxEnt
  /\ nent' = e
  /\ aslist' = aslist \cup {e}
  /\ echan' = [echan EXCEPT ![e] = cchan[t]]
  /\ use' = [use EXCEPT ![e] = 1]
  /\ orig' = [orig EXCEPT ![e] = corig[t]]

(* tris_cond_signal when the list was empty; the thread is created when    *)
(* there is none.                                                          *)
WakeNever == apc' = IF apc = "none" THEN "lock" ELSE apc  \* mutant
Wake ==
  apc' = CASE apc = "none" -> "lock"
           [] apc = "asleep" /\ aslist = {} -> "awake"
           [] OTHER -> apc

StartInsert(t) ==
  /\ cpc[t] = "insert"
  /\ Insert(t)
  /\ Wake
  /\ Hold(t, cchan[t], 1)
  /\ CallerAt(t, "idle")
  /\ cchan' = [cchan EXCEPT ![t] = NoChan]
  /\ UNCHANGED <<counter, freed, deferred, ents, achan, hand, cent, corig,
                 csaved, chanVars>>

(* The thread cannot be created: the entry just inserted is removed again  *)
(* and freed.  TRIS_FLAG_END_DTMF_ONLY stays set.                          *)
StartFails(t) ==
  /\ MayFail
  /\ cpc[t] = "insert" /\ apc = "none"
  /\ CallerAt(t, "idle")
  /\ cchan' = [cchan EXCEPT ![t] = NoChan]
  /\ UNCHANGED <<listVars, deferred, threadVars, cent, corig, csaved, held,
                 chanVars>>

-----------------------------------------------------------------------------
(* tris_autoservice_stop *)

(* Another start of the channel is not stopped yet: only count. *)
StopNested(t) ==
  \E c \in Chans :
    LET e == First(aslist, c) IN
    /\ cpc[t] = "idle" /\ held[t][c] > 0
    /\ Listed(aslist, c) # {} /\ use[e] > 1
    /\ use' = [use EXCEPT ![e] = @ - 1]
    /\ Hold(t, c, -1)
    /\ UNCHANGED <<aslist, counter, nent, echan, orig, freed, deferred,
                   threadVars, cpc, cchan, cent, corig, csaved, chanVars>>

(* The last one: remove the entry and remember the list's state. *)
StopRemove(t) ==
  \E c \in Chans :
    LET e == First(aslist, c) IN
    /\ cpc[t] = "idle" /\ held[t][c] > 0
    /\ Listed(aslist, c) # {} /\ use[e] <= 1
    /\ use' = [use EXCEPT ![e] = 0]
    /\ aslist' = aslist \ {e}
    /\ csaved' = [csaved EXCEPT ![t] = counter]
    /\ cchan' = [cchan EXCEPT ![t] = c]
    /\ cent' = [cent EXCEPT ![t] = e]
    /\ CallerAt(t, "waiting")
    /\ UNCHANGED <<counter, nent, echan, orig, freed, deferred, threadVars,
                   corig, held, chanVars>>

(* mutant: the removed entry is taken apart at once *)
StopPollOnce(t) ==
  /\ cpc[t] = "waiting"
  /\ CallerAt(t, "restore")
  /\ UNCHANGED <<listVars, deferred, threadVars, cchan, cent, corig, csaved,
                 held, chanVars>>

(* while (chan_list_state == as_chan_list_state) usleep(1000) *)
StopPoll(t) ==
  /\ cpc[t] = "waiting"
  /\ csaved[t] # counter
  /\ CallerAt(t, "restore")
  /\ UNCHANGED <<listVars, deferred, threadVars, cchan, cent, corig, csaved,
                 held, chanVars>>

(* mutant: the DTMF flag is always cleared *)
RestoreFlagAlways(c, was) == dtmfonly' = [dtmfonly EXCEPT ![c] = FALSE]
RestoreFlag(c, was) ==
  dtmfonly' = [dtmfonly EXCEPT ![c] = IF was THEN @ ELSE FALSE]

(* Restore the flag, give the frames back and free the entry. *)
StopRestore(t) ==
  LET c == cchan[t]
      e == cent[t]
  IN  /\ cpc[t] = "restore"
      /\ RestoreFlag(c, orig[e])
      /\ readq' = [readq EXCEPT ![c] = Requeue(@, deferred[e])]
      /\ deferred' = [deferred EXCEPT ![e] = <<>>]
      /\ freed' = freed \cup {e}
      /\ Hold(t, c, -1)
      /\ cchan' = [cchan EXCEPT ![t] = NoChan]
      /\ cent' = [cent EXCEPT ![t] = NoEnt]
      /\ CallerAt(t, "idle")
      /\ UNCHANGED <<aslist, counter, nent, echan, use, orig, threadVars,
                     corig, csaved, softhangup, nframe, sent>>

-----------------------------------------------------------------------------
(* autoservice_run *)

ThreadUnchanged ==
  UNCHANGED <<aslist, nent, echan, use, orig, freed, callerVars, dtmfonly,
              nframe, sent>>

(* Copy the list; with nothing to watch, sleep a moment and start again. *)
Rebuild ==
  /\ ents' = Snapshot
  /\ apc' = IF Snapshot = {} THEN "lock" ELSE "wait"

(* Top of the loop: count the turn, then sleep on an empty list.  Unless   *)
(* MayLap, the 2^32 turns after which the counter is back at a value are   *)
(* more than the thread makes between two polls of a caller.               *)
ThreadLock ==
  /\ apc = "lock"
  /\ counter' = Turn(counter)
  /\ \/ MayLap
     \/ \A t \in Callers : cpc[t] = "waiting" => csaved[t] # counter'
  /\ IF aslist = {} THEN ents' = {} /\ apc' = "asleep" ELSE Rebuild
  /\ achan' = NoChan
  /\ hand' = Hangup
  /\ UNCHANGED <<deferred, readq, softhangup>>
  /\ ThreadUnchanged

(* Back from tris_cond_wait, signalled or not: the list is copied. *)
ThreadAwake ==
  /\ apc \in {"asleep", "awake"}
  /\ Rebuild
  /\ UNCHANGED <<counter, deferred, achan, hand, readq, softhangup>>
  /\ ThreadUnchanged

(* tris_waitfor_n: a channel with something to read, or nothing within     *)
(* 50 ms or before a signal.                                               *)
ThreadWait ==
  /\ apc = "wait"
  /\ \/ apc' = "lock" /\ UNCHANGED achan
     \/ \E e \in ents : /\ readq[echan[e]] # <<>>
                        /\ achan' = echan[e]
                        /\ apc' = "read"
  /\ UNCHANGED <<counter, deferred, ents, hand, readq, softhangup>>
  /\ ThreadUnchanged

(* tris_read: NULL when the channel is, or by this frame gets, hung up.    *)
(* Frames of no interest are freed, the others deferred.                   *)
ThreadRead ==
  /\ apc = "read"
  /\ IF softhangup[achan]
       THEN hand' = Hangup /\ apc' = "defer" /\ UNCHANGED <<readq, softhangup>>
       ELSE \E f \in {Head(readq[achan])} :
              /\ readq' = [readq EXCEPT ![achan] = Tail(@)]
              /\ softhangup' = [softhangup EXCEPT ![achan] =
                                  f.kind = "hangup"]
              /\ hand' = IF f.kind = "save" THEN f ELSE Hangup
              /\ apc' = IF f.kind = "drop" THEN "lock" ELSE "defer"
  /\ UNCHANGED <<counter, deferred, ents, achan>>
  /\ ThreadUnchanged

(* TRIS_LIST_INSERT_HEAD(&ents[i]->deferred_frames, ...) for the first i   *)
(* with mons[i] == chan; nothing when the frame cannot be copied.          *)
ThreadDefer ==
  /\ apc = "defer"
  /\ \/ deferred' = [deferred EXCEPT ![First(ents, achan)] =
                                      DeferFrame(@, hand)]
     \/ MayFail /\ UNCHANGED deferred
  /\ apc' = "lock"
  /\ UNCHANGED <<counter, ents, achan, hand, readq, softhangup>>
  /\ ThreadUnchanged

-----------------------------------------------------------------------------
(* The rest of the system: channel drivers and other threads *)

ChannelUnchanged ==
  UNCHANGED <<listVars, deferred, threadVars, callerVars, dtmfonly>>

(* tris_queue_frame of a frame that is no hangup *)
DriverQueue(c, kind) ==
  /\ nframe < MaxFrame
  /\ ~HangupLast(readq[c])
  /\ nframe' = nframe + 1
  /\ readq' = [readq EXCEPT ![c] =
                 QueueTail(@, [id |-> nframe + 1, kind |-> kind])]
  /\ sent' = [sent EXCEPT ![c] = IF kind = "save" THEN @ \cup {nframe + 1}
                                 ELSE @]
  /\ UNCHANGED softhangup
  /\ ChannelUnchanged

(* tris_queue_hangup: the flag is set only if the channel's lock is free. *)
DriverHangup(c) ==
  /\ nframe < MaxFrame
  /\ nframe' = nframe + 1
  /\ \E locked \in BOOLEAN :
       softhangup' = [softhangup EXCEPT ![c] = @ \/ ~locked]
  /\ readq' = [readq EXCEPT ![c] = QueueTail(@, [id |-> nframe + 1,
                                                 kind |-> "hangup"])]
  /\ UNCHANGED sent
  /\ ChannelUnchanged

(* tris_softhangup: the flag, and a null frame to end a wait *)
SoftHangup(c) ==
  /\ nframe < MaxFrame
  /\ nframe' = nframe + 1
  /\ softhangup' = [softhangup EXCEPT ![c] = TRUE]
  /\ readq' = [readq EXCEPT ![c] = QueueTail(@, [id |-> nframe + 1,
                                                 kind |-> "drop"])]
  /\ UNCHANGED sent
  /\ ChannelUnchanged

-----------------------------------------------------------------------------

CallerStep(t) ==
  \/ StartExisting(t) \/ StartNew(t) \/ StartFlag(t)
  \/ StartInsert(t) \/ StartFails(t)
  \/ StopNested(t) \/ StopRemove(t) \/ StopPoll(t) \/ StopRestore(t)

ThreadStep ==
  ThreadLock \/ ThreadAwake \/ ThreadWait \/ ThreadRead \/ ThreadDefer

ChannelStep(c) ==
  \/ DriverQueue(c, "save") \/ DriverQueue(c, "drop")
  \/ DriverHangup(c) \/ SoftHangup(c)

Next ==
  \/ \E t \in Callers : CallerStep(t)
  \/ ThreadStep
  \/ \E c \in Chans : ChannelStep(c)

Spec == Init /\ [][Next]_vars

(* The thread runs and its waits end (usleep(10), 50 ms in tris_waitfor_n, *)
(* but not tris_cond_wait, which needs a signal); a caller that polls the  *)
(* list's state every millisecond goes on once it differs, and returns.    *)
Fairness ==
  /\ WF_vars(ThreadLock \/ ThreadWait \/ ThreadRead \/ ThreadDefer)
  /\ WF_vars(apc = "awake" /\ ThreadAwake)
  /\ \A t \in Callers : WF_vars(StopPoll(t)) /\ WF_vars(StopRestore(t))

FairSpec == Spec /\ Fairness

-----------------------------------------------------------------------------
(* Properties *)

(* The thread never reaches an entry that was freed, or one whose deferred *)
(* frames its owner takes apart without a lock: tris_autoservice_stop      *)
(* waits for a new turn of the loop before it does.                        *)
EntryExclusive ==
  \A e \in ents :
    /\ e \notin freed
    /\ \A t \in Callers : cpc[t] = "restore" => cent[t] # e

(* "After we return, the channel could get destroyed and we don't want our *)
(* poor autoservice thread to step on it": a channel in the thread's array *)
(* mons is one that some caller has started and not finished stopping.     *)
ChannelInUse ==
  \A e \in ents : \E t \in Callers : held[t][echan[e]] > 0

(* "There will only be a single member in the list at this point": without *)
(* a thread, the list is empty, so no entry stays without service.         *)
NoThreadNoEntry == apc = "none" => aslist = {} /\ nent = 0

(* The use counts of a channel's entries add up to the starts that the     *)
(* callers have not begun to stop for the last time: the last stop removes *)
(* the entry, and no earlier one does.                                     *)
UseCountExact ==
  \A c \in Chans :
    MapThenSumSet(LAMBDA e : use[e], Listed(aslist, c))
      = MapThenSumSet(LAMBDA t : held[t][c], Callers)
          - Cardinality({t \in Callers : /\ cpc[t] \in {"waiting", "restore"}
                                         /\ cchan[t] = c})

(* The frames to be saved are in the read queue in the order in which they *)
(* were queued, although they went through deferred_frames.                *)
InOrder(q) ==
  \A m, n \in 1 .. Len(q) :
    m < n /\ q[m].kind = "save" /\ q[n].kind = "save" => q[m].id < q[n].id
ReadqInOrder == \A c \in Chans : InOrder(readq[c])

(* A frame to be saved is in the read queue, in the thread's hand or       *)
(* deferred, unless ...                                                    *)
Kept(c) ==
  \A n \in sent[c] :
    \/ \E k \in 1 .. Len(readq[c]) : readq[c][k].id = n
    \/ apc = "defer" /\ achan = c /\ hand.id = n
    \/ \E e \in Ent : \E k \in 1 .. Len(deferred[e]) : deferred[e][k].id = n

(* ... unless the channel has been hung up or a hangup is queued on it.    *)
FramesKeptUntilHangup ==
  \A c \in Chans : Kept(c) \/ softhangup[c] \/ HangupLast(readq[c])

(* tris_autoservice_stop puts TRIS_FLAG_END_DTMF_ONLY back: while no       *)
(* caller is in autoservice of a channel, the flag is what it was before.  *)
Away(c) == \A t \in Callers : held[t][c] = 0 /\ cchan[t] # c
DtmfFlagRestored ==
  \A c \in Chans : Away(c) => dtmfonly[c] = (c \in DtmfOnly)

(* Every tris_autoservice_stop returns: the thread it waits for is not     *)
(* asleep for ever, and turns its loop.                                    *)
StopReturns == \A t \in Callers : (cpc[t] = "waiting") ~> (cpc[t] = "idle")

=============================================================================
