---------------------------- MODULE DialplanLock ----------------------------
(***************************************************************************)
(* The dialplan functions LOCK, TRYLOCK and UNLOCK of funcs/func_lock.c:   *)
(* recursive locks with names, which belong to channels.                   *)
(*                                                                         *)
(* A channel has a thread that runs its dialplan, and a list of the locks  *)
(* that it has asked for, in a datastore.  A masquerade (main/channel.c)   *)
(* moves the datastores of one channel to another, at any time; the        *)
(* channel that lost them makes no new calls and ends.                     *)
(*                                                                         *)
(* The mutex of a lock is held from the link of the requester to its       *)
(* unlink, except while it waits, so each of the two parts is a step.      *)
(***************************************************************************)
EXTENDS Integers, Sequences, FiniteSets, Functions

CONSTANTS
  Chans,     \* channels
  Locks,     \* names of locks
  MaxCount,  \* bound: how often a channel takes a lock that it has
  MaxTaken,  \* bound: the same, of all its locks together
  MaxMasqs,  \* bound: masquerades
  CountMod,  \* count is unsigned: it wraps here (2^32 in C)
  Nobody,    \* NULL
  NoLock     \* no lock

ASSUME LockConstants ==
  /\ MaxCount \in Nat \ {0}
  /\ MaxTaken \in Nat
  /\ MaxMasqs \in Nat
  /\ CountMod \in Nat /\ CountMod > MaxCount
  /\ Nobody \notin Chans
  /\ NoLock \notin Locks

Frames == [lock : Locks, channel : Chans]  \* struct channel_lock_frame

VARIABLES
  owner,   \* of each lock: lock_frame->owner
  count,   \* lock_frame->count
  lists,   \* of each channel: the lists in its datastores of this type
  pc,      \* where the channel's thread is; "gone": the channel is freed
  lock,    \* the lock its call is about
  zombies, \* channels that live without the datastores a masquerade took
  nmasq,   \* masquerades so far
  has,     \* history: how often a channel took a lock and has not given it back
  spoilt   \* history: locks to which one of the mishaps has happened

threadVars == <<pc, lock>>
lockVars   == <<owner, count, lists>>
vars == <<lockVars, threadVars, zombies, nmasq, has, spoilt>>

TypeOK ==
  /\ owner \in [Locks -> Chans \cup {Nobody}]
  /\ count \in [Locks -> 0 .. CountMod - 1]
  /\ lists \in [Chans -> Seq(SUBSET Frames)]
  /\ pc \in [Chans -> {"idle", "ask", "wait", "signalled", "unlock", "gone"}]
  /\ lock \in [Chans -> Locks \cup {NoLock}]
  /\ zombies \in SUBSET Chans
  /\ nmasq \in 0 .. MaxMasqs
  /\ has \in [Chans -> [Locks -> Nat]]
  /\ spoilt \in SUBSET Locks

Init ==
  /\ owner = [l \in Locks |-> Nobody]
  /\ count = [l \in Locks |-> 0]
  /\ lists = [c \in Chans |-> <<>>]
  /\ pc = [c \in Chans |-> "idle"]
  /\ lock = [c \in Chans |-> NoLock]
  /\ zombies = {}
  /\ nmasq = 0
  /\ has = [c \in Chans |-> [l \in Locks |-> 0]]
  /\ spoilt = {}

-----------------------------------------------------------------------------
(* Helpers *)

InCall(c) == pc[c] \in {"ask", "wait", "signalled", "unlock"}

(* The thread of a channel may use it. *)
Ready(c) == pc[c] = "idle" /\ c \notin zombies

(* tris_channel_datastore_find gets the first datastore of the type. *)
Listed(c, l) == lists[c] # <<>> /\ \E f \in lists[c][1] : f.lock = l

(* The lists of c after a clframe of l was found or added, in the list     *)
(* found or added.                                                         *)
FrameAdded(c, l) ==
  LET frame == [lock |-> l, channel |-> c] IN
  IF lists[c] = <<>> THEN <<{frame}>>
  ELSE IF Listed(c, l) THEN lists[c]
  ELSE [lists[c] EXCEPT ![1] = @ \cup {frame}]

(* current->owner = chan; current->count++ *)
Own(c, l) ==
  /\ owner' = [owner EXCEPT ![l] = c]
  /\ count' = [count EXCEPT ![l] = (@ + 1) % CountMod]

(* A lock was taken, or given back, by a channel.  Of a zombie nothing is  *)
(* counted any more: its locks are another channel's.                      *)
Taken(c, l) ==
  has' = IF c \in zombies THEN has ELSE [has EXCEPT ![c][l] = @ + 1]
Given(c, l) ==
  has' = IF c \in zombies \/ has[c][l] = 0 THEN has
         ELSE [has EXCEPT ![c][l] = @ - 1]

Return(c) ==
  /\ pc' = [pc EXCEPT ![c] = "idle"]
  /\ lock' = [lock EXCEPT ![c] = NoLock]

-----------------------------------------------------------------------------
(* get_lock *)

(* Find or create the lock and the channel's frame of it.  A channel that  *)
(* owns the lock counts one more.                                          *)
Begin(c, l) ==
  /\ Ready(c)
  /\ has[c][l] < MaxCount
  /\ FoldFunction(+, 0, has[c]) < MaxTaken
  /\ lists' = [lists EXCEPT ![c] = FrameAdded(c, l)]
  /\ IF owner[l] = c
       THEN /\ count' = [count EXCEPT ![l] = (@ + 1) % CountMod]
            /\ Taken(c, l)
            /\ UNCHANGED threadVars
       ELSE /\ pc' = [pc EXCEPT ![c] = "ask"]
            /\ lock' = [lock EXCEPT ![c] = l]
            /\ UNCHANGED <<count, has>>
  /\ UNCHANGED <<owner, zombies, nmasq, spoilt>>

(* There is no memory for the list of locks, for the channel's frame or    *)
(* for the link: the call fails.                                           *)
BeginFails(c, l) ==
  /\ Ready(c)
  /\ owner[l] # c
  /\ \E new \in {FrameAdded(c, l)} \cup (IF lists[c] = <<>> THEN {<<{}>>} ELSE {}) :
       lists' = [lists EXCEPT ![c] = new]
  /\ UNCHANGED <<owner, count, threadVars, zombies, nmasq, has, spoilt>>

(* mutant: whether the lock has an owner is not tested *)
RequestBlind(c) ==
  /\ pc[c] = "ask"
  /\ Own(c, lock[c])
  /\ Return(c) /\ Taken(c, lock[c])
  /\ UNCHANGED <<lists, zombies, nmasq, spoilt>>

(* With the lock's mutex: link a requester; take the lock if it has no     *)
(* owner.  If it has one TRYLOCK fails and LOCK waits (which of the two    *)
(* the call is matters nowhere else).                                      *)
Request(c) ==
  /\ pc[c] = "ask"
  /\ IF owner[lock[c]] = Nobody
       THEN Own(c, lock[c]) /\ Return(c) /\ Taken(c, lock[c])
       ELSE /\ \/ Return(c)
               \/ pc' = [pc EXCEPT ![c] = "wait"] /\ UNCHANGED lock
            /\ UNCHANGED <<owner, count, has>>
  /\ UNCHANGED <<lists, zombies, nmasq, spoilt>>

(* The wait ends with ETIMEDOUT, which it may do as soon as it has begun:  *)
(* its time, 3 s, is an absolute one.                                      *)
Timeout(c) ==
  /\ pc[c] = "wait"
  /\ Return(c)
  /\ UNCHANGED <<lockVars, zombies, nmasq, has, spoilt>>

(* The wait ends with a signal, or, as POSIX allows, without one: the lock *)
(* is taken, whoever has it by now.  If somebody has, this is a mishap.    *)
Awake(c) ==
  /\ pc[c] \in {"wait", "signalled"}
  /\ Own(c, lock[c])
  /\ Return(c) /\ Taken(c, lock[c])
  /\ spoilt' = spoilt \cup {l \in {lock[c]} : owner[l] # Nobody}
  /\ UNCHANGED <<lists, zombies, nmasq>>

-----------------------------------------------------------------------------
(* unlock_read.  Only a lock in the first list is found. *)

(* --count, which is not done with the lock's mutex *)
Unlock(c, l) ==
  /\ Ready(c)
  /\ Listed(c, l) /\ owner[l] = c
  /\ count' = [count EXCEPT ![l] = (@ - 1) % CountMod]
  /\ IF count'[l] = 0
       THEN /\ pc' = [pc EXCEPT ![c] = "unlock"]
            /\ lock' = [lock EXCEPT ![c] = l]
            /\ UNCHANGED has
       ELSE /\ Given(c, l)
            /\ UNCHANGED <<pc, lock>>
  /\ UNCHANGED <<owner, lists, zombies, nmasq, spoilt>>

(* owner = NULL when that was the last *)
UnlockLast(c) ==
  /\ pc[c] = "unlock"
  /\ owner' = [owner EXCEPT ![lock[c]] = Nobody]
  /\ Return(c)
  /\ Given(c, lock[c])
  /\ UNCHANGED <<count, lists, zombies, nmasq, spoilt>>

-----------------------------------------------------------------------------
(* lock_broker *)

(* A lock without an owner that is asked for: one who waits is signalled,  *)
(* in one of the turns of the broker, which may be at any time: when it    *)
(* sleeps is left out.                                                     *)
Signal(c) ==
  /\ pc[c] = "wait"
  /\ owner[lock[c]] = Nobody
  /\ pc' = [pc EXCEPT ![c] = "signalled"]
  /\ UNCHANGED <<lockVars, lock, zombies, nmasq, has, spoilt>>

-----------------------------------------------------------------------------
(* Channels *)

AllFrames(c) == UNION {lists[c][i] : i \in 1 .. Len(lists[c])}

(* The locks that lock_free releases: those that the channel owns under    *)
(* the name in its frame                                                   *)
NotReleased(c) == {}  \* mutant
Released(c) == {f.lock : f \in {g \in AllFrames(c) : owner[g.lock] = g.channel}}

(* tris_channel_free: lock_free, for each list *)
Hangup(c) ==
  /\ pc[c] = "idle"
  /\ pc' = [pc EXCEPT ![c] = "gone"]
  /\ owner' = [l \in Locks |-> IF l \in Released(c) THEN Nobody ELSE owner[l]]
  /\ count' = [l \in Locks |-> IF l \in Released(c) THEN 0 ELSE count[l]]
  /\ lists' = [lists EXCEPT ![c] = <<>>]
  /\ has' = [has EXCEPT ![c] = [l \in Locks |-> 0]]
  /\ zombies' = zombies \ {c}
  /\ UNCHANGED <<lock, nmasq, spoilt>>

(* lock_fixup: the first list of clone, whichever list it is called for,   *)
(* is made one of orig.                                                    *)
Fixed(clone, orig) ==
  [lists[clone] EXCEPT ![1] = {[f EXCEPT !.channel = orig] : f \in @}]

(* What a masquerade may spoil: the lock that clone's thread is about to   *)
(* take or to give back, and those in other lists than the first.          *)
SpoiltBy(clone) ==
  {lock[c] : c \in {d \in {clone} : InCall(d)}}
    \cup {f.lock : f \in UNION {lists[clone][i] : i \in 2 .. Len(lists[clone])}}

(* tris_do_masquerade, as far as datastores go *)
Masquerade(orig, clone) ==
  /\ orig # clone
  /\ {orig, clone} \cap zombies = {}
  /\ pc[orig] # "gone" /\ pc[clone] # "gone"
  /\ nmasq < MaxMasqs
  /\ nmasq' = nmasq + 1
  /\ zombies' = zombies \cup {clone}
  /\ IF lists[clone] = <<>>
       THEN UNCHANGED <<owner, lists>>
       ELSE /\ owner' = [l \in Locks |->
                           IF Listed(clone, l) /\ owner[l] = clone
                             THEN orig ELSE owner[l]]
            /\ lists' = [lists EXCEPT ![orig] = @ \o Fixed(clone, orig),
                                      ![clone] = <<>>]
  /\ has' = [has EXCEPT ![orig] = [l \in Locks |-> @[l] + has[clone][l]],
                        ![clone] = [l \in Locks |-> 0]]
  /\ spoilt' = spoilt \cup SpoiltBy(clone)
  /\ UNCHANGED <<count, threadVars>>

-----------------------------------------------------------------------------
CallStep(c) ==
  Request(c) \/ Timeout(c) \/ Awake(c) \/ UnlockLast(c)

Next ==
  \/ \E c \in Chans :
       \/ \E l \in Locks : \/ Begin(c, l)
                           \/ BeginFails(c, l)
                           \/ Unlock(c, l)
       \/ CallStep(c)
       \/ Signal(c)
       \/ Hangup(c)
  \/ \E orig, clone \in Chans : Masquerade(orig, clone)

Spec == Init /\ [][Next]_vars

-----------------------------------------------------------------------------
(* Properties *)

(* "Attempts to grab a named lock exclusively, and prevents other channels *)
(* from obtaining the same lock": two channels never have a lock at the    *)
(* same time, by what their calls have returned, unless it was spoilt.     *)
Exclusive ==
  \A l \in Locks \ spoilt : \A c, d \in Chans :
    has[c][l] > 0 /\ has[d][l] > 0 => c = d

(* A lock that no channel has can be had: it has been given back as often  *)
(* as it was taken, or the channel has been destroyed, upon which "any     *)
(* locks held are automatically freed", unless it was spoilt.              *)
Available ==
  \A l \in Locks \ spoilt :
    (\A c \in Chans : has[c][l] = 0) => owner[l] = Nobody
=============================================================================
