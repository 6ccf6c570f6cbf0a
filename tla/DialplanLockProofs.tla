------------------------- MODULE DialplanLockProofs -------------------------
(***************************************************************************)
(* Proofs about DialplanLock: of a lock to which no mishap has happened,   *)
(* the owner is the one channel that has it, and it has a frame of it by   *)
(* which its end releases it.                                              *)
(***************************************************************************)
EXTENDS DialplanLock, SequenceTheorems, TLAPS

(* The channel has a frame of the lock that bears its own name. *)
Named(c, l) ==
  \E i \in 1 .. Len(lists[c]) : [lock |-> l, channel |-> c] \in lists[c][i]

(* The channel's call is giving the lock back. *)
Ending(c, l) == pc[c] = "unlock" /\ lock[c] = l

(* What has lost its datastores has no lock. *)
Parted ==
  \A c \in Chans : (c \in zombies \/ pc[c] = "gone") =>
    lists[c] = <<>> /\ \A l \in Locks : has[c][l] = 0

(* A call is about a lock; that of a zombie about a spoilt one. *)
CallsName ==
  \A c \in Chans : InCall(c) =>
    lock[c] \in Locks /\ (c \in zombies => lock[c] \in spoilt)

(* Frames of locks that are not spoilt bear the name of their channel. *)
FramesOwn ==
  \A c \in Chans : \A i \in 1 .. Len(lists[c]) : \A f \in lists[c][i] :
    f.lock \notin spoilt => f.channel = c

HeldIsOwned ==
  \A l \in Locks \ spoilt : \A c \in Chans : has[c][l] > 0 => owner[l] = c

OwnedIsHeld ==
  \A l \in Locks \ spoilt : \A c \in Chans : owner[l] = c =>
    /\ has[c][l] > 0 /\ has[c][l] <= MaxCount
    /\ Named(c, l)
    /\ ~Ending(c, l) => count[l] = has[c][l]

FreeIsZero ==
  \A l \in Locks \ spoilt : owner[l] = Nobody => count[l] = 0

CallsExact ==
  \A l \in Locks \ spoilt : \A c \in Chans : InCall(c) /\ lock[c] = l =>
    /\ Named(c, l)
    /\ pc[c] = "unlock" => owner[l] = c /\ has[c][l] = 1 /\ count[l] = 0

Inv ==
  /\ TypeOK
  /\ Parted /\ CallsName /\ FramesOwn
  /\ HeldIsOwned /\ OwnedIsHeld /\ FreeIsZero /\ CallsExact

-----------------------------------------------------------------------------
(* Lists *)

(* What FrameAdded makes of the lists of a channel *)
LEMMA AddedFrame ==
  ASSUME TypeOK, NEW c \in Chans, NEW l \in Locks,
         NEW new, new = FrameAdded(c, l)
  PROVE  /\ new \in Seq(SUBSET Frames)
         /\ Len(lists[c]) <= Len(new)
         /\ \A i \in 1 .. Len(lists[c]) : lists[c][i] \subseteq new[i]
         /\ \A i \in 1 .. Len(new) : \A f \in new[i] :
              f = [lock |-> l, channel |-> c]
                \/ (i \in 1 .. Len(lists[c]) /\ f \in lists[c][i])
         /\ Len(new) >= 1 /\ \E f \in new[1] : f.lock = l
<1> DEFINE fr == [lock |-> l, channel |-> c]
<1>1. lists[c] \in Seq(SUBSET Frames) /\ fr \in Frames
  BY DEF TypeOK, Frames
<1>2. CASE lists[c] = <<>>
  <2>1. new = <<{fr}>>  BY <1>2 DEF FrameAdded
  <2>2. Len(new) = 1 /\ new[1] = {fr} /\ new \in Seq(SUBSET Frames)  BY <1>1, <2>1
  <2>3. Len(lists[c]) = 0  BY <1>2
  <2> QED  BY <1>1, <2>2, <2>3
<1>3. CASE lists[c] # <<>> /\ Listed(c, l)
  <2>1. new = lists[c]  BY <1>3 DEF FrameAdded
  <2>2. Len(lists[c]) \in Nat /\ Len(lists[c]) >= 1  BY <1>1, <1>3
  <2> QED  BY <1>1, <1>3, <2>1, <2>2 DEF Listed
<1>4. CASE lists[c] # <<>> /\ ~Listed(c, l)
  <2>1. new = [lists[c] EXCEPT ![1] = @ \cup {fr}]  BY <1>4 DEF FrameAdded
  <2>2. Len(lists[c]) \in Nat /\ Len(lists[c]) >= 1  BY <1>1, <1>4
  <2>3. /\ Len(new) = Len(lists[c])
        /\ new[1] = lists[c][1] \cup {fr}
        /\ \A i \in 1 .. Len(lists[c]) : i # 1 => new[i] = lists[c][i]
    BY <1>1, <2>1, <2>2
  <2>4. lists[c][1] \in SUBSET Frames  BY <1>1, <2>2
  <2>5. new \in Seq(SUBSET Frames)  BY <1>1, <2>1, <2>2, <2>4
  <2>6. \A i \in 1 .. Len(lists[c]) : lists[c][i] \subseteq new[i]  BY <2>3
  <2>7. ASSUME NEW i \in 1 .. Len(new), NEW f \in new[i]
        PROVE  f = fr \/ (i \in 1 .. Len(lists[c]) /\ f \in lists[c][i])
    <3>1. i \in 1 .. Len(lists[c])  BY <2>3
    <3> QED  BY <2>3, <3>1
  <2>8. \E f \in new[1] : f.lock = l
    <3>1. fr \in new[1] /\ fr.lock = l  BY <2>3
    <3> QED  BY <3>1
  <2>9. Len(lists[c]) <= Len(new) /\ Len(new) >= 1  BY <2>2, <2>3
  <2> QED  BY <2>5, <2>6, <2>7, <2>8, <2>9, Zenon
<1> QED  BY <1>2, <1>3, <1>4

(* Whatever get_lock adds to the lists of a channel *)
LEMMA Grown ==
  ASSUME TypeOK, FramesOwn, NEW c \in Chans, NEW l \in Locks, NEW new,
         new = FrameAdded(c, l) \/ (lists[c] = <<>> /\ new = <<{}>>),
         lists' = [lists EXCEPT ![c] = new], spoilt' = spoilt
  PROVE  /\ lists' \in [Chans -> Seq(SUBSET Frames)]
         /\ \A d \in Chans : d # c => lists'[d] = lists[d]
         /\ FramesOwn'
         /\ \A d \in Chans : \A k \in Locks : Named(d, k) => Named(d, k)'
         /\ new = FrameAdded(c, l) /\ l \notin spoilt => Named(c, l)'
<1>1. /\ new \in Seq(SUBSET Frames)
      /\ Len(lists[c]) <= Len(new)
      /\ \A i \in 1 .. Len(lists[c]) : lists[c][i] \subseteq new[i]
      /\ \A i \in 1 .. Len(new) : \A f \in new[i] :
           f = [lock |-> l, channel |-> c]
             \/ (i \in 1 .. Len(lists[c]) /\ f \in lists[c][i])
  <2>1. CASE new = FrameAdded(c, l)  BY <2>1, AddedFrame
  <2>2. CASE lists[c] = <<>> /\ new = <<{}>>
    <3>1. new \in Seq(SUBSET Frames) /\ Len(new) = 1 /\ new[1] = {} /\ Len(lists[c]) = 0
      BY <2>2
    <3> QED  BY <3>1
  <2> QED  BY <2>1, <2>2
<1>2. lists \in [Chans -> Seq(SUBSET Frames)]  BY DEF TypeOK
<1>3. lists'[c] = new /\ \A d \in Chans : d # c => lists'[d] = lists[d]  BY <1>2
<1>4. lists' \in [Chans -> Seq(SUBSET Frames)]  BY <1>1, <1>2
<1>5. FramesOwn'
  <2> SUFFICES ASSUME NEW d \in Chans, NEW i \in 1 .. Len(lists'[d]),
                      NEW f \in lists'[d][i], f.lock \notin spoilt
               PROVE  f.channel = d
    BY DEF FramesOwn
  <2>1. CASE d = c
    <3>1. f = [lock |-> l, channel |-> c] \/ (i \in 1 .. Len(lists[c]) /\ f \in lists[c][i])
      BY <1>1, <1>3, <2>1
    <3> QED  BY <2>1, <3>1 DEF FramesOwn
  <2>2. CASE d # c  BY <1>3, <2>2 DEF FramesOwn
  <2> QED  BY <2>1, <2>2
<1>6. \A d \in Chans : \A k \in Locks : Named(d, k) => Named(d, k)'
  <2> SUFFICES ASSUME NEW d \in Chans, NEW k \in Locks, Named(d, k)
               PROVE  Named(d, k)'
    OBVIOUS
  <2>1. CASE d = c
    <3>1. PICK i \in 1 .. Len(lists[c]) : [lock |-> k, channel |-> c] \in lists[c][i]
      BY <2>1 DEF Named
    <3>2. i \in 1 .. Len(new) /\ [lock |-> k, channel |-> c] \in new[i]
      BY <1>1, <1>2, <3>1
    <3> QED  BY <1>3, <2>1, <3>2 DEF Named
  <2>2. CASE d # c  BY <1>3, <2>2 DEF Named
  <2> QED  BY <2>1, <2>2
<1>7. ASSUME new = FrameAdded(c, l), l \notin spoilt  PROVE Named(c, l)'
  <2>1. Len(new) >= 1 /\ \E f \in new[1] : f.lock = l  BY <1>7, AddedFrame
  <2>2. 1 \in 1 .. Len(new) /\ new[1] \in SUBSET Frames  BY <1>1, <2>1
  <2>3. PICK f \in new[1] : f.lock = l  BY <2>1
  <2>4. f \in Frames /\ f.channel = c  BY <1>3, <1>5, <1>7, <2>2, <2>3 DEF FramesOwn
  <2>5. f = [lock |-> l, channel |-> c]  BY <2>3, <2>4 DEF Frames
  <2> QED  BY <1>3, <2>2, <2>3, <2>5 DEF Named
<1> QED  BY <1>3, <1>4, <1>5, <1>6, <1>7

(* What a masquerade makes of the lists of the original channel, and of    *)
(* those of its clone *)
LEMMA MovedLists ==
  ASSUME TypeOK, FramesOwn, NEW orig \in Chans, NEW clone \in Chans, orig # clone,
         lists[clone] # <<>>,
         lists' = [lists EXCEPT ![orig] = @ \o Fixed(clone, orig), ![clone] = <<>>],
         spoilt' = spoilt \cup SpoiltBy(clone)
  PROVE  /\ lists' \in [Chans -> Seq(SUBSET Frames)]
         /\ lists'[clone] = <<>>
         /\ \A d \in Chans \ {orig, clone} : lists'[d] = lists[d]
         /\ FramesOwn'
         /\ \A d \in Chans \ {clone} : \A k \in Locks : Named(d, k) => Named(d, k)'
         /\ \A k \in Locks \ spoilt' : Named(clone, k) =>
              Listed(clone, k) /\ Named(orig, k)'
<1>1. lists \in [Chans -> Seq(SUBSET Frames)]  BY DEF TypeOK
<1>2. PICK s : s = lists[orig]  OBVIOUS
<1>3. PICK t : t = Fixed(clone, orig)  OBVIOUS
<1>4. s \in Seq(SUBSET Frames) /\ Len(s) \in Nat  BY <1>1, <1>2
<1>5. lists[clone] \in Seq(SUBSET Frames) /\ Len(lists[clone]) \in Nat /\ Len(lists[clone]) >= 1
  BY <1>1
<1>6. {[f EXCEPT !.channel = orig] : f \in lists[clone][1]} \in SUBSET Frames
  <2>1. lists[clone][1] \in SUBSET Frames  BY <1>5
  <2>2. \A f \in Frames : [f EXCEPT !.channel = orig] \in Frames  BY DEF Frames
  <2> QED  BY <2>1, <2>2
<1>7. /\ t \in Seq(SUBSET Frames)
      /\ Len(t) = Len(lists[clone])
      /\ t[1] = {[f EXCEPT !.channel = orig] : f \in lists[clone][1]}
      /\ \A i \in 2 .. Len(t) : t[i] = lists[clone][i]
  BY <1>3, <1>5, <1>6 DEF Fixed
<1>u. PICK u : u = s \o t  OBVIOUS
<1>8. /\ u \in Seq(SUBSET Frames)
      /\ Len(u) = Len(s) + Len(t)
      /\ \A i \in 1 .. Len(s) : u[i] = s[i]
      /\ \A i \in 1 .. Len(t) : u[Len(s) + i] = t[i]
      /\ \A i \in 1 .. Len(u) : i \notin 1 .. Len(s) =>
           \E j \in 1 .. Len(t) : u[i] = t[j]
  <2>1. Len(t) \in Nat  BY <1>7
  <2>2. /\ u \in Seq(SUBSET Frames)
        /\ Len(u) = Len(s) + Len(t)
        /\ \A i \in 1 .. Len(s) + Len(t) :
             u[i] = IF i <= Len(s) THEN s[i] ELSE t[i - Len(s)]
    <3>1. t \in Seq(SUBSET Frames)  BY <1>7
    <3> QED  BY ONLY <1>4, <1>u, <3>1, ConcatProperties
  <2>3. \A i \in 1 .. Len(s) : u[i] = s[i]  BY <1>4, <2>1, <2>2
  <2>4. \A i \in 1 .. Len(t) : u[Len(s) + i] = t[i]
    <3> SUFFICES ASSUME NEW i \in 1 .. Len(t)  PROVE u[Len(s) + i] = t[i]  OBVIOUS
    <3>1. Len(s) + i \in 1 .. Len(s) + Len(t) /\ ~(Len(s) + i <= Len(s))
            /\ (Len(s) + i) - Len(s) = i
      BY <1>4, <2>1
    <3> QED  BY <2>2, <3>1
  <2>5. ASSUME NEW i \in 1 .. Len(u), i \notin 1 .. Len(s)
        PROVE  \E j \in 1 .. Len(t) : u[i] = t[j]
    <3>1. i \in 1 .. Len(s) + Len(t) /\ ~(i <= Len(s)) /\ i - Len(s) \in 1 .. Len(t)
      BY <1>4, <2>1, <2>2, <2>5
    <3> QED  BY <2>2, <3>1
  <2> QED  BY <2>2, <2>3, <2>4, <2>5
<1>9. /\ lists'[orig] = u
      /\ lists'[clone] = <<>>
      /\ \A d \in Chans \ {orig, clone} : lists'[d] = lists[d]
  BY <1>1, <1>2, <1>3, <1>u
<1>10. lists' \in [Chans -> Seq(SUBSET Frames)]
  <2>1. <<>> \in Seq(SUBSET Frames)  OBVIOUS
  <2>2. u = lists[orig] \o Fixed(clone, orig)  BY <1>2, <1>3, <1>u
  <2> QED  BY <1>1, <1>8, <2>1, <2>2
<1>11. ASSUME NEW i \in 2 .. Len(lists[clone]), NEW f \in lists[clone][i]
       PROVE  f.lock \in spoilt'
  BY <1>11 DEF SpoiltBy
<1>12. FramesOwn'
  <2> SUFFICES ASSUME NEW d \in Chans, NEW i \in 1 .. Len(lists'[d]),
                      NEW f \in lists'[d][i], f.lock \notin spoilt'
               PROVE  f.channel = d
    BY DEF FramesOwn
  <2>1. f.lock \notin spoilt  OBVIOUS
  <2>2. CASE d = orig
    <3>1. CASE i \in 1 .. Len(s)
      <4>1. f \in lists[orig][i]  BY <1>2, <1>8, <1>9, <2>2, <3>1
      <4> QED  BY <1>2, <2>1, <2>2, <3>1, <4>1 DEF FramesOwn
    <3>2. CASE i \notin 1 .. Len(s)
      <4>1. PICK j \in 1 .. Len(t) : f \in t[j]
        <5>1. lists'[d] = u  BY <1>9, <2>2
        <5>2. i \in 1 .. Len(u) /\ f \in u[i]  BY <5>1
        <5> QED  BY <1>8, <5>2, <3>2
      <4>2. CASE j = 1
        <5>1. PICK g \in lists[clone][1] : f = [g EXCEPT !.channel = orig]
          BY <1>7, <4>1, <4>2
        <5>2. g \in Frames  BY <1>5, <5>1
        <5> QED  BY <2>2, <5>1, <5>2 DEF Frames
      <4>3. CASE j # 1
        <5>1. j \in 2 .. Len(lists[clone])  BY <1>5, <1>7, <4>1, <4>3
        <5>2. f \in lists[clone][j]  BY <1>7, <4>1, <5>1
        <5> QED  BY <1>11, <5>1, <5>2
      <4> QED  BY <4>2, <4>3
    <3> QED  BY <3>1, <3>2
  <2>3. CASE d = clone
    <3>1. Len(lists'[d]) = 0  BY <1>9, <2>3
    <3> QED  BY <3>1
  <2>4. CASE d \notin {orig, clone}  BY <1>9, <2>1, <2>4 DEF FramesOwn
  <2> QED  BY <2>2, <2>3, <2>4
<1>13. ASSUME NEW d \in Chans \ {clone}, NEW k \in Locks, Named(d, k)
       PROVE  Named(d, k)'
  <2>1. PICK i \in 1 .. Len(lists[d]) : [lock |-> k, channel |-> d] \in lists[d][i]
    BY <1>13 DEF Named
  <2>2. CASE d = orig
    <3>1. i \in 1 .. Len(u) /\ [lock |-> k, channel |-> d] \in u[i]
      <4>1. i \in 1 .. Len(s) /\ [lock |-> k, channel |-> d] \in s[i]
        BY <1>2, <2>1, <2>2
      <4>2. Len(u) = Len(s) + Len(t) /\ Len(t) \in Nat  BY <1>5, <1>7, <1>8
      <4>3. i \in 1 .. Len(u)  BY <1>4, <4>1, <4>2
      <4>4. u[i] = s[i]  BY <1>8, <4>1
      <4> QED  BY <4>1, <4>3, <4>4
    <3> QED  BY <1>9, <2>2, <3>1 DEF Named
  <2>3. CASE d # orig  BY <1>9, <2>1, <2>3 DEF Named
  <2> QED  BY <2>2, <2>3
<1>14. ASSUME NEW k \in Locks \ spoilt', Named(clone, k)
       PROVE  Listed(clone, k) /\ Named(orig, k)'
  <2>1. PICK i \in 1 .. Len(lists[clone]) :
          [lock |-> k, channel |-> clone] \in lists[clone][i]
    BY <1>14 DEF Named
  <2>2. i = 1
    <3> SUFFICES ASSUME i # 1 PROVE FALSE  OBVIOUS
    <3>1. i \in 2 .. Len(lists[clone])  BY <1>5
    <3>2. [lock |-> k, channel |-> clone].lock \in spoilt'  BY <1>11, <2>1, <3>1
    <3> QED  BY <3>2
  <2>3. Listed(clone, k)  BY <2>1, <2>2 DEF Listed
  <2>4. [[lock |-> k, channel |-> clone] EXCEPT !.channel = orig]
          = [lock |-> k, channel |-> orig]
    OBVIOUS
  <2>5. [lock |-> k, channel |-> orig] \in t[1]  BY <1>7, <2>1, <2>2, <2>4
  <2>6. Len(s) + 1 \in 1 .. Len(u) /\ u[Len(s) + 1] = t[1]
    <3>1. Len(u) = Len(s) + Len(t) /\ Len(t) \in Nat /\ Len(t) >= 1
      BY <1>5, <1>7, <1>8
    <3>2. 1 \in 1 .. Len(t)  BY <3>1
    <3>3. Len(s) + 1 \in 1 .. Len(u)  BY <1>4, <3>1
    <3> QED  BY <1>8, <3>2, <3>3
  <2> QED  BY <1>9, <2>3, <2>5, <2>6 DEF Named
<1> QED  BY <1>9, <1>10, <1>12, <1>13, <1>14

-----------------------------------------------------------------------------
(* Steps *)

LEMMA InitKeeps == ASSUME Init PROVE Inv
<1> USE DEF Init
<1>1. TypeOK
  <2>1. <<>> \in Seq(SUBSET Frames)  OBVIOUS
  <2>2. 0 \in 0 .. CountMod - 1 /\ 0 \in 0 .. MaxMasqs  BY LockConstants
  <2> QED  BY <2>1, <2>2 DEF TypeOK
<1>2. FramesOwn
  <2>1. \A c \in Chans : Len(lists[c]) = 0  OBVIOUS
  <2> QED  BY <2>1 DEF FramesOwn
<1>3. Parted /\ CallsName  BY DEF Parted, CallsName, InCall
<1>4. HeldIsOwned /\ OwnedIsHeld /\ FreeIsZero /\ CallsExact
  BY LockConstants DEF HeldIsOwned, OwnedIsHeld, FreeIsZero, CallsExact, InCall
<1> QED  BY <1>1, <1>2, <1>3, <1>4 DEF Inv

(* Steps that leave owners, counts and what calls have returned alone *)
LEMMA BeginFailsKeeps ==
  ASSUME Inv, NEW c \in Chans, NEW l \in Locks, BeginFails(c, l)
  PROVE  Inv'
<1>1. PICK new : /\ new = FrameAdded(c, l) \/ (lists[c] = <<>> /\ new = <<{}>>)
                 /\ lists' = [lists EXCEPT ![c] = new]
  BY DEF BeginFails
<1>2. /\ UNCHANGED <<owner, count, threadVars, zombies, nmasq, has, spoilt>>
      /\ pc[c] = "idle" /\ c \notin zombies
  BY DEF BeginFails, Ready
<1>3. /\ lists' \in [Chans -> Seq(SUBSET Frames)]
      /\ \A d \in Chans : d # c => lists'[d] = lists[d]
      /\ FramesOwn'
      /\ \A d \in Chans : \A k \in Locks : Named(d, k) => Named(d, k)'
  BY <1>1, <1>2, Grown DEF Inv
<1>4. TypeOK'  BY <1>2, <1>3 DEF Inv, TypeOK, threadVars
<1>5. Parted'  BY <1>2, <1>3 DEF Inv, Parted, threadVars
<1>6. CallsName' /\ HeldIsOwned' /\ FreeIsZero'
  BY <1>2 DEF Inv, CallsName, HeldIsOwned, FreeIsZero, InCall, threadVars
<1>7. OwnedIsHeld' /\ CallsExact'
  BY <1>2, <1>3 DEF Inv, OwnedIsHeld, CallsExact, InCall, Ending, threadVars
<1> QED  BY <1>3, <1>4, <1>5, <1>6, <1>7 DEF Inv

LEMMA BeginKeeps ==
  ASSUME Inv, NEW c \in Chans, NEW l \in Locks, Begin(c, l)
  PROVE  Inv'
<1>1. /\ pc[c] = "idle" /\ c \notin zombies /\ has[c][l] < MaxCount
      /\ lists' = [lists EXCEPT ![c] = FrameAdded(c, l)]
      /\ UNCHANGED <<owner, zombies, nmasq, spoilt>>
  BY DEF Begin, Ready
<1>2. /\ lists' \in [Chans -> Seq(SUBSET Frames)]
      /\ \A d \in Chans : d # c => lists'[d] = lists[d]
      /\ FramesOwn'
      /\ \A d \in Chans : \A k \in Locks : Named(d, k) => Named(d, k)'
      /\ l \notin spoilt => Named(c, l)'
  <2>1. PICK new : new = FrameAdded(c, l)  OBVIOUS
  <2> QED  BY <1>1, <2>1, Grown DEF Inv
<1>3. CASE owner[l] = c
  <2>1. /\ count' = [count EXCEPT ![l] = (@ + 1) % CountMod]
        /\ has' = [has EXCEPT ![c][l] = @ + 1]
        /\ UNCHANGED <<pc, lock>>
    BY <1>1, <1>3 DEF Begin, Taken, threadVars
  <2>2. /\ has \in [Chans -> [Locks -> Nat]] /\ count \in [Locks -> 0 .. CountMod - 1]
        /\ MaxCount \in Nat /\ CountMod \in Nat /\ MaxCount < CountMod
    BY LockConstants DEF Inv, TypeOK
  <2>3. count'[l] \in 0 .. CountMod - 1  BY <2>1, <2>2
  <2>4. TypeOK'  BY <1>1, <1>2, <2>1, <2>2, <2>3 DEF Inv, TypeOK
  <2>5. Parted'  BY <1>1, <1>2, <2>1, <2>2 DEF Inv, Parted
  <2>6. CallsName'  BY <1>1, <2>1 DEF Inv, CallsName, InCall
  <2>7. HeldIsOwned'  BY <1>1, <1>3, <2>1, <2>2 DEF Inv, HeldIsOwned
  <2>8. FreeIsZero'
    <3>1. l \in Locks /\ owner[l] # Nobody  BY <1>3, LockConstants
    <3> QED  BY <1>1, <2>1, <2>2, <3>1 DEF Inv, FreeIsZero
  <2>9. OwnedIsHeld'
    <3> SUFFICES ASSUME NEW k \in Locks \ spoilt, NEW d \in Chans, owner[k] = d
                 PROVE  /\ has'[d][k] > 0 /\ has'[d][k] <= MaxCount
                        /\ Named(d, k)'
                        /\ ~Ending(d, k)' => count'[k] = has'[d][k]
      BY <1>1 DEF OwnedIsHeld
    <3>1. /\ has[d][k] > 0 /\ has[d][k] <= MaxCount
          /\ Named(d, k)
          /\ ~Ending(d, k) => count[k] = has[d][k]
      BY DEF Inv, OwnedIsHeld
    <3>2. CASE k = l
      <4>1. d = c /\ ~Ending(d, k)  BY <1>1, <1>3, <3>2 DEF Ending
      <4>2. has'[d][k] = has[d][k] + 1 /\ count[k] = has[d][k]
        BY <2>1, <2>2, <3>1, <3>2, <4>1
      <4>3. has[d][k] \in Nat /\ has[d][k] + 1 <= MaxCount
        BY <1>1, <2>2, <3>2, <4>1
      <4>4. (has[d][k] + 1) % CountMod = has[d][k] + 1  BY <2>2, <4>3
      <4>5. count'[k] = has[d][k] + 1  BY <2>1, <2>2, <3>2, <4>2, <4>4
      <4> QED  BY <1>2, <3>1, <4>2, <4>3, <4>5
    <3>3. CASE k # l
      <4>1. has'[d][k] = has[d][k] /\ count'[k] = count[k]  BY <2>1, <2>2, <3>3
      <4>2. Ending(d, k)' <=> Ending(d, k)  BY <2>1 DEF Ending
      <4> QED  BY <1>2, <3>1, <4>1, <4>2
    <3> QED  BY <3>2, <3>3
  <2>10. CallsExact'
    <3> SUFFICES ASSUME NEW k \in Locks \ spoilt, NEW d \in Chans,
                        InCall(d), lock[d] = k
                 PROVE  /\ Named(d, k)'
                        /\ pc[d] = "unlock" =>
                             owner[k] = d /\ has'[d][k] = 1 /\ count'[k] = 0
      BY <1>1, <2>1 DEF CallsExact, InCall
    <3>1. d # c  BY <1>1 DEF InCall
    <3>2. /\ Named(d, k)
          /\ pc[d] = "unlock" => owner[k] = d /\ has[d][k] = 1 /\ count[k] = 0
      BY DEF Inv, CallsExact
    <3>3. pc[d] = "unlock" => k # l  BY <1>3, <3>1, <3>2
    <3> QED  BY <1>2, <2>1, <2>2, <3>1, <3>2, <3>3
  <2> QED  BY <1>2, <2>4, <2>5, <2>6, <2>7, <2>8, <2>9, <2>10 DEF Inv
<1>4. CASE owner[l] # c
  <2>1. /\ pc' = [pc EXCEPT ![c] = "ask"]
        /\ lock' = [lock EXCEPT ![c] = l]
        /\ UNCHANGED <<count, has>>
    BY <1>4 DEF Begin
  <2>2. TypeOK'  BY <1>1, <1>2, <2>1 DEF Inv, TypeOK
  <2>3. Parted'  BY <1>1, <1>2, <2>1 DEF Inv, Parted, TypeOK
  <2>4. CallsName'  BY <1>1, <2>1 DEF Inv, CallsName, InCall, TypeOK
  <2>5. HeldIsOwned' /\ FreeIsZero'
    BY <1>1, <2>1 DEF Inv, HeldIsOwned, FreeIsZero
  <2>6. OwnedIsHeld'
    BY <1>1, <1>2, <2>1 DEF Inv, OwnedIsHeld, Ending, TypeOK
  <2>7. CallsExact'
    BY <1>1, <1>2, <2>1 DEF Inv, CallsExact, InCall, TypeOK
  <2> QED  BY <1>2, <2>2, <2>3, <2>4, <2>5, <2>6, <2>7 DEF Inv
<1> QED  BY <1>3, <1>4

(* A call that takes the lock: at once, or after a signal *)
LEMMA TakeKeeps ==
  ASSUME Inv, NEW c \in Chans, pc[c] \in {"ask", "wait", "signalled"},
         Own(c, lock[c]), Return(c), Taken(c, lock[c]),
         spoilt' = spoilt \cup {l \in {lock[c]} : owner[l] # Nobody},
         UNCHANGED <<lists, zombies, nmasq>>
  PROVE  Inv'
<1>1. PICK l \in Locks : l = lock[c]
  BY DEF Inv, CallsName, InCall
<1>2. /\ owner' = [owner EXCEPT ![l] = c]
      /\ count' = [count EXCEPT ![l] = (@ + 1) % CountMod]
      /\ has' = IF c \in zombies THEN has ELSE [has EXCEPT ![c][l] = @ + 1]
      /\ pc' = [pc EXCEPT ![c] = "idle"]
      /\ lock' = [lock EXCEPT ![c] = NoLock]
  BY <1>1 DEF Own, Return, Taken
<1>3. /\ has \in [Chans -> [Locks -> Nat]] /\ count \in [Locks -> 0 .. CountMod - 1]
      /\ owner \in [Locks -> Chans \cup {Nobody}]
      /\ pc \in [Chans -> {"idle", "ask", "wait", "signalled", "unlock", "gone"}]
      /\ lock \in [Chans -> Locks \cup {NoLock}]
      /\ spoilt \in SUBSET Locks
      /\ MaxCount \in Nat \ {0} /\ CountMod \in Nat /\ MaxCount < CountMod
      /\ Nobody \notin Chans
  BY LockConstants DEF Inv, TypeOK
<1>4. l \notin spoilt' =>
        /\ owner[l] = Nobody /\ c \notin zombies /\ l \notin spoilt
        /\ count[l] = 0 /\ Named(c, l)
        /\ \A d \in Chans : has[d][l] = 0 /\ ~Ending(d, l)
  <2> SUFFICES ASSUME l \notin spoilt'
               PROVE  /\ owner[l] = Nobody /\ c \notin zombies /\ l \notin spoilt
                      /\ count[l] = 0 /\ Named(c, l)
                      /\ \A d \in Chans : has[d][l] = 0 /\ ~Ending(d, l)
    OBVIOUS
  <2>1. owner[l] = Nobody /\ l \notin spoilt  BY <1>1
  <2>2. c \notin zombies  BY <1>1, <2>1 DEF Inv, CallsName, InCall
  <2>3. count[l] = 0  BY <2>1 DEF Inv, FreeIsZero
  <2>4. Named(c, l)  BY <1>1, <2>1 DEF Inv, CallsExact, InCall
  <2>5. ASSUME NEW d \in Chans  PROVE has[d][l] = 0 /\ ~Ending(d, l)
    <3>1. ~(has[d][l] > 0)  BY <1>3, <2>1 DEF Inv, HeldIsOwned
    <3>2. ~Ending(d, l)  BY <1>3, <2>1 DEF Inv, CallsExact, InCall, Ending
    <3> QED  BY <1>3, <3>1, <3>2
  <2> QED  BY <2>1, <2>2, <2>3, <2>4, <2>5
<1>5. TypeOK'
  <2>1. count'[l] \in 0 .. CountMod - 1  BY <1>2, <1>3
  <2>2. has' \in [Chans -> [Locks -> Nat]]  BY <1>2, <1>3
  <2>3. spoilt' \in SUBSET Locks  BY <1>1, <1>3
  <2> QED  BY <1>2, <1>3, <2>1, <2>2, <2>3 DEF Inv, TypeOK
<1>6. Parted'
  <2>1. \A d \in Chans : d \in zombies => has'[d] = has[d]  BY <1>2, <1>3
  <2>2. \A d \in Chans : pc'[d] = "gone" => d # c /\ pc[d] = "gone"  BY <1>2, <1>3
  <2>3. \A d \in Chans : d # c => has'[d] = has[d]  BY <1>2, <1>3
  <2> QED  BY <2>1, <2>2, <2>3 DEF Inv, Parted
<1>7. CallsName'  BY <1>2, <1>3 DEF Inv, CallsName, InCall
<1>8. FramesOwn'
  <2>1. \A k : k \notin spoilt' => k \notin spoilt  OBVIOUS
  <2> QED  BY <2>1 DEF Inv, FramesOwn
<1>9. \A d \in Chans : \A k \in Locks : Named(d, k)' <=> Named(d, k)
  BY DEF Named
<1>10. \A d \in Chans : d # c => (InCall(d)' <=> InCall(d)) /\ lock'[d] = lock[d] /\ pc'[d] = pc[d]
  BY <1>2, <1>3 DEF InCall
<1>11. ~InCall(c)'  BY <1>2, <1>3 DEF InCall
<1>12. \A k \in Locks : k # l => owner'[k] = owner[k] /\ count'[k] = count[k]
                                   /\ \A d \in Chans : has'[d][k] = has[d][k]
  BY <1>2, <1>3
<1>13. l \notin spoilt' => owner'[l] = c /\ count'[l] = 1 /\ has'[c][l] = 1
                             /\ \A d \in Chans : d # c => has'[d][l] = 0
  <2> SUFFICES ASSUME l \notin spoilt'
               PROVE  /\ owner'[l] = c /\ count'[l] = 1 /\ has'[c][l] = 1
                      /\ \A d \in Chans : d # c => has'[d][l] = 0
    OBVIOUS
  <2>1. count'[l] = 1
    <3>1. CountMod \in Nat /\ 1 < CountMod  BY <1>3
    <3>2. \A n \in Nat : n < CountMod => n % CountMod = n  BY ONLY <3>1
    <3>3. 1 % CountMod = 1 /\ 0 + 1 = 1  BY <3>1, <3>2
    <3> QED  BY <1>2, <1>3, <1>4, <3>3
  <2> QED  BY <1>2, <1>3, <1>4, <2>1
<1>14. HeldIsOwned'
  <2> SUFFICES ASSUME NEW k \in Locks \ spoilt', NEW d \in Chans, has'[d][k] > 0
               PROVE  owner'[k] = d
    BY DEF HeldIsOwned
  <2>1. CASE k = l  BY <1>13, <2>1
  <2>2. CASE k # l  BY <1>12, <2>2 DEF Inv, HeldIsOwned
  <2> QED  BY <2>1, <2>2
<1>15. FreeIsZero'
  <2> SUFFICES ASSUME NEW k \in Locks \ spoilt', owner'[k] = Nobody
               PROVE  count'[k] = 0
    BY DEF FreeIsZero
  <2>1. k # l  BY <1>3, <1>13
  <2> QED  BY <1>12, <2>1 DEF Inv, FreeIsZero
<1>16. OwnedIsHeld'
  <2> SUFFICES ASSUME NEW k \in Locks \ spoilt', NEW d \in Chans, owner'[k] = d
               PROVE  /\ has'[d][k] > 0 /\ has'[d][k] <= MaxCount
                      /\ Named(d, k)'
                      /\ ~Ending(d, k)' => count'[k] = has'[d][k]
    BY DEF OwnedIsHeld
  <2>1. CASE k = l  BY <1>3, <1>4, <1>9, <1>13, <2>1
  <2>2. CASE k # l
    <3>1. /\ has[d][k] > 0 /\ has[d][k] <= MaxCount
          /\ Named(d, k)
          /\ ~Ending(d, k) => count[k] = has[d][k]
      BY <1>12, <2>2 DEF Inv, OwnedIsHeld
    <3>2. Ending(d, k) => Ending(d, k)'
      <4>1. d = c => ~Ending(d, k)  BY <1>1, <2>2 DEF Ending
      <4> QED  BY <1>10, <4>1 DEF Ending
    <3> QED  BY <1>9, <1>12, <2>2, <3>1, <3>2
  <2> QED  BY <2>1, <2>2
<1>17. CallsExact'
  <2> SUFFICES ASSUME NEW k \in Locks \ spoilt', NEW d \in Chans,
                      InCall(d)', lock'[d] = k
               PROVE  /\ Named(d, k)'
                      /\ pc'[d] = "unlock" =>
                           owner'[k] = d /\ has'[d][k] = 1 /\ count'[k] = 0
    BY DEF CallsExact
  <2>1. d # c /\ InCall(d) /\ lock[d] = k /\ pc'[d] = pc[d]  BY <1>10, <1>11
  <2>2. /\ Named(d, k)
        /\ pc[d] = "unlock" => owner[k] = d /\ has[d][k] = 1 /\ count[k] = 0
    BY <2>1 DEF Inv, CallsExact
  <2>3. pc[d] = "unlock" => k # l  BY <1>3, <1>4, <2>2
  <2> QED  BY <1>9, <1>12, <2>1, <2>2, <2>3
<1> QED  BY <1>5, <1>6, <1>7, <1>8, <1>14, <1>15, <1>16, <1>17 DEF Inv

(* A call that goes on, or that returns without the lock *)
LEMMA WaitKeeps ==
  ASSUME Inv, NEW c \in Chans, pc[c] \in {"ask", "wait"},
         \/ Return(c)
         \/ pc' \in {[pc EXCEPT ![c] = "wait"], [pc EXCEPT ![c] = "signalled"]}
              /\ UNCHANGED lock,
         UNCHANGED <<lockVars, zombies, nmasq, has, spoilt>>
  PROVE  Inv'
<1>1. /\ owner' = owner /\ count' = count /\ lists' = lists
      /\ zombies' = zombies /\ nmasq' = nmasq /\ has' = has /\ spoilt' = spoilt
  BY DEF lockVars
<1>2. /\ pc' \in [Chans -> {"idle", "ask", "wait", "signalled", "unlock", "gone"}]
      /\ lock' \in [Chans -> Locks \cup {NoLock}]
      /\ \A d \in Chans : d # c => pc'[d] = pc[d] /\ lock'[d] = lock[d]
      /\ pc'[c] \in {"idle", "wait", "signalled"}
      /\ pc'[c] # "idle" => lock'[c] = lock[c]
  BY DEF Return, Inv, TypeOK
<1>3. \A d \in Chans : InCall(d)' => InCall(d) /\ lock'[d] = lock[d]
  BY <1>2 DEF InCall
<1>4. TypeOK'  BY <1>1, <1>2 DEF Inv, TypeOK
<1>5. Parted'  BY <1>1, <1>2 DEF Inv, Parted
<1>6. CallsName'  BY <1>1, <1>3 DEF Inv, CallsName
<1>7. FramesOwn' /\ HeldIsOwned' /\ FreeIsZero'
  BY <1>1 DEF Inv, FramesOwn, HeldIsOwned, FreeIsZero
<1>8. \A d \in Chans : \A k \in Locks :
        (Named(d, k)' <=> Named(d, k)) /\ (Ending(d, k)' <=> Ending(d, k))
  BY <1>1, <1>2 DEF Named, Ending
<1>9. OwnedIsHeld'  BY <1>1, <1>8 DEF Inv, OwnedIsHeld
<1>10. CallsExact'
  <2> SUFFICES ASSUME NEW k \in Locks \ spoilt, NEW d \in Chans,
                      InCall(d)', lock'[d] = k
               PROVE  /\ Named(d, k)'
                      /\ pc'[d] = "unlock" =>
                           owner[k] = d /\ has[d][k] = 1 /\ count[k] = 0
    BY <1>1 DEF CallsExact
  <2>1. pc'[d] = "unlock" => pc[d] = "unlock"  BY <1>2
  <2> QED  BY <1>3, <1>8, <2>1 DEF Inv, CallsExact
<1> QED  BY <1>4, <1>5, <1>6, <1>7, <1>9, <1>10 DEF Inv

LEMMA UnlockKeepsInv ==
  ASSUME Inv, NEW c \in Chans, NEW l \in Locks, Unlock(c, l)
  PROVE  Inv'
<1>1. /\ pc[c] = "idle" /\ c \notin zombies /\ owner[l] = c
      /\ count' = [count EXCEPT ![l] = (@ - 1) % CountMod]
      /\ UNCHANGED <<owner, lists, zombies, nmasq, spoilt>>
  BY DEF Unlock, Ready
<1>2. /\ has \in [Chans -> [Locks -> Nat]] /\ count \in [Locks -> 0 .. CountMod - 1]
      /\ pc \in [Chans -> {"idle", "ask", "wait", "signalled", "unlock", "gone"}]
      /\ lock \in [Chans -> Locks \cup {NoLock}]
      /\ MaxCount \in Nat \ {0} /\ CountMod \in Nat /\ MaxCount < CountMod
      /\ Nobody \notin Chans
  BY LockConstants DEF Inv, TypeOK
<1>3. l \notin spoilt => has[c][l] > 0 /\ has[c][l] <= MaxCount /\ count[l] = has[c][l]
                         /\ Named(c, l)
  <2>1. ~Ending(c, l)  BY <1>1 DEF Ending
  <2> QED  BY <1>1, <2>1 DEF Inv, OwnedIsHeld
<1>4. l \notin spoilt => count'[l] = has[c][l] - 1
  <2> SUFFICES ASSUME l \notin spoilt  PROVE count'[l] = has[c][l] - 1  OBVIOUS
  <2>1. has[c][l] - 1 \in Nat /\ has[c][l] - 1 < CountMod  BY <1>2, <1>3
  <2>2. \A n \in Nat : n < CountMod => n % CountMod = n
    <3>1. CountMod \in Nat  BY <1>2
    <3> QED  BY ONLY <3>1
  <2>3. (has[c][l] - 1) % CountMod = has[c][l] - 1  BY <2>1, <2>2
  <2> QED  BY <1>1, <1>2, <1>3, <2>3
<1>5. count' \in [Locks -> 0 .. CountMod - 1]
  <2>1. (count[l] - 1) % CountMod \in 0 .. CountMod - 1  BY <1>2
  <2> QED  BY <1>1, <1>2, <2>1
<1>6. FramesOwn' /\ \A d \in Chans : \A k \in Locks : Named(d, k)' <=> Named(d, k)
  BY <1>1 DEF Inv, FramesOwn, Named
<1>7. FreeIsZero'
  <2>1. owner[l] # Nobody  BY <1>1, <1>2
  <2> QED  BY <1>1, <1>2, <2>1 DEF Inv, FreeIsZero
<1>8. CASE count'[l] = 0
  <2>1. /\ pc' = [pc EXCEPT ![c] = "unlock"] /\ lock' = [lock EXCEPT ![c] = l]
        /\ has' = has
    BY <1>1, <1>8 DEF Unlock
  <2>2. TypeOK'  BY <1>1, <1>2, <1>5, <2>1 DEF Inv, TypeOK
  <2>3. Parted' /\ HeldIsOwned'  BY <1>1, <1>2, <2>1 DEF Inv, Parted, HeldIsOwned
  <2>4. CallsName'  BY <1>1, <1>2, <2>1 DEF Inv, CallsName, InCall
  <2>5. \A d \in Chans : \A k \in Locks :
          Ending(d, k)' <=> Ending(d, k) \/ (d = c /\ k = l)
    BY <1>1, <1>2, <2>1 DEF Ending
  <2>6. OwnedIsHeld'
    BY <1>1, <1>2, <1>6, <2>1, <2>5 DEF Inv, OwnedIsHeld
  <2>7. CallsExact'
    <3> SUFFICES ASSUME NEW k \in Locks \ spoilt, NEW d \in Chans,
                        InCall(d)', lock'[d] = k
                 PROVE  /\ Named(d, k)
                        /\ pc'[d] = "unlock" =>
                             owner[k] = d /\ has[d][k] = 1 /\ count'[k] = 0
      BY <1>1, <1>6, <2>1 DEF CallsExact
    <3>1. CASE d = c
      <4>1. k = l  BY <1>2, <2>1, <3>1
      <4>2. has[c][l] = 1  BY <1>2, <1>3, <1>4, <1>8, <4>1
      <4> QED  BY <1>1, <1>3, <1>8, <3>1, <4>1, <4>2
    <3>2. CASE d # c
      <4>1. InCall(d) /\ lock[d] = k /\ pc'[d] = pc[d]  BY <1>2, <2>1, <3>2 DEF InCall
      <4>2. /\ Named(d, k)
            /\ pc[d] = "unlock" => owner[k] = d /\ has[d][k] = 1 /\ count[k] = 0
        BY <4>1 DEF Inv, CallsExact
      <4>3. pc[d] = "unlock" => k # l  BY <1>1, <3>2, <4>2
      <4> QED  BY <1>1, <1>2, <4>1, <4>2, <4>3
    <3> QED  BY <3>1, <3>2
  <2> QED  BY <1>6, <1>7, <2>2, <2>3, <2>4, <2>6, <2>7 DEF Inv
<1>9. CASE count'[l] # 0
  <2>1. /\ has' = IF has[c][l] = 0 THEN has ELSE [has EXCEPT ![c][l] = @ - 1]
        /\ pc' = pc /\ lock' = lock
    BY <1>1, <1>9 DEF Unlock, Given
  <2>2. has' \in [Chans -> [Locks -> Nat]]  BY <1>2, <2>1
  <2>3. \A d \in Chans : \A k \in Locks : d # c \/ k # l => has'[d][k] = has[d][k]
    BY <1>2, <2>1
  <2>4. TypeOK'  BY <1>1, <1>2, <1>5, <2>1, <2>2 DEF Inv, TypeOK
  <2>5. Parted'  BY <1>1, <2>1, <2>3 DEF Inv, Parted
  <2>6. CallsName'  BY <1>1, <2>1 DEF Inv, CallsName, InCall
  <2>7. HeldIsOwned'  BY <1>1, <2>3 DEF Inv, HeldIsOwned
  <2>8. l \notin spoilt => has'[c][l] = has[c][l] - 1 /\ has'[c][l] > 0
    BY <1>2, <1>3, <1>4, <1>9, <2>1
  <2>9. OwnedIsHeld'
    <3> SUFFICES ASSUME NEW k \in Locks \ spoilt, NEW d \in Chans, owner[k] = d
                 PROVE  /\ has'[d][k] > 0 /\ has'[d][k] <= MaxCount
                        /\ Named(d, k)
                        /\ ~Ending(d, k) => count'[k] = has'[d][k]
      BY <1>1, <1>6, <2>1 DEF OwnedIsHeld, Ending
    <3>1. CASE k = l
      <4>1. d = c  BY <1>1, <3>1
      <4> QED  BY <1>2, <1>3, <1>4, <2>8, <3>1, <4>1
    <3>2. CASE k # l  BY <1>1, <1>2, <2>3, <3>2 DEF Inv, OwnedIsHeld
    <3> QED  BY <3>1, <3>2
  <2>10. CallsExact'
    <3> SUFFICES ASSUME NEW k \in Locks \ spoilt, NEW d \in Chans,
                        InCall(d), lock[d] = k
                 PROVE  /\ Named(d, k)
                        /\ pc[d] = "unlock" =>
                             owner[k] = d /\ has'[d][k] = 1 /\ count'[k] = 0
      BY <1>1, <1>6, <2>1 DEF CallsExact, InCall
    <3>1. d # c  BY <1>1 DEF InCall
    <3>2. /\ Named(d, k)
          /\ pc[d] = "unlock" => owner[k] = d /\ has[d][k] = 1 /\ count[k] = 0
      BY DEF Inv, CallsExact
    <3>3. pc[d] = "unlock" => k # l  BY <1>1, <3>1, <3>2
    <3> QED  BY <1>1, <1>2, <2>3, <3>1, <3>2, <3>3
  <2> QED  BY <1>6, <1>7, <2>4, <2>5, <2>6, <2>7, <2>9, <2>10 DEF Inv
<1> QED  BY <1>8, <1>9

LEMMA UnlockLastKeeps ==
  ASSUME Inv, NEW c \in Chans, UnlockLast(c)
  PROVE  Inv'
<1>1. PICK l \in Locks : l = lock[c]
  BY DEF UnlockLast, Inv, CallsName, InCall
<1>2. /\ pc[c] = "unlock"
      /\ owner' = [owner EXCEPT ![l] = Nobody]
      /\ has' = IF c \in zombies \/ has[c][l] = 0 THEN has
                ELSE [has EXCEPT ![c][l] = @ - 1]
      /\ pc' = [pc EXCEPT ![c] = "idle"]
      /\ lock' = [lock EXCEPT ![c] = NoLock]
      /\ UNCHANGED <<count, lists, zombies, nmasq, spoilt>>
  BY <1>1 DEF UnlockLast, Return, Given
<1>3. /\ has \in [Chans -> [Locks -> Nat]]
      /\ owner \in [Locks -> Chans \cup {Nobody}]
      /\ pc \in [Chans -> {"idle", "ask", "wait", "signalled", "unlock", "gone"}]
      /\ lock \in [Chans -> Locks \cup {NoLock}]
      /\ Nobody \notin Chans
  BY LockConstants DEF Inv, TypeOK
<1>4. has' \in [Chans -> [Locks -> Nat]]
  <2>1. CASE c \in zombies \/ has[c][l] = 0  BY <1>2, <1>3, <2>1
  <2>2. CASE ~(c \in zombies \/ has[c][l] = 0)
    <3>1. has[c][l] \in Nat /\ has[c][l] # 0  BY <1>3, <2>2
    <3>2. has[c][l] - 1 \in Nat  BY <3>1
    <3>3. has' = [has EXCEPT ![c][l] = @ - 1]  BY <1>2, <2>2
    <3> QED  BY <1>3, <3>2, <3>3
  <2> QED  BY <2>1, <2>2
<1>5. \A d \in Chans : \A k \in Locks :
        (d # c \/ k # l \/ c \in zombies \/ has[c][l] = 0) => has'[d][k] = has[d][k]
  BY <1>2, <1>3
<1>6. \A d \in Chans : d # c => (InCall(d)' <=> InCall(d)) /\ lock'[d] = lock[d] /\ pc'[d] = pc[d]
  BY <1>2, <1>3 DEF InCall
<1>7. ~InCall(c)' /\ pc'[c] = "idle"  BY <1>2, <1>3 DEF InCall
<1>8. l \notin spoilt => /\ owner[l] = c /\ count[l] = 0 /\ c \notin zombies
                         /\ \A d \in Chans : has'[d][l] = 0
  <2> SUFFICES ASSUME l \notin spoilt
               PROVE  /\ owner[l] = c /\ count[l] = 0 /\ c \notin zombies
                      /\ \A d \in Chans : has'[d][l] = 0
    OBVIOUS
  <2>1. owner[l] = c /\ count[l] = 0 /\ has[c][l] = 1
    BY <1>1, <1>2 DEF Inv, CallsExact, InCall
  <2>2. c \notin zombies  BY <1>1, <1>2 DEF Inv, CallsName, InCall
  <2>3. \A d \in Chans : d # c => ~(has[d][l] > 0)
    BY <2>1 DEF Inv, HeldIsOwned
  <2>4. \A d \in Chans : d # c => has'[d][l] = 0  BY <1>3, <1>5, <2>3
  <2>5. has'[c][l] = 0  BY <1>2, <1>3, <2>1, <2>2
  <2> QED  BY <2>1, <2>2, <2>4, <2>5
<1>9. TypeOK'  BY <1>2, <1>3, <1>4 DEF Inv, TypeOK
<1>10. Parted'
  <2>1. \A d \in Chans : (d \in zombies \/ pc'[d] = "gone") => (d \in zombies \/ pc[d] = "gone")
    BY <1>6, <1>7
  <2> QED  BY <1>2, <1>5, <2>1 DEF Inv, Parted
<1>11. CallsName'  BY <1>2, <1>6, <1>7 DEF Inv, CallsName
<1>12. FramesOwn' /\ \A d \in Chans : \A k \in Locks : Named(d, k)' <=> Named(d, k)
  BY <1>2 DEF Inv, FramesOwn, Named
<1>13. \A k \in Locks : k # l => owner'[k] = owner[k]  BY <1>2, <1>3
<1>14. owner'[l] = Nobody  BY <1>2, <1>3
<1>15. HeldIsOwned'
  <2> SUFFICES ASSUME NEW k \in Locks \ spoilt, NEW d \in Chans, has'[d][k] > 0
               PROVE  owner'[k] = d
    BY <1>2 DEF HeldIsOwned
  <2>1. k # l  BY <1>8
  <2> QED  BY <1>5, <1>13, <2>1 DEF Inv, HeldIsOwned
<1>16. FreeIsZero'  BY <1>2, <1>8, <1>13 DEF Inv, FreeIsZero
<1>17. OwnedIsHeld'
  <2> SUFFICES ASSUME NEW k \in Locks \ spoilt, NEW d \in Chans, owner'[k] = d
               PROVE  /\ has'[d][k] > 0 /\ has'[d][k] <= MaxCount
                      /\ Named(d, k)
                      /\ ~Ending(d, k)' => count[k] = has'[d][k]
    BY <1>2, <1>12 DEF OwnedIsHeld
  <2>1. k # l /\ owner[k] = d  BY <1>3, <1>13, <1>14
  <2>2. Ending(d, k) => Ending(d, k)'
    <3>1. d = c => ~Ending(d, k)  BY <1>1, <2>1 DEF Ending
    <3> QED  BY <1>6, <3>1 DEF Ending
  <2> QED  BY <1>5, <2>1, <2>2 DEF Inv, OwnedIsHeld
<1>18. CallsExact'
  <2> SUFFICES ASSUME NEW k \in Locks \ spoilt, NEW d \in Chans,
                      InCall(d)', lock'[d] = k
               PROVE  /\ Named(d, k)
                      /\ pc'[d] = "unlock" =>
                           owner'[k] = d /\ has'[d][k] = 1 /\ count[k] = 0
    BY <1>2, <1>12 DEF CallsExact
  <2>1. d # c /\ InCall(d) /\ lock[d] = k /\ pc'[d] = pc[d]  BY <1>6, <1>7
  <2>2. /\ Named(d, k)
        /\ pc[d] = "unlock" => owner[k] = d /\ has[d][k] = 1 /\ count[k] = 0
    BY <2>1 DEF Inv, CallsExact
  <2>3. pc[d] = "unlock" => k # l  BY <1>8, <2>1, <2>2
  <2> QED  BY <1>5, <1>13, <2>1, <2>2, <2>3
<1> QED  BY <1>9, <1>10, <1>11, <1>12, <1>15, <1>16, <1>17, <1>18 DEF Inv

LEMMA HangupKeeps ==
  ASSUME Inv, NEW c \in Chans, Hangup(c)
  PROVE  Inv'
<1>1. /\ pc[c] = "idle"
      /\ pc' = [pc EXCEPT ![c] = "gone"]
      /\ owner' = [l \in Locks |-> IF l \in Released(c) THEN Nobody ELSE owner[l]]
      /\ count' = [l \in Locks |-> IF l \in Released(c) THEN 0 ELSE count[l]]
      /\ lists' = [lists EXCEPT ![c] = <<>>]
      /\ has' = [has EXCEPT ![c] = [l \in Locks |-> 0]]
      /\ zombies' = zombies \ {c}
      /\ lock' = lock /\ nmasq' = nmasq /\ spoilt' = spoilt
  BY DEF Hangup
<1>2. /\ has \in [Chans -> [Locks -> Nat]] /\ count \in [Locks -> 0 .. CountMod - 1]
      /\ owner \in [Locks -> Chans \cup {Nobody}]
      /\ lists \in [Chans -> Seq(SUBSET Frames)]
      /\ pc \in [Chans -> {"idle", "ask", "wait", "signalled", "unlock", "gone"}]
      /\ lock \in [Chans -> Locks \cup {NoLock}]
      /\ CountMod \in Nat /\ 0 < CountMod
      /\ Nobody \notin Chans
  BY LockConstants DEF Inv, TypeOK
<1>3. ASSUME NEW k \in Locks \ spoilt  PROVE k \in Released(c) <=> owner[k] = c
  <2>1. ASSUME owner[k] = c  PROVE k \in Released(c)
    <3>1. Named(c, k)  BY <2>1 DEF Inv, OwnedIsHeld
    <3>2. [lock |-> k, channel |-> c] \in AllFrames(c)  BY <3>1 DEF Named, AllFrames
    <3> QED  BY <2>1, <3>2 DEF Released
  <2>2. ASSUME k \in Released(c)  PROVE owner[k] = c
    <3>1. PICK f \in AllFrames(c) : f.lock = k /\ owner[f.lock] = f.channel
      BY <2>2 DEF Released
    <3>2. f.channel = c  BY <3>1 DEF AllFrames, Inv, FramesOwn
    <3> QED  BY <3>1, <3>2
  <2> QED  BY <2>1, <2>2
<1>4. \A k \in Locks \ spoilt :
        IF owner[k] = c THEN owner'[k] = Nobody /\ count'[k] = 0
        ELSE owner'[k] = owner[k] /\ count'[k] = count[k]
  BY <1>1, <1>3
<1>5. \A d \in Chans : d # c => /\ lists'[d] = lists[d] /\ has'[d] = has[d]
                                 /\ pc'[d] = pc[d] /\ lock'[d] = lock[d]
                                 /\ (InCall(d)' <=> InCall(d))
  BY <1>1, <1>2 DEF InCall
<1>6. /\ lists'[c] = <<>> /\ \A l \in Locks : has'[c][l] = 0
      /\ pc'[c] = "gone" /\ ~InCall(c)'
  BY <1>1, <1>2 DEF InCall
<1>7. TypeOK'
  <2>1. owner' \in [Locks -> Chans \cup {Nobody}]  BY <1>1, <1>2
  <2>2. count' \in [Locks -> 0 .. CountMod - 1]
    <3>1. 0 \in 0 .. CountMod - 1  BY <1>2
    <3> QED  BY <1>1, <1>2, <3>1
  <2>3. lists' \in [Chans -> Seq(SUBSET Frames)]
    <3>1. <<>> \in Seq(SUBSET Frames)  OBVIOUS
    <3> QED  BY <1>1, <1>2, <3>1
  <2>4. has' \in [Chans -> [Locks -> Nat]]  BY <1>1, <1>2
  <2> QED  BY <1>1, <1>2, <2>1, <2>2, <2>3, <2>4 DEF Inv, TypeOK
<1>8. Parted'  BY <1>1, <1>5, <1>6 DEF Inv, Parted
<1>9. CallsName'  BY <1>1, <1>5, <1>6 DEF Inv, CallsName
<1>10. FramesOwn'
  <2>1. Len(lists'[c]) = 0  BY <1>6
  <2> QED  BY <1>1, <1>5, <2>1 DEF Inv, FramesOwn
<1>11. \A d \in Chans : \A k \in Locks : d # c =>
         (Named(d, k)' <=> Named(d, k)) /\ (Ending(d, k)' <=> Ending(d, k))
  BY <1>5 DEF Named, Ending
<1>12. HeldIsOwned'  BY <1>1, <1>4, <1>5, <1>6 DEF Inv, HeldIsOwned
<1>13. FreeIsZero'  BY <1>1, <1>4 DEF Inv, FreeIsZero
<1>14. OwnedIsHeld'
  <2> SUFFICES ASSUME NEW k \in Locks \ spoilt, NEW d \in Chans, owner'[k] = d
               PROVE  /\ has'[d][k] > 0 /\ has'[d][k] <= MaxCount
                      /\ Named(d, k)'
                      /\ ~Ending(d, k)' => count'[k] = has'[d][k]
    BY <1>1 DEF OwnedIsHeld
  <2>1. owner[k] = d /\ d # c /\ count'[k] = count[k]  BY <1>2, <1>4
  <2> QED  BY <1>5, <1>11, <2>1 DEF Inv, OwnedIsHeld
<1>15. CallsExact'
  <2> SUFFICES ASSUME NEW k \in Locks \ spoilt, NEW d \in Chans,
                      InCall(d)', lock'[d] = k
               PROVE  /\ Named(d, k)'
                      /\ pc'[d] = "unlock" =>
                           owner'[k] = d /\ has'[d][k] = 1 /\ count'[k] = 0
    BY <1>1 DEF CallsExact
  <2>1. d # c /\ InCall(d) /\ lock[d] = k  BY <1>5, <1>6
  <2>2. /\ Named(d, k)
        /\ pc[d] = "unlock" => owner[k] = d /\ has[d][k] = 1 /\ count[k] = 0
    BY <2>1 DEF Inv, CallsExact
  <2> QED  BY <1>4, <1>5, <1>11, <2>1, <2>2
<1> QED  BY <1>7, <1>8, <1>9, <1>10, <1>12, <1>13, <1>14, <1>15 DEF Inv

LEMMA MasqueradeKeeps ==
  ASSUME Inv, NEW orig \in Chans, NEW clone \in Chans, Masquerade(orig, clone)
  PROVE  Inv'
<1>1. /\ orig # clone /\ orig \notin zombies /\ clone \notin zombies
      /\ pc[orig] # "gone" /\ pc[clone] # "gone"
      /\ nmasq < MaxMasqs /\ nmasq' = nmasq + 1
      /\ zombies' = zombies \cup {clone}
      /\ has' = [has EXCEPT ![orig] = [l \in Locks |-> @[l] + has[clone][l]],
                            ![clone] = [l \in Locks |-> 0]]
      /\ spoilt' = spoilt \cup SpoiltBy(clone)
      /\ count' = count /\ pc' = pc /\ lock' = lock
  BY DEF Masquerade, threadVars
<1>2. /\ has \in [Chans -> [Locks -> Nat]] /\ owner \in [Locks -> Chans \cup {Nobody}]
      /\ lists \in [Chans -> Seq(SUBSET Frames)]
      /\ nmasq \in 0 .. MaxMasqs /\ MaxMasqs \in Nat
      /\ Nobody \notin Chans
  BY LockConstants DEF Inv, TypeOK
<1>3. spoilt' \in SUBSET Locks
  <2>1. InCall(clone) => lock[clone] \in Locks  BY DEF Inv, CallsName
  <2>2. ASSUME NEW i \in 2 .. Len(lists[clone]), NEW f \in lists[clone][i]
        PROVE  f.lock \in Locks
    <3>1. lists[clone] \in Seq(SUBSET Frames)  BY <1>2
    <3>2. i \in 1 .. Len(lists[clone])  BY <3>1
    <3>3. f \in Frames  BY <3>1, <3>2
    <3> QED  BY <3>3 DEF Frames
  <2>3. SpoiltBy(clone) \in SUBSET Locks  BY <2>1, <2>2 DEF SpoiltBy
  <2> QED  BY <1>1, <2>3 DEF Inv, TypeOK
<1>4. InCall(clone) => lock[clone] \in spoilt'  BY <1>1 DEF SpoiltBy
<1>5. /\ lists' \in [Chans -> Seq(SUBSET Frames)] /\ lists'[clone] = <<>>
      /\ owner' \in [Locks -> Chans \cup {Nobody}]
      /\ \A d \in Chans \ {orig, clone} : lists'[d] = lists[d]
      /\ FramesOwn'
      /\ \A d \in Chans \ {clone} : \A k \in Locks : Named(d, k) => Named(d, k)'
      /\ \A k \in Locks \ spoilt' :
           IF owner[k] = clone THEN owner'[k] = orig /\ Named(orig, k)'
           ELSE owner'[k] = owner[k]
  <2>1. CASE lists[clone] = <<>>
    <3>1. owner' = owner /\ lists' = lists  BY <2>1 DEF Masquerade
    <3>2. \A k \in Locks \ spoilt' : owner[k] # clone
      <4> SUFFICES ASSUME NEW k \in Locks \ spoilt', owner[k] = clone  PROVE FALSE
        OBVIOUS
      <4>1. Named(clone, k)  BY <1>1 DEF Inv, OwnedIsHeld
      <4>2. Len(lists[clone]) = 0  BY <2>1
      <4> QED  BY <4>1, <4>2 DEF Named
    <3>3. FramesOwn'
      <4>1. \A k : k \notin spoilt' => k \notin spoilt  BY <1>1
      <4> QED  BY <3>1, <4>1 DEF Inv, FramesOwn
    <3> QED  BY <1>2, <2>1, <3>1, <3>2, <3>3 DEF Named
  <2>2. CASE lists[clone] # <<>>
    <3>1. /\ owner' = [l \in Locks |-> IF Listed(clone, l) /\ owner[l] = clone
                                         THEN orig ELSE owner[l]]
          /\ lists' = [lists EXCEPT ![orig] = @ \o Fixed(clone, orig), ![clone] = <<>>]
      BY <2>2 DEF Masquerade
    <3>2. /\ lists' \in [Chans -> Seq(SUBSET Frames)] /\ lists'[clone] = <<>>
          /\ \A d \in Chans \ {orig, clone} : lists'[d] = lists[d]
          /\ FramesOwn'
          /\ \A d \in Chans \ {clone} : \A k \in Locks : Named(d, k) => Named(d, k)'
          /\ \A k \in Locks \ spoilt' : Named(clone, k) =>
               Listed(clone, k) /\ Named(orig, k)'
      BY <1>1, <2>2, <3>1, MovedLists DEF Inv
    <3>3. \A k \in Locks \ spoilt' : owner[k] = clone => Named(clone, k)
      BY <1>1 DEF Inv, OwnedIsHeld
    <3>4. owner' \in [Locks -> Chans \cup {Nobody}]  BY <1>2, <3>1
    <3> QED  BY <3>1, <3>2, <3>3, <3>4
  <2> QED  BY <2>1, <2>2
<1>6. /\ has' \in [Chans -> [Locks -> Nat]]
      /\ \A k \in Locks : has'[orig][k] = has[orig][k] + has[clone][k] /\ has'[clone][k] = 0
      /\ \A d \in Chans \ {orig, clone} : has'[d] = has[d]
  BY <1>1, <1>2
<1>7. \A k \in Locks \ spoilt' : \A d \in Chans : has[d][k] > 0 <=> owner[k] = d
  BY <1>1 DEF Inv, HeldIsOwned, OwnedIsHeld
<1>8. \A k \in Locks \ spoilt' : \A d \in Chans :
        owner'[k] = d => d # clone /\ \E e \in Chans :
          /\ owner[k] = e /\ has'[d][k] = has[e][k] /\ Named(d, k)'
          /\ (e # d => e = clone)
  <2> SUFFICES ASSUME NEW k \in Locks \ spoilt', NEW d \in Chans, owner'[k] = d
               PROVE  d # clone /\ \E e \in Chans :
                        /\ owner[k] = e /\ has'[d][k] = has[e][k] /\ Named(d, k)'
                        /\ (e # d => e = clone)
    OBVIOUS
  <2>1. CASE owner[k] = clone
    <3>1. d = orig /\ Named(orig, k)'  BY <1>5, <2>1
    <3>2. has[orig][k] = 0  BY <1>1, <1>2, <1>7, <2>1
    <3>3. has'[orig][k] = has[clone][k]  BY <1>2, <1>6, <3>2
    <3> QED  BY <1>1, <2>1, <3>1, <3>3
  <2>2. CASE owner[k] # clone
    <3>1. owner[k] = d /\ d # clone  BY <1>5, <2>2
    <3>2. has[clone][k] = 0  BY <1>2, <1>7, <2>2
    <3>3. has'[d][k] = has[d][k]
      <4>1. CASE d = orig
        <5>1. has[orig][k] \in Nat  BY <1>2
        <5>2. has'[orig][k] = has[orig][k] + 0  BY <1>6, <3>2
        <5> QED  BY <4>1, <5>1, <5>2
      <4>2. CASE d # orig  BY <1>6, <3>1, <4>2
      <4> QED  BY <4>1, <4>2
    <3>4. k \notin spoilt  BY <1>1
    <3>5. Named(d, k)'  BY <1>5, <3>1, <3>4 DEF Inv, OwnedIsHeld
    <3> QED  BY <3>1, <3>3, <3>5
  <2> QED  BY <2>1, <2>2
<1>9. TypeOK'
  <2>1. nmasq' \in 0 .. MaxMasqs  BY <1>1, <1>2
  <2> QED  BY <1>1, <1>3, <1>5, <1>6, <2>1 DEF Inv, TypeOK
<1>10. Parted'  BY <1>1, <1>5, <1>6 DEF Inv, Parted
<1>11. CallsName'  BY <1>1, <1>4 DEF Inv, CallsName, InCall
<1>12. HeldIsOwned'
  <2> SUFFICES ASSUME NEW k \in Locks \ spoilt', NEW d \in Chans, has'[d][k] > 0
               PROVE  owner'[k] = d
    BY DEF HeldIsOwned
  <2>1. d # clone  BY <1>6
  <2>2. CASE d = orig
    <3>1. has[orig][k] > 0 \/ has[clone][k] > 0  BY <1>2, <1>6, <2>2
    <3>2. owner[k] = orig \/ owner[k] = clone  BY <1>7, <3>1
    <3> QED  BY <1>1, <1>5, <2>2, <3>2
  <2>3. CASE d # orig
    <3>1. has[d][k] > 0  BY <1>6, <2>1, <2>3
    <3> QED  BY <1>5, <1>7, <2>1, <3>1
  <2> QED  BY <2>2, <2>3
<1>13. FreeIsZero'
  <2> SUFFICES ASSUME NEW k \in Locks \ spoilt', owner'[k] = Nobody  PROVE count[k] = 0
    BY <1>1 DEF FreeIsZero
  <2>1. owner[k] = Nobody  BY <1>2, <1>5
  <2> QED  BY <1>1, <2>1 DEF Inv, FreeIsZero
<1>14. OwnedIsHeld'
  <2> SUFFICES ASSUME NEW k \in Locks \ spoilt', NEW d \in Chans, owner'[k] = d
               PROVE  /\ has'[d][k] > 0 /\ has'[d][k] <= MaxCount
                      /\ Named(d, k)'
                      /\ ~Ending(d, k) => count[k] = has'[d][k]
    BY <1>1 DEF OwnedIsHeld, Ending
  <2>1. PICK e \in Chans : /\ owner[k] = e /\ has'[d][k] = has[e][k] /\ Named(d, k)'
                           /\ (e # d => e = clone)
    BY <1>8
  <2>2. k \notin spoilt  BY <1>1
  <2>3. /\ has[e][k] > 0 /\ has[e][k] <= MaxCount
        /\ ~Ending(e, k) => count[k] = has[e][k]
    BY <2>1, <2>2 DEF Inv, OwnedIsHeld
  <2>4. e # d => ~Ending(e, k)  BY <1>4, <2>1 DEF Ending, InCall
  <2> QED  BY <2>1, <2>3, <2>4
<1>15. CallsExact'
  <2> SUFFICES ASSUME NEW k \in Locks \ spoilt', NEW d \in Chans, InCall(d), lock[d] = k
               PROVE  /\ Named(d, k)'
                      /\ pc[d] = "unlock" =>
                           owner'[k] = d /\ has'[d][k] = 1 /\ count[k] = 0
    BY <1>1 DEF CallsExact, InCall
  <2>1. d # clone /\ k \notin spoilt  BY <1>1, <1>4
  <2>2. /\ Named(d, k)
        /\ pc[d] = "unlock" => owner[k] = d /\ has[d][k] = 1 /\ count[k] = 0
    BY <2>1 DEF Inv, CallsExact
  <2>3. Named(d, k)'  BY <1>5, <2>1, <2>2
  <2>4. ASSUME pc[d] = "unlock"
        PROVE  owner'[k] = d /\ has'[d][k] = 1 /\ count[k] = 0
    <3>1. owner'[k] = d  BY <1>5, <2>1, <2>2, <2>4
    <3>2. PICK e \in Chans : owner[k] = e /\ has'[d][k] = has[e][k]  BY <1>8, <3>1
    <3> QED  BY <2>2, <2>4, <3>1, <3>2
  <2> QED  BY <2>3, <2>4
<1> QED  BY <1>5, <1>9, <1>10, <1>11, <1>12, <1>13, <1>14, <1>15 DEF Inv

LEMMA NextKeeps == Inv /\ [Next]_vars => Inv'
<1> SUFFICES ASSUME Inv, [Next]_vars  PROVE Inv'  OBVIOUS
<1>1. ASSUME NEW c \in Chans, NEW l \in Locks, Begin(c, l)  PROVE Inv'
  BY <1>1, BeginKeeps
<1>2. ASSUME NEW c \in Chans, NEW l \in Locks, BeginFails(c, l)  PROVE Inv'
  BY <1>2, BeginFailsKeeps
<1>3. ASSUME NEW c \in Chans, NEW l \in Locks, Unlock(c, l)  PROVE Inv'
  BY <1>3, UnlockKeepsInv
<1>4. ASSUME NEW c \in Chans, Request(c)  PROVE Inv'
  <2>1. CASE owner[lock[c]] = Nobody
    <3>1. spoilt' = spoilt \cup {l \in {lock[c]} : owner[l] # Nobody}
      BY <1>4, <2>1 DEF Request
    <3> QED  BY <1>4, <2>1, <3>1, TakeKeeps DEF Request
  <2>2. CASE owner[lock[c]] # Nobody
    <3>1. /\ pc[c] \in {"ask", "wait"}
          /\ \/ Return(c)
             \/ pc' \in {[pc EXCEPT ![c] = "wait"], [pc EXCEPT ![c] = "signalled"]}
                  /\ UNCHANGED lock
          /\ UNCHANGED <<lockVars, zombies, nmasq, has, spoilt>>
      BY <1>4, <2>2 DEF Request, lockVars
    <3> QED  BY <3>1, WaitKeeps
  <2> QED  BY <2>1, <2>2
<1>5. ASSUME NEW c \in Chans, Timeout(c)  PROVE Inv'
  BY <1>5, WaitKeeps DEF Timeout
<1>6. ASSUME NEW c \in Chans, Awake(c)  PROVE Inv'
  BY <1>6, TakeKeeps DEF Awake
<1>7. ASSUME NEW c \in Chans, UnlockLast(c)  PROVE Inv'
  BY <1>7, UnlockLastKeeps
<1>8. ASSUME NEW c \in Chans, Signal(c)  PROVE Inv'
  BY <1>8, WaitKeeps DEF Signal
<1>9. ASSUME NEW c \in Chans, Hangup(c)  PROVE Inv'
  BY <1>9, HangupKeeps
<1>10. ASSUME NEW orig \in Chans, NEW clone \in Chans, Masquerade(orig, clone)
       PROVE Inv'
  BY <1>10, MasqueradeKeeps
<1>11. CASE UNCHANGED vars
  <2>1. /\ owner' = owner /\ count' = count /\ lists' = lists /\ pc' = pc /\ lock' = lock
        /\ zombies' = zombies /\ nmasq' = nmasq /\ has' = has /\ spoilt' = spoilt
    BY <1>11 DEF vars, lockVars, threadVars
  <2>2. TypeOK' /\ Parted' /\ CallsName' /\ FramesOwn'
    BY <2>1 DEF Inv, TypeOK, Parted, CallsName, FramesOwn, InCall
  <2>3. HeldIsOwned' /\ OwnedIsHeld' /\ FreeIsZero' /\ CallsExact'
    BY <2>1 DEF Inv, HeldIsOwned, OwnedIsHeld, FreeIsZero, CallsExact, InCall, Named, Ending
  <2> QED  BY <2>2, <2>3 DEF Inv
<1> QED
  BY <1>1, <1>2, <1>3, <1>4, <1>5, <1>6, <1>7, <1>8, <1>9, <1>10, <1>11 DEF Next, CallStep

LEMMA InvHolds == Spec => []Inv
<1>1. Init => Inv  BY InitKeeps
<1> QED  BY <1>1, NextKeeps, PTL DEF Spec

(* The variables keep their types; count never leaves its width.           *)
THEOREM LockTypesHold == Spec => []TypeOK
<1>1. Inv => TypeOK  BY DEF Inv
<1> QED  BY <1>1, InvHolds, PTL

(* For any number of channels and locks, two channels have the same lock   *)
(* only after one of the mishaps has happened to it: the owner, which      *)
(* get_lock tests with the mutex of the lock, is who has it.               *)
THEOREM LocksExclusive == Spec => []Exclusive
<1>1. Inv => Exclusive  BY DEF Inv, HeldIsOwned, Exclusive
<1> QED  BY <1>1, InvHolds, PTL

(* A lock that nobody has has no owner, and can be had, unless a mishap    *)
(* has happened to it: every owner's list holds a frame of the lock by     *)
(* which lock_free releases it, also after masquerades.                    *)
THEOREM LocksAvailable == Spec => []Available
<1>1. ASSUME Inv  PROVE Available
  <2> SUFFICES ASSUME NEW l \in Locks \ spoilt, \A c \in Chans : has[c][l] = 0
               PROVE  owner[l] = Nobody
    BY DEF Available
  <2>1. owner[l] \in Chans \cup {Nobody}  BY <1>1 DEF Inv, TypeOK
  <2>2. \A c \in Chans : owner[l] # c  BY <1>1 DEF Inv, OwnedIsHeld
  <2> QED  BY <2>1, <2>2
<1> QED  BY <1>1, InvHolds, PTL
=============================================================================
