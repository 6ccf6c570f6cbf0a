------------------------- MODULE AutoServiceProofs -------------------------
(***************************************************************************)
(* Proofs about AutoService, for every number of channels, callers,        *)
(* entries and frames, and whatever the width of as_chan_list_state.       *)
(*                                                                         *)
(* EntryInv: where the entries are; UseInv: how often they are used;       *)
(* OwnInv: what their flags remember; FrameInv: whose frames are where;    *)
(* OrderInv: in which order. Each of them is inductive with those before   *)
(* it. The lemmas at the start are induction over the natural numbers, and *)
(* the existence of the function that a fold over a finite set computes.   *)
(***************************************************************************)
EXTENDS AutoService, FiniteSetTheorems, TLAPS

(* Induction over the natural numbers, for a set of them *)
LEMMA Induction ==
  ASSUME NEW G \in SUBSET Nat, 0 \in G, \A n \in G : n + 1 \in G
  PROVE  G = Nat
<1> SUFFICES ASSUME Nat \ G # {} PROVE FALSE
  OBVIOUS
<1>1. PICK x \in Nat \ G : \A y \in Nat \ G : ~ (<<y, x>> \in OpToRel(<, Nat))
  <2> DEFINE T == Nat \ G
  <2>1. T \subseteq Nat /\ T # {}
    OBVIOUS
  <2>2. \E x \in T : \A y \in T : ~ (<<y, x>> \in OpToRel(<, Nat))
    <3> HIDE DEF T
    <3> QED
      BY <2>1, NatLessThanWellFounded, WFMin
  <2> QED
    BY <2>2
<1>2. \A y \in Nat \ G : ~ (y < x)
  BY <1>1 DEF OpToRel
<1>3. x - 1 \in Nat
  OBVIOUS
<1>4. x - 1 \in G
  BY <1>2, <1>3
<1>5. (x - 1) + 1 \in G
  BY <1>4
<1>6. (x - 1) + 1 = x
  OBVIOUS
<1> QED
  BY <1>1, <1>5, <1>6

(* A non-empty set of numbers up to n has a greatest one. *)
LEMMA Greatest ==
  ASSUME NEW n \in Nat, NEW L \in SUBSET (1 .. n), L # {}
  PROVE  \E e \in L : \A d \in L : d <= e
<1> DEFINE T == {n - e : e \in L}
<1>1. T \subseteq Nat /\ T # {}
  <2>1. \A e \in L : n - e \in Nat
    OBVIOUS
  <2>2. PICK e : e \in L
    OBVIOUS
  <2> QED
    BY <2>1, <2>2
<1>2. PICK x \in T : \A y \in T : ~ (<<y, x>> \in OpToRel(<, Nat))
  <2>1. \E x \in T : \A y \in T : ~ (<<y, x>> \in OpToRel(<, Nat))
    <3> HIDE DEF T
    <3> QED
      BY <1>1, NatLessThanWellFounded, WFMin
  <2> QED
    BY <2>1
<1>3. \A y \in T : ~ (y < x)
  BY <1>1, <1>2 DEF OpToRel
<1>4. PICK e \in L : x = n - e
  BY <1>2
<1>5. \A d \in L : ~ (n - d < n - e)
  BY <1>3, <1>4
<1> QED
  BY <1>5

(* A fold over a finite set takes out one element after the other; g is the *)
(* function of its subsets that it computes.                               *)
Foldable(S, V, base, pick, step) ==
  /\ IsFiniteSet(S)
  /\ base \in V
  /\ \A s \in SUBSET S : s # {} => pick[s] \in s
  /\ \A x \in S, v \in V : step[x][v] \in V

FoldOf(g, S, V, base, pick, step) ==
  /\ g \in [SUBSET S -> V]
  /\ g[{}] = base
  /\ \A s \in SUBSET S : s # {} => g[s] = step[pick[s]][g[s \ {pick[s]}]]

LEMMA FoldExists ==
  ASSUME NEW S, NEW V, NEW base, NEW pick, NEW step,
         Foldable(S, V, base, pick, step)
  PROVE  \E g : FoldOf(g, S, V, base, pick, step)
<1> USE DEF Foldable
<1> DEFINE Small(n) == {s \in SUBSET S : Cardinality(s) <= n}
           Rule(g, s) == IF s = {} THEN base ELSE step[pick[s]][g[s \ {pick[s]}]]
           Good == {n \in Nat : \E g \in [Small(n) -> V] :
                      \A s \in Small(n) : g[s] = Rule(g, s)}
<1>1. \A s \in SUBSET S : IsFiniteSet(s) /\ Cardinality(s) \in Nat
  BY FS_Subset, FS_CardinalityType
<1>2. 0 \in Good
  <2> DEFINE g == [s \in Small(0) |-> base]
  <2>1. ASSUME NEW s \in Small(0) PROVE s = {}
    <3>1. s \in SUBSET S /\ Cardinality(s) <= 0
      OBVIOUS
    <3>2. Cardinality(s) \in Nat
      BY <1>1, <3>1
    <3>3. Cardinality(s) = 0
      BY <3>1, <3>2
    <3> QED
      BY <1>1, <3>1, <3>3, FS_EmptySet
  <2>2. g \in [Small(0) -> V] /\ \A s \in Small(0) : g[s] = Rule(g, s)
    BY <2>1
  <2> HIDE DEF g
  <2> QED
    BY <2>2
<1>3. ASSUME NEW n \in Good PROVE n + 1 \in Good
  <2>1. PICK g \in [Small(n) -> V] : \A s \in Small(n) : g[s] = Rule(g, s)
    OBVIOUS
  <2> DEFINE h == [s \in Small(n + 1) |-> Rule(g, s)]
  <2>2. ASSUME NEW s \in Small(n + 1), s # {}
        PROVE  s \ {pick[s]} \in Small(n) /\ pick[s] \in S
    <3>1. IsFiniteSet(s) /\ Cardinality(s) \in Nat /\ Cardinality(s) <= n + 1
      BY <1>1
    <3>2. pick[s] \in s
      BY <2>2
    <3>3. Cardinality(s \ {pick[s]}) = Cardinality(s) - 1
      BY <3>1, <3>2, FS_RemoveElement
    <3>4. Cardinality(s \ {pick[s]}) <= n /\ s \ {pick[s]} \in SUBSET S
      BY <3>1, <3>3
    <3> QED
      BY <3>2, <3>4
  <2>3. ASSUME NEW s \in Small(n) PROVE s \in Small(n + 1)
    <3>1. Cardinality(s) \in Nat /\ Cardinality(s) <= n /\ n \in Nat
      BY <1>1
    <3> QED
      BY <3>1
  <2>4. \A s \in Small(n) : h[s] = g[s]
    BY <2>1, <2>3
  <2>5. \A s \in Small(n + 1) : h[s] = Rule(h, s)
    BY <2>2, <2>4
  <2>6. \A s \in Small(n + 1) : Rule(g, s) \in V
    BY <2>2
  <2>7. h \in [Small(n + 1) -> V]
    BY <2>6
  <2>8. \E f \in [Small(n + 1) -> V] : \A s \in Small(n + 1) : f[s] = Rule(f, s)
    <3> HIDE DEF h, Small, Rule
    <3> QED
      BY <2>5, <2>7
  <2>9. n + 1 \in Nat
    OBVIOUS
  <2> QED
    <3> HIDE DEF h, Small, Rule
    <3> QED
      BY <2>8, <2>9
<1>4. Good = Nat
  <2> HIDE DEF Good
  <2>1. Good \subseteq Nat
    BY DEF Good
  <2> QED
    BY <1>2, <1>3, <2>1, Induction
<1>5. Cardinality(S) \in Good
  BY <1>1, <1>4
<1>6. Small(Cardinality(S)) = SUBSET S
  BY FS_Subset
<1>7. PICK g \in [SUBSET S -> V] : \A s \in SUBSET S : g[s] = Rule(g, s)
  BY <1>5, <1>6
<1>8. FoldOf(g, S, V, base, pick, step)
  BY <1>7 DEF FoldOf
<1> QED
  BY <1>8

-----------------------------------------------------------------------------
(* The entries *)

(* A non-empty set of entries has a greatest one: the head of the list. *)
LEMMA GreatestEntry ==
  ASSUME NEW L \in SUBSET Ent, L # {}
  PROVE  \E e \in L : \A d \in L : d <= e
BY Greatest, ASConstants DEF Ent

LEMMA FirstListed ==
  ASSUME NEW S \in SUBSET Ent, NEW c, Listed(S, c) # {}
  PROVE  First(S, c) \in S /\ echan[First(S, c)] = c
<1>1. \E e \in Listed(S, c) : \A d \in Listed(S, c) : d <= e
  BY GreatestEntry DEF Listed
<1> QED
  BY <1>1 DEF First, Listed

-----------------------------------------------------------------------------

Stopping == {"waiting", "restore"}

(* Types of the variables the argument is about. *)
EntType ==
  /\ aslist \in SUBSET Ent
  /\ ents \in SUBSET Ent
  /\ nent \in 0 .. MaxEnt
  /\ cpc \in [Callers -> {"idle", "flag", "insert", "waiting", "restore"}]
  /\ cent \in [Callers -> Ent \cup {NoEnt}]
  /\ DOMAIN csaved = Callers

(* An entry that exists is in the list or was removed by exactly one       *)
(* caller, that has not freed it yet; numbers not yet given are nowhere.   *)
EntryPlace ==
  /\ aslist \cap freed = {}
  /\ \A t \in Callers : cpc[t] \in Stopping =>
        cent[t] \in Ent /\ cent[t] \notin aslist \cup freed
  /\ \A t, u \in Callers :
        cpc[t] \in Stopping /\ cpc[u] \in Stopping /\ cent[t] = cent[u]
          => t = u
  /\ \A e \in aslist \cup freed : e <= nent
  /\ \A t \in Callers : cpc[t] \in Stopping => cent[t] <= nent

(* The heart of the protocol: an entry the thread may reach is in the      *)
(* list, or the caller that removed it saved the counter of this turn of   *)
(* the thread's loop and so still waits.                                   *)
ReachedIsSafe ==
  \A e \in ents :
    \/ e \in aslist
    \/ \E t \in Callers :
         cpc[t] = "waiting" /\ cent[t] = e /\ csaved[t] = counter

EntryInv == EntType /\ EntryPlace /\ ReachedIsSafe

LEMMA EntryInvInit == Init => EntryInv
  BY ASConstants DEF Init, EntryInv, EntType, EntryPlace, ReachedIsSafe,
     Stopping

(* A step that leaves alone everything the invariant mentions. *)
LEMMA EntryFrame ==
  ASSUME EntryInv,
         UNCHANGED <<aslist, freed, nent, ents, counter, cent, csaved>>,
         cpc' \in [Callers -> {"idle", "flag", "insert", "waiting", "restore"}],
         \A t \in Callers : /\ cpc'[t] = "waiting" <=> cpc[t] = "waiting"
                            /\ cpc'[t] = "restore" <=> cpc[t] = "restore"
  PROVE  EntryInv'
<1>1. EntType'
  BY DEF EntryInv, EntType
<1>2. EntryPlace'
  BY DEF EntryInv, EntryPlace, Stopping
<1>3. ReachedIsSafe'
  BY DEF EntryInv, ReachedIsSafe
<1> QED
  BY <1>1, <1>2, <1>3 DEF EntryInv

(* tris_autoservice_start puts an entry with a new number into the list. *)
LEMMA InsertEntryInv ==
  ASSUME EntryInv, NEW t \in Callers, StartInsert(t)
  PROVE  EntryInv'
<1>1. /\ nent < MaxEnt /\ nent' = nent + 1
      /\ aslist' = aslist \cup {nent + 1}
      /\ cpc' = [cpc EXCEPT ![t] = "idle"] /\ cpc[t] = "insert"
      /\ UNCHANGED <<freed, ents, counter, cent, csaved>>
  BY DEF StartInsert, Insert, CallerAt
<1>2. nent + 1 \in Ent /\ nent \in Nat /\ nent' \in 0 .. MaxEnt
  BY <1>1, ASConstants DEF EntryInv, EntType, Ent
<1>3. EntType'
  BY <1>1, <1>2 DEF EntryInv, EntType
<1>4. \A u \in Callers : /\ cpc'[u] = "waiting" <=> cpc[u] = "waiting"
                         /\ cpc'[u] = "restore" <=> cpc[u] = "restore"
  BY <1>1 DEF EntryInv, EntType
<1>5. /\ nent + 1 \notin freed
      /\ \A u \in Callers : cpc[u] \in Stopping => cent[u] # nent + 1
  BY <1>2 DEF EntryInv, EntryPlace
<1>6. EntryPlace'
  <2>1. \A e \in aslist' \cup freed' : e <= nent'
    BY <1>1, <1>2, ASConstants DEF EntryInv, EntType, EntryPlace, Ent
  <2>2. \A u \in Callers : cpc'[u] \in Stopping => cent'[u] <= nent'
    BY <1>1, <1>2, <1>4 DEF EntryInv, EntryPlace, Stopping, Ent
  <2> QED
    BY <1>1, <1>4, <1>5, <2>1, <2>2 DEF EntryInv, EntryPlace, Stopping
<1>7. ReachedIsSafe'
  BY <1>1, <1>4 DEF EntryInv, ReachedIsSafe
<1> QED
  BY <1>3, <1>6, <1>7 DEF EntryInv

(* tris_autoservice_stop removes an entry: if the thread may reach it, it  *)
(* does so in the turn whose counter the caller saves.                     *)
LEMMA RemoveEntryInv ==
  ASSUME EntryInv, NEW t \in Callers, StopRemove(t)
  PROVE  EntryInv'
<1>1. PICK c \in Chans :
        LET e == First(aslist, c) IN
        /\ cpc[t] = "idle" /\ Listed(aslist, c) # {}
        /\ aslist' = aslist \ {e}
        /\ csaved' = [csaved EXCEPT ![t] = counter]
        /\ cent' = [cent EXCEPT ![t] = e]
        /\ cpc' = [cpc EXCEPT ![t] = "waiting"]
        /\ UNCHANGED <<nent, freed, ents, counter>>
  BY DEF StopRemove, CallerAt, threadVars
<1> DEFINE e == First(aslist, c)
<1>2. e \in aslist /\ e \in Ent
  BY <1>1, FirstListed DEF EntryInv, EntType
<1> HIDE DEF e
<1>3. /\ cpc[t] = "idle"
      /\ aslist' = aslist \ {e}
      /\ csaved' = [csaved EXCEPT ![t] = counter]
      /\ cent' = [cent EXCEPT ![t] = e]
      /\ cpc' = [cpc EXCEPT ![t] = "waiting"]
      /\ UNCHANGED <<nent, freed, ents, counter>>
  BY <1>1 DEF e
<1>4. EntType'
  BY <1>2, <1>3 DEF EntryInv, EntType
<1>5. /\ cpc'[t] = "waiting" /\ cent'[t] = e /\ csaved'[t] = counter'
      /\ \A u \in Callers \ {t} : /\ cpc'[u] = cpc[u] /\ cent'[u] = cent[u]
                                   /\ csaved'[u] = csaved[u]
  BY <1>3 DEF EntryInv, EntType
<1>6. EntryPlace'
  <2>1. e \notin freed /\ e <= nent
    BY <1>2 DEF EntryInv, EntryPlace
  <2>2. \A u \in Callers : cpc[u] \in Stopping => cent[u] # e /\ u # t
    BY <1>2, <1>3 DEF EntryInv, EntryPlace, Stopping
  <2> QED
    BY <1>2, <1>3, <1>5, <2>1, <2>2 DEF EntryInv, EntryPlace
<1>7. ReachedIsSafe'
  <2> SUFFICES ASSUME NEW d \in ents
               PROVE  \/ d \in aslist'
                      \/ \E u \in Callers : /\ cpc'[u] = "waiting"
                                            /\ cent'[u] = d
                                            /\ csaved'[u] = counter'
    BY <1>3 DEF ReachedIsSafe
  <2>1. CASE d = e
    BY <1>5, <2>1
  <2>2. CASE d # e /\ d \in aslist
    BY <1>3, <2>2
  <2>3. CASE d \notin aslist
    <3>1. PICK u \in Callers :
            cpc[u] = "waiting" /\ cent[u] = d /\ csaved[u] = counter
      BY <2>3 DEF EntryInv, ReachedIsSafe
    <3> QED
      BY <1>3, <1>5, <3>1
  <2> QED
    BY <2>1, <2>2, <2>3
<1> QED
  BY <1>4, <1>6, <1>7 DEF EntryInv

(* The wait ends: the thread has begun another turn since the removal. *)
LEMMA PollEntryInv ==
  ASSUME EntryInv, NEW t \in Callers, StopPoll(t)
  PROVE  EntryInv'
<1>1. /\ cpc[t] = "waiting" /\ csaved[t] # counter
      /\ cpc' = [cpc EXCEPT ![t] = "restore"]
      /\ UNCHANGED <<aslist, freed, nent, ents, counter, cent, csaved>>
  BY DEF StopPoll, CallerAt, listVars, threadVars
<1>2. EntType'
  BY <1>1 DEF EntryInv, EntType
<1>3. /\ cpc'[t] = "restore"
      /\ \A u \in Callers \ {t} : cpc'[u] = cpc[u]
  BY <1>1 DEF EntryInv, EntType
<1>4. EntryPlace'
  BY <1>1, <1>3 DEF EntryInv, EntryPlace, Stopping
<1>5. ReachedIsSafe'
  BY <1>1, <1>3 DEF EntryInv, ReachedIsSafe
<1> QED
  BY <1>2, <1>4, <1>5 DEF EntryInv

(* A caller frees the entry it removed, which the thread cannot reach. *)
LEMMA RestoreEntryInv ==
  ASSUME EntryInv, NEW t \in Callers, StopRestore(t)
  PROVE  EntryInv'
<1>1. /\ cpc[t] = "restore"
      /\ freed' = freed \cup {cent[t]}
      /\ cent' = [cent EXCEPT ![t] = NoEnt]
      /\ cpc' = [cpc EXCEPT ![t] = "idle"]
      /\ UNCHANGED <<aslist, nent, ents, counter, csaved>>
  BY DEF StopRestore, CallerAt, threadVars
<1>2. EntType'
  BY <1>1 DEF EntryInv, EntType
<1>3. /\ cpc'[t] = "idle"
      /\ \A u \in Callers \ {t} : cpc'[u] = cpc[u] /\ cent'[u] = cent[u]
  BY <1>1 DEF EntryInv, EntType
<1>4. /\ cent[t] \notin aslist /\ cent[t] <= nent
      /\ \A u \in Callers \ {t} : cpc[u] \in Stopping => cent[u] # cent[t]
  BY <1>1 DEF EntryInv, EntryPlace, Stopping
<1>5. EntryPlace'
  BY <1>1, <1>3, <1>4 DEF EntryInv, EntryPlace, Stopping
<1>6. ReachedIsSafe'
  BY <1>1, <1>3 DEF EntryInv, ReachedIsSafe
<1> QED
  BY <1>2, <1>5, <1>6 DEF EntryInv

LEMMA CallerEntryInv ==
  ASSUME EntryInv, NEW t \in Callers, CallerStep(t)
  PROVE  EntryInv'
<1>1. CASE StartExisting(t) \/ StopNested(t)
  BY <1>1, EntryFrame DEF StartExisting, StopNested, threadVars, EntryInv,
     EntType
<1>2. CASE StartNew(t) \/ StartFlag(t) \/ StartFails(t)
  <2>1. UNCHANGED <<aslist, freed, nent, ents, counter, cent, csaved>>
    BY <1>2 DEF StartNew, StartFlag, StartFails, listVars, threadVars
  <2>2. /\ cpc[t] \in {"idle", "flag", "insert"}
        /\ \E pc \in {"idle", "flag", "insert"} : cpc' = [cpc EXCEPT ![t] = pc]
    BY <1>2 DEF StartNew, StartFlag, StartFails, CallerAt
  <2>3. /\ cpc' \in [Callers -> {"idle", "flag", "insert", "waiting", "restore"}]
        /\ \A u \in Callers : /\ cpc'[u] = "waiting" <=> cpc[u] = "waiting"
                              /\ cpc'[u] = "restore" <=> cpc[u] = "restore"
    BY <2>2 DEF EntryInv, EntType
  <2> QED
    BY <2>1, <2>3, EntryFrame
<1> QED
  BY <1>1, <1>2, InsertEntryInv, RemoveEntryInv, PollEntryInv,
     RestoreEntryInv DEF CallerStep

(* The thread copies only entries that are in the list. *)
LEMMA ThreadEntryInv ==
  ASSUME EntryInv, ThreadStep
  PROVE  EntryInv'
<1>1. UNCHANGED <<aslist, freed, nent, cpc, cent, csaved>>
  BY DEF ThreadStep, ThreadLock, ThreadAwake, ThreadWait, ThreadRead,
     ThreadDefer, ThreadUnchanged, callerVars
<1>2. \/ ents' \subseteq aslist
      \/ ents' = ents /\ counter' = counter
  BY DEF ThreadStep, ThreadLock, ThreadAwake, ThreadWait, ThreadRead,
     ThreadDefer, Rebuild, Snapshot
<1>3. EntType'
  BY <1>1, <1>2 DEF EntryInv, EntType
<1>4. EntryPlace'
  BY <1>1 DEF EntryInv, EntryPlace
<1>5. ReachedIsSafe'
  BY <1>1, <1>2 DEF EntryInv, ReachedIsSafe
<1> QED
  BY <1>3, <1>4, <1>5 DEF EntryInv

LEMMA EntryInvNext == EntryInv /\ [Next]_vars => EntryInv'
<1> SUFFICES ASSUME EntryInv, [Next]_vars PROVE EntryInv'
  OBVIOUS
<1>1. CASE UNCHANGED vars
  BY <1>1, EntryFrame DEF vars, listVars, threadVars, callerVars, EntryInv,
     EntType
<1>2. ASSUME NEW c \in Chans, ChannelStep(c) PROVE EntryInv'
  <2>1. ChannelUnchanged
    BY <1>2 DEF ChannelStep, DriverQueue, DriverHangup, SoftHangup
  <2> QED
    BY <2>1, EntryFrame DEF ChannelUnchanged, listVars, threadVars,
       callerVars, EntryInv, EntType
<1> QED
  BY <1>1, <1>2, CallerEntryInv, ThreadEntryInv DEF Next

(* Whatever the interleaving, and even if the counter of the list's state  *)
(* laps a caller, the autoservice thread never reaches an entry that is    *)
(* freed or being taken apart.                                             *)
THEOREM EntriesExclusive == Spec => []EntryExclusive
<1>1. EntryInv => EntryExclusive
  <2> SUFFICES ASSUME EntryInv, NEW e \in ents
               PROVE  /\ e \notin freed
                      /\ \A t \in Callers : cpc[t] = "restore" => cent[t] # e
    BY DEF EntryExclusive
  <2>1. CASE e \in aslist
    BY <2>1 DEF EntryInv, EntryPlace, Stopping
  <2>2. CASE e \notin aslist
    <3>1. PICK u \in Callers : cpc[u] = "waiting" /\ cent[u] = e
      BY <2>2 DEF EntryInv, ReachedIsSafe
    <3> QED
      BY <3>1 DEF EntryInv, EntryPlace, Stopping
  <2> QED
    BY <2>1, <2>2
<1> QED
  BY <1>1, EntryInvInit, EntryInvNext, PTL DEF Spec

-----------------------------------------------------------------------------

(* An entry is inserted only together with the creation of the thread or   *)
(* beside one that exists: when the thread cannot be created the entry is  *)
(* taken out again, and no entry ever stays without service.               *)
THEOREM NoEntryWithoutThread == Spec => []NoThreadNoEntry
<1>1. Init => NoThreadNoEntry
  BY DEF Init, NoThreadNoEntry
<1>2. NoThreadNoEntry /\ [Next]_vars => NoThreadNoEntry'
  <2> SUFFICES ASSUME NoThreadNoEntry, [Next]_vars PROVE NoThreadNoEntry'
    OBVIOUS
  <2>1. CASE UNCHANGED vars
    BY <2>1 DEF NoThreadNoEntry, vars, listVars, threadVars
  <2>2. ASSUME NEW t \in Callers, CallerStep(t) PROVE NoThreadNoEntry'
    <3>1. CASE StartInsert(t)
      <4>1. apc' # "none"
        BY <3>1 DEF StartInsert, Wake
      <4> QED
        BY <4>1 DEF NoThreadNoEntry
    <3>2. CASE ~StartInsert(t)
      <4>1. aslist' \subseteq aslist /\ nent' = nent /\ apc' = apc
        BY <2>2, <3>2 DEF CallerStep, StartExisting, StartNew, StartFlag,
           StartFails, StopNested, StopRemove, StopPoll, StopRestore,
           listVars, threadVars
      <4> QED
        BY <4>1 DEF NoThreadNoEntry
    <3> QED
      BY <3>1, <3>2
  <2>3. CASE ThreadStep
    <3>1. apc # "none" /\ apc' # "none"
      BY <2>3 DEF ThreadStep, ThreadLock, ThreadAwake, ThreadWait,
         ThreadRead, ThreadDefer, Rebuild
    <3> QED
      BY <3>1 DEF NoThreadNoEntry
  <2>4. ASSUME NEW c \in Chans, ChannelStep(c) PROVE NoThreadNoEntry'
    BY <2>4 DEF ChannelStep, DriverQueue, DriverHangup, SoftHangup,
       ChannelUnchanged, listVars, threadVars, NoThreadNoEntry
  <2> QED
    BY <2>1, <2>2, <2>3, <2>4 DEF Next
<1> QED
  BY <1>1, <1>2, PTL DEF Spec

-----------------------------------------------------------------------------
(* Sums as numbers of pairs: f[x] of them begin with x. *)
Pairs(f, L) == {p \in L \X (Nat \ {0}) : p[2] <= f[p[1]]}

SameOn(f, g, L) == \A x \in L : f[x] = g[x]

LEMMA PairsSame ==
  ASSUME NEW f, NEW g, NEW L, SameOn(f, g, L)
  PROVE  Pairs(f, L) = Pairs(g, L)
BY DEF Pairs, SameOn

(* T is S with one element more. *)
OneMore(S, T) == \E x : x \notin S /\ T = S \cup {x}

(* g is f, one more at x. *)
RaisedAt(f, g, L, x) ==
  /\ x \in L
  /\ \A y \in L : f[y] \in Nat
  /\ g[x] = f[x] + 1
  /\ \A y \in L \ {x} : g[y] = f[y]

LEMMA PairsMore ==
  ASSUME NEW f, NEW g, NEW L, NEW x, RaisedAt(f, g, L, x)
  PROVE  OneMore(Pairs(f, L), Pairs(g, L))
<1> USE DEF RaisedAt
<1>1. <<x, g[x]>> \in L \X (Nat \ {0}) /\ <<x, g[x]>> \notin Pairs(f, L)
  BY DEF Pairs
<1>2. ASSUME NEW y \in L, NEW n \in Nat \ {0}
      PROVE  <<y, n>> \in Pairs(g, L) <=> <<y, n>> \in Pairs(f, L) \cup {<<x, g[x]>>}
  <2>1. /\ <<y, n>> \in Pairs(g, L) <=> n <= g[y]
        /\ <<y, n>> \in Pairs(f, L) <=> n <= f[y]
    BY DEF Pairs
  <2>2. CASE y = x
    BY <2>1, <2>2
  <2>3. CASE y # x
    BY <2>1, <2>3
  <2> QED
    BY <2>2, <2>3
<1>3. Pairs(g, L) \subseteq L \X (Nat \ {0}) /\ Pairs(f, L) \subseteq L \X (Nat \ {0})
  BY DEF Pairs
<1>4. Pairs(g, L) = Pairs(f, L) \cup {<<x, g[x]>>}
  BY <1>1, <1>2, <1>3
<1> QED
  BY <1>1, <1>4 DEF OneMore

(* An element that is counted once *)
LEMMA PairsAdd ==
  ASSUME NEW f, NEW L, NEW x, x \notin L, f[x] = 1
  PROVE  OneMore(Pairs(f, L), Pairs(f, L \cup {x}))
<1>1. <<x, 1>> \notin Pairs(f, L)
  BY DEF Pairs
<1>2. ASSUME NEW y \in L \cup {x}, NEW n \in Nat \ {0}
      PROVE  <<y, n>> \in Pairs(f, L \cup {x}) <=> <<y, n>> \in Pairs(f, L) \cup {<<x, 1>>}
  <2>1. /\ <<y, n>> \in Pairs(f, L \cup {x}) <=> n <= f[y]
        /\ <<y, n>> \in Pairs(f, L) <=> y \in L /\ n <= f[y]
    BY DEF Pairs
  <2>2. CASE y = x
    BY <2>1, <2>2
  <2>3. CASE y # x
    BY <2>1, <2>3
  <2> QED
    BY <2>2, <2>3
<1>3. /\ Pairs(f, L \cup {x}) \subseteq (L \cup {x}) \X (Nat \ {0})
      /\ Pairs(f, L) \cup {<<x, 1>>} \subseteq (L \cup {x}) \X (Nat \ {0})
  BY DEF Pairs
<1>4. Pairs(f, L \cup {x}) = Pairs(f, L) \cup {<<x, 1>>}
  BY <1>2, <1>3
<1> QED
  BY <1>1, <1>4 DEF OneMore

(* Cardinalities of two such sets *)
LEMMA OneMoreCounts ==
  ASSUME NEW S, NEW T, OneMore(S, T)
  PROVE  /\ IsFiniteSet(S) <=> IsFiniteSet(T)
         /\ IsFiniteSet(S) => Cardinality(S) \in Nat /\ Cardinality(T) = Cardinality(S) + 1
<1>1. PICK x : x \notin S /\ T = S \cup {x}
  BY DEF OneMore
<1>2. S \in SUBSET T
  BY <1>1
<1> QED
  BY <1>1, <1>2, FS_AddElement, FS_Subset, FS_CardinalityType

(* The function of the subsets of S that MapThenSumSet computes *)
Summable(f, S) == IsFiniteSet(S) /\ \A x \in S : f[x] \in Nat

SumOf(g, f, S) ==
  g = [s \in SUBSET S |->
         IF s = {} THEN 0
         ELSE f[CHOOSE x \in s : TRUE] + g[s \ {CHOOSE x \in s : TRUE}]]

LEMMA SumOfPairs ==
  ASSUME NEW S, NEW f, NEW g, Summable(f, S), SumOf(g, f, S)
  PROVE  \A s \in SUBSET S : /\ IsFiniteSet(Pairs(f, s))
                             /\ g[s] = Cardinality(Pairs(f, s))
<1> DEFINE Good == {n \in Nat : \A s \in SUBSET S : Cardinality(s) = n =>
                      IsFiniteSet(Pairs(f, s)) /\ g[s] = Cardinality(Pairs(f, s))}
<1>1. \A s \in SUBSET S : IsFiniteSet(s) /\ Cardinality(s) \in Nat
  BY FS_Subset, FS_CardinalityType DEF Summable
<1>2. 0 \in Good
  <2>1. ASSUME NEW s \in SUBSET S, Cardinality(s) = 0
        PROVE  IsFiniteSet(Pairs(f, s)) /\ g[s] = Cardinality(Pairs(f, s))
    <3>1. s = {}
      BY <1>1, <2>1, FS_EmptySet
    <3>2. Pairs(f, s) = {}
      BY <3>1 DEF Pairs
    <3>3. g[s] = 0
      BY <3>1 DEF SumOf
    <3> QED
      BY <3>2, <3>3, FS_EmptySet
  <2> QED
    BY <2>1
<1>3. ASSUME NEW n \in Good PROVE n + 1 \in Good
  <2>1. ASSUME NEW s \in SUBSET S, Cardinality(s) = n + 1
        PROVE  IsFiniteSet(Pairs(f, s)) /\ g[s] = Cardinality(Pairs(f, s))
    <3>0. n \in Nat
      OBVIOUS
    <3>1. s # {}
      <4>1. Cardinality({}) # n + 1
        BY <3>0, FS_EmptySet
      <4> QED
        BY <2>1, <4>1
    <3>2. PICK x : x = CHOOSE y \in s : TRUE
      OBVIOUS
    <3>3. x \in s /\ f[x] \in Nat
      BY <3>1, <3>2 DEF Summable
    <3> DEFINE r == s \ {x}
    <3>4. r \in SUBSET S /\ Cardinality(r) = n
      <4>1. IsFiniteSet(s) /\ Cardinality(s \ {x}) = Cardinality(s) - 1
        BY <1>1, <3>3, FS_RemoveElement
      <4> QED
        BY <2>1, <3>0, <4>1
    <3>5. IsFiniteSet(Pairs(f, r)) /\ g[r] = Cardinality(Pairs(f, r))
      BY <3>4
    <3>6. g[s] = f[x] + g[r]
      BY <3>1, <3>2 DEF SumOf
    <3> DEFINE Own == {x} \X (1 .. f[x])
    <3>7. IsFiniteSet(Own) /\ Cardinality(Own) = f[x]
      <4>1. IsFiniteSet(1 .. f[x]) /\ Cardinality(1 .. f[x]) = f[x]
        <5>1. \A m \in Nat : IsFiniteSet(1 .. m) /\ Cardinality(1 .. m) = m
          BY FS_Interval
        <5> QED
          BY <3>3, <5>1
      <4>2. IsFiniteSet({x}) /\ Cardinality({x}) = 1
        BY FS_Singleton
      <4>3. /\ IsFiniteSet({x} \X (1 .. f[x]))
            /\ Cardinality({x} \X (1 .. f[x])) = Cardinality({x}) * Cardinality(1 .. f[x])
        <5> HIDE DEF Own
        <5> QED
          BY <4>1, <4>2, FS_Product
      <4>4. Cardinality(Own) = 1 * f[x]
        BY <4>1, <4>2, <4>3
      <4> QED
        BY <3>3, <4>3, <4>4
    <3>8. Pairs(f, s) = Pairs(f, r) \cup Own /\ Pairs(f, r) \cap Own = {}
      BY <3>3 DEF Pairs
    <3>9. Cardinality(Pairs(f, r)) \in Nat
      BY <3>5, FS_CardinalityType
    <3>10. /\ IsFiniteSet(Pairs(f, s))
           /\ Cardinality(Pairs(f, s)) = Cardinality(Pairs(f, r)) + f[x]
      <4> HIDE DEF Own, r
      <4>1. Cardinality(Pairs(f, r) \cap Own) = 0
        BY <3>8, FS_EmptySet
      <4>2. /\ IsFiniteSet(Pairs(f, r) \cup Own)
            /\ Cardinality(Pairs(f, r) \cup Own)
                 = Cardinality(Pairs(f, r)) + Cardinality(Own)
                     - Cardinality(Pairs(f, r) \cap Own)
        BY <3>5, <3>7, FS_Union
      <4> QED
        BY <3>3, <3>7, <3>8, <3>9, <4>1, <4>2
    <3> QED
      BY <3>3, <3>5, <3>6, <3>9, <3>10
  <2>2. n + 1 \in Nat
    OBVIOUS
  <2> QED
    BY <2>1, <2>2
<1>4. Good = Nat
  <2> HIDE DEF Good
  <2>1. Good \subseteq Nat
    BY DEF Good
  <2> QED
    BY <1>2, <1>3, <2>1, Induction
<1> QED
  BY <1>1, <1>4

LEMMA SumExists ==
  ASSUME NEW S, NEW f, Summable(f, S)
  PROVE  \E g : SumOf(g, f, S)
<1> USE DEF Summable
<1> DEFINE pick == [s \in SUBSET S |-> CHOOSE x \in s : TRUE]
           step == [x \in S |-> [v \in Nat |-> f[x] + v]]
<1>1. \A s \in SUBSET S : s # {} => pick[s] \in s
  OBVIOUS
<1>2. \A x \in S, v \in Nat : step[x][v] \in Nat
  OBVIOUS
<1>3. PICK g : FoldOf(g, S, Nat, 0, pick, step)
  <2>1. Foldable(S, Nat, 0, pick, step)
    BY <1>1, <1>2 DEF Foldable
  <2> HIDE DEF pick, step
  <2> QED
    BY <2>1, FoldExists
<1>4. \A s \in SUBSET S : s # {} =>
         step[pick[s]][g[s \ {pick[s]}]]
           = f[CHOOSE x \in s : TRUE] + g[s \ {CHOOSE x \in s : TRUE}]
  BY <1>3 DEF FoldOf
<1>5. SumOf(g, f, S)
  <2> HIDE DEF pick, step
  <2> QED
    BY <1>3, <1>4 DEF FoldOf, SumOf
<1> QED
  BY <1>5

-----------------------------------------------------------------------------
(* Counting the uses of a channel's entries and the starts of its callers *)

UseType ==
  /\ echan \in [Ent -> Chans \cup {NoChan}]
  /\ use \in [Ent -> Nat]
  /\ held \in [Callers -> [Chans -> Nat]]
  /\ cchan \in [Callers -> Chans \cup {NoChan}]

(* A caller that has removed an entry of a channel still holds the channel; *)
(* an entry in the list is in use.                                         *)
UsePlace ==
  /\ \A t \in Callers : cpc[t] # "idle" => cchan[t] \in Chans
  /\ \A t \in Callers : cpc[t] \in Stopping =>
        held[t][cchan[t]] > 0 /\ echan[cent[t]] = cchan[t]
  /\ \A e \in aslist : use[e] > 0 /\ echan[e] \in Chans

(* The uses that the entries of a channel count, the starts of the channel, *)
(* and the callers that have removed an entry of it                        *)
Counted(c) == Pairs(use, Listed(aslist, c))
Starts(c)  == [t \in Callers |-> held[t][c]]
Started(c) == Pairs(Starts(c), Callers)
Enders(c)  == {t \in Callers : cpc[t] \in Stopping /\ cchan[t] = c}

(* What is counted, before a step and after it *)
LEMMA CountedPairs ==
  ASSUME NEW c
  PROVE  /\ Counted(c) = Pairs(use, Listed(aslist, c))
         /\ Started(c) = Pairs(Starts(c), Callers)
         /\ Counted(c)' = Pairs(use', Listed(aslist, c)')
         /\ Started(c)' = Pairs(Starts(c)', Callers)
BY DEF Counted, Started, Pairs

(* The uses are the starts that no caller is taking back. *)
Balanced(c) ==
  /\ IsFiniteSet(Counted(c)) /\ IsFiniteSet(Started(c))
  /\ Cardinality(Counted(c)) = Cardinality(Started(c)) - Cardinality(Enders(c))

(* The invariant of the use counts *)
UseInv == UseType /\ UsePlace /\ \A c \in Chans : Balanced(c)

LEMMA UseInvInit == Init => UseInv
<1> SUFFICES ASSUME Init PROVE UseInv
  OBVIOUS
<1>1. UseType /\ UsePlace
  BY ASConstants DEF Init, UseType, UsePlace, Stopping
<1>2. ASSUME NEW c \in Chans PROVE Balanced(c)
  <2>1. Counted(c) = {} /\ Enders(c) = {}
    BY DEF Init, Counted, Pairs, Enders, Listed, Stopping
  <2>2. Started(c) = {}
    BY DEF Init, Started, Starts, Pairs
  <2> QED
    BY <2>1, <2>2, FS_EmptySet DEF Balanced
<1> QED
  BY <1>1, <1>2 DEF UseInv

(* What is counted is finite. *)
LEMMA BalanceTypes ==
  ASSUME NEW c, Balanced(c)
  PROVE  /\ Cardinality(Counted(c)) \in Nat /\ Cardinality(Started(c)) \in Nat
         /\ IsFiniteSet(Enders(c)) /\ Cardinality(Enders(c)) \in Nat
<1>1. Enders(c) \in SUBSET Callers
  BY DEF Enders
<1> QED
  BY <1>1, ASConstants, FS_Subset, FS_CardinalityType DEF Balanced

(* One start more, or one less *)
LEMMA HeldUp ==
  ASSUME UseType, NEW t \in Callers, NEW c \in Chans,
         held' = [held EXCEPT ![t][c] = @ + 1]
  PROVE  /\ held' \in [Callers -> [Chans -> Nat]]
         /\ held'[t][c] = held[t][c] + 1
         /\ \A u \in Callers, d \in Chans : u # t \/ d # c => held'[u][d] = held[u][d]
         /\ \A d \in Chans \ {c} : Started(d)' = Started(d)
         /\ OneMore(Started(c), Started(c)')
<1>1. /\ held' \in [Callers -> [Chans -> Nat]]
      /\ held'[t][c] = held[t][c] + 1
      /\ \A u \in Callers, d \in Chans : u # t \/ d # c => held'[u][d] = held[u][d]
  <2>1. held[t] \in [Chans -> Nat] /\ held[t][c] \in Nat
    BY DEF UseType
  <2>2. PICK h : h = [held[t] EXCEPT ![c] = @ + 1]
    OBVIOUS
  <2>3. h \in [Chans -> Nat] /\ h[c] = held[t][c] + 1
        /\ \A d \in Chans \ {c} : h[d] = held[t][d]
    BY <2>1, <2>2
  <2>4. held' = [held EXCEPT ![t] = h]
    BY <2>2
  <2> QED
    BY <2>3, <2>4 DEF UseType
<1>2. ASSUME NEW d \in Chans \ {c} PROVE Started(d)' = Started(d)
  <2>1. Starts(d)' = Starts(d)
    BY <1>1 DEF Starts
  <2> QED
    BY <2>1, CountedPairs
<1>3. OneMore(Started(c), Started(c)')
  <2>1. RaisedAt(Starts(c), Starts(c)', Callers, t)
    BY <1>1 DEF Starts, UseType, RaisedAt
  <2>2. OneMore(Pairs(Starts(c), Callers), Pairs(Starts(c)', Callers))
    BY <2>1, PairsMore
  <2> QED
    BY <2>2, CountedPairs
<1> QED
  BY <1>1, <1>2, <1>3

LEMMA HeldDown ==
  ASSUME UseType, NEW t \in Callers, NEW c \in Chans, held[t][c] > 0,
         held' = [held EXCEPT ![t][c] = @ + -1]
  PROVE  /\ held' \in [Callers -> [Chans -> Nat]]
         /\ \A u \in Callers, d \in Chans : u # t \/ d # c => held'[u][d] = held[u][d]
         /\ \A d \in Chans \ {c} : Started(d)' = Started(d)
         /\ OneMore(Started(c)', Started(c))
<1>1. /\ held' \in [Callers -> [Chans -> Nat]]
      /\ held[t][c] = held'[t][c] + 1
      /\ \A u \in Callers, d \in Chans : u # t \/ d # c => held'[u][d] = held[u][d]
  <2>1. held[t] \in [Chans -> Nat] /\ held[t][c] \in Nat
    BY DEF UseType
  <2>2. PICK h : h = [held[t] EXCEPT ![c] = @ + -1]
    OBVIOUS
  <2>3. h \in [Chans -> Nat] /\ held[t][c] = h[c] + 1
        /\ \A d \in Chans \ {c} : h[d] = held[t][d]
    BY <2>1, <2>2
  <2>4. held' = [held EXCEPT ![t] = h]
    BY <2>2
  <2> QED
    BY <2>3, <2>4 DEF UseType
<1>2. ASSUME NEW d \in Chans \ {c} PROVE Started(d)' = Started(d)
  <2>1. Starts(d)' = Starts(d)
    BY <1>1 DEF Starts
  <2> QED
    BY <2>1, CountedPairs
<1>3. OneMore(Started(c)', Started(c))
  <2>1. RaisedAt(Starts(c)', Starts(c), Callers, t)
    BY <1>1 DEF Starts, UseType, RaisedAt
  <2>2. OneMore(Pairs(Starts(c)', Callers), Pairs(Starts(c), Callers))
    BY <2>1, PairsMore
  <2> QED
    BY <2>2, CountedPairs
<1> QED
  BY <1>1, <1>2, <1>3

(* One use of a listed entry more, or one less *)
LEMMA UseUp ==
  ASSUME UseType, EntType, NEW c \in Chans, NEW e \in Listed(aslist, c),
         aslist' = aslist, echan' = echan, use' = [use EXCEPT ![e] = @ + 1]
  PROVE  /\ use' \in [Ent -> Nat] /\ \A f \in aslist : use[f] > 0 => use'[f] > 0
         /\ \A d \in Chans \ {c} : Counted(d)' = Counted(d)
         /\ OneMore(Counted(c), Counted(c)')
<1>1. /\ e \in Ent /\ echan[e] = c /\ aslist \subseteq Ent
      /\ \A d : Listed(aslist, d)' = Listed(aslist, d) /\ Listed(aslist, d) \subseteq Ent
      /\ \A d \in Chans \ {c} : e \notin Listed(aslist, d)
  BY DEF Listed, EntType
<1>2. /\ use' \in [Ent -> Nat] /\ use'[e] = use[e] + 1
      /\ \A f \in Ent \ {e} : use'[f] = use[f]
  BY <1>1 DEF UseType
<1>3. ASSUME NEW d \in Chans \ {c} PROVE Counted(d)' = Counted(d)
  <2>1. SameOn(use', use, Listed(aslist, d))
    BY <1>1, <1>2 DEF SameOn
  <2>2. Pairs(use', Listed(aslist, d)) = Pairs(use, Listed(aslist, d))
    BY <2>1, PairsSame
  <2> QED
    BY <1>1, <2>2, CountedPairs
<1>4. OneMore(Counted(c), Counted(c)')
  <2>1. RaisedAt(use, use', Listed(aslist, c), e)
    BY <1>1, <1>2 DEF UseType, RaisedAt
  <2>2. OneMore(Pairs(use, Listed(aslist, c)), Pairs(use', Listed(aslist, c)))
    BY <2>1, PairsMore
  <2> QED
    BY <1>1, <2>2, CountedPairs
<1>5. \A f \in aslist : use[f] > 0 => use'[f] > 0
  BY <1>1, <1>2 DEF UseType
<1> QED
  BY <1>2, <1>3, <1>4, <1>5

LEMMA UseDown ==
  ASSUME UseType, EntType, NEW c \in Chans, NEW e \in Listed(aslist, c), use[e] > 1,
         aslist' = aslist, echan' = echan, use' = [use EXCEPT ![e] = @ - 1]
  PROVE  /\ use' \in [Ent -> Nat] /\ \A f \in aslist : use[f] > 0 => use'[f] > 0
         /\ \A d \in Chans \ {c} : Counted(d)' = Counted(d)
         /\ OneMore(Counted(c)', Counted(c))
<1>1. /\ e \in Ent /\ echan[e] = c /\ aslist \subseteq Ent
      /\ \A d : Listed(aslist, d)' = Listed(aslist, d) /\ Listed(aslist, d) \subseteq Ent
      /\ \A d \in Chans \ {c} : e \notin Listed(aslist, d)
  BY DEF Listed, EntType
<1>2. /\ use' \in [Ent -> Nat] /\ use[e] = use'[e] + 1 /\ use'[e] > 0
      /\ \A f \in Ent \ {e} : use'[f] = use[f]
  BY <1>1 DEF UseType
<1>3. ASSUME NEW d \in Chans \ {c} PROVE Counted(d)' = Counted(d)
  <2>1. SameOn(use', use, Listed(aslist, d))
    BY <1>1, <1>2 DEF SameOn
  <2>2. Pairs(use', Listed(aslist, d)) = Pairs(use, Listed(aslist, d))
    BY <2>1, PairsSame
  <2> QED
    BY <1>1, <2>2, CountedPairs
<1>4. OneMore(Counted(c)', Counted(c))
  <2>1. RaisedAt(use', use, Listed(aslist, c), e)
    BY <1>1, <1>2 DEF UseType, RaisedAt
  <2>2. OneMore(Pairs(use', Listed(aslist, c)), Pairs(use, Listed(aslist, c)))
    BY <2>1, PairsMore
  <2> QED
    BY <1>1, <2>2, CountedPairs
<1>5. \A f \in aslist : use[f] > 0 => use'[f] > 0
  BY <1>1, <1>2 DEF UseType
<1> QED
  BY <1>2, <1>3, <1>4, <1>5

(* An entry enters the list with one use, or leaves it with its last one. *)
LEMMA EntryCounted ==
  ASSUME UseType, EntType, NEW c \in Chans, NEW e \in Ent \ aslist,
         aslist' = aslist \cup {e}, echan' = [echan EXCEPT ![e] = c],
         use' = [use EXCEPT ![e] = 1]
  PROVE  /\ \A d \in Chans \ {c} : Counted(d)' = Counted(d)
         /\ OneMore(Counted(c), Counted(c)')
<1>1. \A d : e \notin Listed(aslist, d) /\ Listed(aslist, d) \subseteq Ent
  BY DEF Listed, EntType
<1>2. use'[e] = 1 /\ \A f \in Ent \ {e} : use'[f] = use[f] /\ echan'[f] = echan[f]
  BY DEF UseType
<1>3. echan'[e] = c
  BY DEF UseType
<1>4. \A d : SameOn(use', use, Listed(aslist, d))
  BY <1>1, <1>2 DEF SameOn
<1>5. ASSUME NEW d \in Chans \ {c} PROVE Counted(d)' = Counted(d)
  <2>1. Listed(aslist, d)' = Listed(aslist, d)
    BY <1>1, <1>2, <1>3 DEF Listed, EntType
  <2>2. Pairs(use', Listed(aslist, d)) = Pairs(use, Listed(aslist, d))
    BY <1>4, PairsSame
  <2> QED
    BY <2>1, <2>2, CountedPairs
<1>6. OneMore(Counted(c), Counted(c)')
  <2>1. Listed(aslist, c)' = Listed(aslist, c) \cup {e}
    BY <1>1, <1>2, <1>3 DEF Listed, EntType
  <2>2. Pairs(use', Listed(aslist, c)) = Pairs(use, Listed(aslist, c))
    BY <1>4, PairsSame
  <2>3. OneMore(Pairs(use', Listed(aslist, c)), Pairs(use', Listed(aslist, c) \cup {e}))
    BY <1>1, <1>2, PairsAdd
  <2> QED
    BY <2>1, <2>2, <2>3, CountedPairs
<1> QED
  BY <1>5, <1>6

LEMMA EntryDiscounted ==
  ASSUME UseType, EntType, NEW c \in Chans, NEW e \in Listed(aslist, c), use[e] = 1,
         aslist' = aslist \ {e}, echan' = echan, use' = [use EXCEPT ![e] = 0]
  PROVE  /\ \A d \in Chans \ {c} : Counted(d)' = Counted(d)
         /\ OneMore(Counted(c)', Counted(c))
<1>1. /\ e \in Ent /\ echan[e] = c /\ aslist \subseteq Ent
      /\ \A d \in Chans \ {c} : e \notin Listed(aslist, d)
      /\ \A d \in Chans : Listed(aslist, d)' \subseteq Ent \ {e}
  BY DEF Listed, EntType
<1>2. \A f \in Ent \ {e} : use'[f] = use[f]
  BY DEF UseType
<1>4. \A d \in Chans : SameOn(use', use, Listed(aslist, d)')
  BY <1>1, <1>2 DEF SameOn
<1>5. ASSUME NEW d \in Chans \ {c} PROVE Counted(d)' = Counted(d)
  <2>1. Listed(aslist, d)' = Listed(aslist, d)
    BY <1>1 DEF Listed
  <2>2. Pairs(use', Listed(aslist, d)') = Pairs(use, Listed(aslist, d)')
    BY <1>4, PairsSame
  <2> QED
    BY <2>1, <2>2, CountedPairs
<1>6. OneMore(Counted(c)', Counted(c))
  <2>1. Listed(aslist, c) = Listed(aslist, c)' \cup {e} /\ e \notin Listed(aslist, c)'
    BY <1>1 DEF Listed
  <2>2. Pairs(use', Listed(aslist, c)') = Pairs(use, Listed(aslist, c)')
    BY <1>4, PairsSame
  <2>3. OneMore(Pairs(use, Listed(aslist, c)'), Pairs(use, Listed(aslist, c)' \cup {e}))
    BY <2>1, PairsAdd
  <2> QED
    BY <2>1, <2>2, <2>3, CountedPairs
<1> QED
  BY <1>5, <1>6

(* The balance of every channel holds again when both sides have changed in *)
(* the same way.                                                           *)
LEMMA BalanceKept ==
  ASSUME NEW c, Balanced(c),
         \/ /\ Counted(c)' = Counted(c) /\ Started(c)' = Started(c)
            /\ Enders(c)' = Enders(c)
         \/ /\ OneMore(Counted(c), Counted(c)') /\ OneMore(Started(c), Started(c)')
            /\ Enders(c)' = Enders(c)
         \/ /\ OneMore(Counted(c)', Counted(c)) /\ OneMore(Started(c)', Started(c))
            /\ Enders(c)' = Enders(c)
         \/ /\ OneMore(Counted(c)', Counted(c)) /\ Started(c)' = Started(c)
            /\ OneMore(Enders(c), Enders(c)')
         \/ /\ Counted(c)' = Counted(c) /\ OneMore(Started(c)', Started(c))
            /\ OneMore(Enders(c)', Enders(c))
  PROVE  Balanced(c)'
<1>1. /\ IsFiniteSet(Counted(c)) /\ IsFiniteSet(Started(c)) /\ IsFiniteSet(Enders(c))
      /\ Cardinality(Counted(c)) \in Nat /\ Cardinality(Started(c)) \in Nat
      /\ Cardinality(Enders(c)) \in Nat
      /\ Cardinality(Counted(c)) = Cardinality(Started(c)) - Cardinality(Enders(c))
  BY BalanceTypes DEF Balanced
<1>2. \A S, T : OneMore(S, T) =>
        /\ IsFiniteSet(S) <=> IsFiniteSet(T)
        /\ IsFiniteSet(S) => Cardinality(S) \in Nat /\ Cardinality(T) = Cardinality(S) + 1
  BY OneMoreCounts
<1>3. Balanced(c)' = /\ IsFiniteSet(Counted(c)') /\ IsFiniteSet(Started(c)')
                     /\ Cardinality(Counted(c)')
                          = Cardinality(Started(c)') - Cardinality(Enders(c)')
  BY DEF Balanced
<1> QED
  BY <1>1, <1>2, <1>3

(* A step that leaves alone what is counted *)
LEMMA UseFrame ==
  ASSUME UseInv, EntType, UNCHANGED <<aslist, echan, use, held>>,
         cchan' \in [Callers -> Chans \cup {NoChan}],
         \A t \in Callers : cpc'[t] # "idle" => cchan'[t] \in Chans,
         \A t \in Callers : cpc'[t] \in Stopping <=> cpc[t] \in Stopping,
         \A t \in Callers : cpc[t] \in Stopping =>
            cchan'[t] = cchan[t] /\ cent'[t] = cent[t]
  PROVE  UseInv'
<1>1. UseType' /\ UsePlace'
  BY DEF UseInv, UseType, UsePlace
<1>2. ASSUME NEW c \in Chans PROVE Balanced(c)'
  <2>1. /\ Counted(c)' = Counted(c) /\ Started(c)' = Started(c)
        /\ Enders(c)' = Enders(c)
    BY DEF Counted, Started, Starts, Enders, Pairs, Listed
  <2> QED
    BY <2>1, BalanceKept DEF UseInv
<1> QED
  BY <1>1, <1>2 DEF UseInv

(* An entry of the channel is used once more. *)
LEMMA ExistingUseInv ==
  ASSUME UseInv, EntType, NEW t \in Callers, StartExisting(t)
  PROVE  UseInv'
<1>1. PICK c \in Chans :
        /\ Listed(aslist, c) # {}
        /\ use' = [use EXCEPT ![First(aslist, c)] = @ + 1]
        /\ held' = [held EXCEPT ![t][c] = @ + 1]
        /\ UNCHANGED <<aslist, echan, cpc, cchan, cent>>
  BY DEF StartExisting, Hold
<1>2. PICK e : e = First(aslist, c)
  OBVIOUS
<1>3. e \in Listed(aslist, c)
  BY <1>1, <1>2, FirstListed DEF EntType, Listed
<1>4. use' = [use EXCEPT ![e] = @ + 1]
  BY <1>1, <1>2
<1>5. /\ use' \in [Ent -> Nat] /\ \A f \in aslist : use[f] > 0 => use'[f] > 0
      /\ \A d \in Chans \ {c} : Counted(d)' = Counted(d)
      /\ OneMore(Counted(c), Counted(c)')
  BY <1>1, <1>3, <1>4, UseUp DEF UseInv
<1>6. /\ held' \in [Callers -> [Chans -> Nat]]
      /\ held'[t][c] = held[t][c] + 1
      /\ \A u \in Callers, d \in Chans : u # t \/ d # c => held'[u][d] = held[u][d]
      /\ \A d \in Chans \ {c} : Started(d)' = Started(d)
      /\ OneMore(Started(c), Started(c)')
  BY <1>1, HeldUp DEF UseInv
<1>7. UseType'
  BY <1>1, <1>5, <1>6 DEF UseInv, UseType
<1>8. UsePlace'
  <2>1. held[t][c] \in Nat
    BY DEF UseInv, UseType
  <2>2. \A u \in Callers, d \in Chans : held[u][d] > 0 => held'[u][d] > 0
    BY <1>6, <2>1
  <2>3. \A u \in Callers : cpc[u] \in Stopping => cchan[u] \in Chans
    BY DEF UseInv, UsePlace, Stopping
  <2> QED
    BY <1>1, <1>5, <2>2, <2>3 DEF UseInv, UsePlace
<1>9. ASSUME NEW d \in Chans PROVE Balanced(d)'
  <2>1. Enders(d)' = Enders(d)
    BY <1>1 DEF Enders
  <2> QED
    BY <1>5, <1>6, <2>1, BalanceKept DEF UseInv
<1> QED
  BY <1>7, <1>8, <1>9 DEF UseInv

(* An entry of the channel is used once less, and stays in use. *)
LEMMA NestedUseInv ==
  ASSUME UseInv, EntType, NEW t \in Callers, StopNested(t)
  PROVE  UseInv'
<1>1. PICK c \in Chans :
        /\ cpc[t] = "idle" /\ held[t][c] > 0
        /\ Listed(aslist, c) # {} /\ use[First(aslist, c)] > 1
        /\ use' = [use EXCEPT ![First(aslist, c)] = @ - 1]
        /\ held' = [held EXCEPT ![t][c] = @ + -1]
        /\ UNCHANGED <<aslist, echan, cpc, cchan, cent>>
  BY DEF StopNested, Hold
<1>2. PICK e : e = First(aslist, c)
  OBVIOUS
<1>3. e \in Listed(aslist, c)
  BY <1>1, <1>2, FirstListed DEF EntType, Listed
<1>4. use' = [use EXCEPT ![e] = @ - 1] /\ use[e] > 1
  BY <1>1, <1>2
<1>5. /\ use' \in [Ent -> Nat] /\ \A f \in aslist : use[f] > 0 => use'[f] > 0
      /\ \A d \in Chans \ {c} : Counted(d)' = Counted(d)
      /\ OneMore(Counted(c)', Counted(c))
  BY <1>1, <1>3, <1>4, UseDown DEF UseInv
<1>6. /\ held' \in [Callers -> [Chans -> Nat]]
      /\ \A u \in Callers, d \in Chans : u # t \/ d # c => held'[u][d] = held[u][d]
      /\ \A d \in Chans \ {c} : Started(d)' = Started(d)
      /\ OneMore(Started(c)', Started(c))
  BY <1>1, HeldDown DEF UseInv
<1>7. UseType'
  BY <1>1, <1>5, <1>6 DEF UseInv, UseType
<1>8. UsePlace'
  <2>1. \A u \in Callers : cpc[u] \in Stopping => cchan[u] \in Chans /\ u # t
    BY <1>1 DEF UseInv, UsePlace, Stopping
  <2> QED
    BY <1>1, <1>5, <1>6, <2>1 DEF UseInv, UsePlace
<1>9. ASSUME NEW d \in Chans PROVE Balanced(d)'
  <2>1. Enders(d)' = Enders(d)
    BY <1>1 DEF Enders
  <2> QED
    BY <1>5, <1>6, <2>1, BalanceKept DEF UseInv
<1> QED
  BY <1>7, <1>8, <1>9 DEF UseInv

(* A new entry is used once. *)
LEMMA InsertUseInv ==
  ASSUME UseInv, EntryInv, NEW t \in Callers, StartInsert(t)
  PROVE  UseInv'
<1>1. /\ cpc[t] = "insert" /\ nent < MaxEnt
      /\ aslist' = aslist \cup {nent + 1}
      /\ echan' = [echan EXCEPT ![nent + 1] = cchan[t]]
      /\ use' = [use EXCEPT ![nent + 1] = 1]
      /\ held' = [held EXCEPT ![t][cchan[t]] = @ + 1]
      /\ cpc' = [cpc EXCEPT ![t] = "idle"]
      /\ cchan' = [cchan EXCEPT ![t] = NoChan]
      /\ cent' = cent
  BY DEF StartInsert, Insert, Hold, CallerAt
<1>2. PICK c, e : c = cchan[t] /\ e = nent + 1
  OBVIOUS
<1>3. c \in Chans
  BY <1>1, <1>2 DEF UseInv, UsePlace
<1>4. e \in Ent /\ nent \in Nat
  BY <1>1, <1>2, ASConstants DEF EntryInv, EntType, Ent
<1>5. e \notin aslist /\ \A u \in Callers : cpc[u] \in Stopping => cent[u] \in Ent /\ cent[u] # e
  BY <1>2, <1>4 DEF EntryInv, EntryPlace
<1>6. /\ aslist' = aslist \cup {e} /\ echan' = [echan EXCEPT ![e] = c]
      /\ use' = [use EXCEPT ![e] = 1] /\ held' = [held EXCEPT ![t][c] = @ + 1]
  BY <1>1, <1>2
<1>7. /\ \A d \in Chans \ {c} : Counted(d)' = Counted(d)
      /\ OneMore(Counted(c), Counted(c)')
  BY <1>3, <1>4, <1>5, <1>6, EntryCounted DEF UseInv, EntryInv
<1>8. /\ held' \in [Callers -> [Chans -> Nat]]
      /\ \A u \in Callers, d \in Chans : u # t \/ d # c => held'[u][d] = held[u][d]
      /\ \A d \in Chans \ {c} : Started(d)' = Started(d)
      /\ OneMore(Started(c), Started(c)')
  BY <1>3, <1>6, HeldUp DEF UseInv
<1>9. UseType'
  <2>1. echan' \in [Ent -> Chans \cup {NoChan}]
    BY <1>3, <1>6 DEF UseInv, UseType
  <2>2. use' \in [Ent -> Nat]
    BY <1>6 DEF UseInv, UseType
  <2>3. cchan' \in [Callers -> Chans \cup {NoChan}]
    BY <1>1 DEF UseInv, UseType
  <2> QED
    BY <1>8, <2>1, <2>2, <2>3 DEF UseType
<1>10. /\ cpc'[t] = "idle"
       /\ \A u \in Callers \ {t} : cpc'[u] = cpc[u] /\ cchan'[u] = cchan[u]
  BY <1>1 DEF UseInv, UseType, EntryInv, EntType
<1>11. UsePlace'
  <2>1. \A u \in Callers : cpc'[u] # "idle" => u # t /\ cchan'[u] \in Chans
    BY <1>10 DEF UseInv, UsePlace
  <2>2. \A u \in Callers : cpc'[u] \in Stopping =>
          /\ u # t /\ cpc[u] \in Stopping /\ cchan[u] \in Chans /\ cchan'[u] = cchan[u]
          /\ echan'[cent[u]] = echan[cent[u]]
    BY <1>5, <1>6, <1>10 DEF UseInv, UsePlace, UseType, Stopping
  <2>3. \A u \in Callers : cpc'[u] \in Stopping =>
          held'[u][cchan'[u]] > 0 /\ echan'[cent'[u]] = cchan'[u]
    BY <1>1, <1>8, <2>2 DEF UseInv, UsePlace
  <2>4. \A f \in aslist' : use'[f] > 0 /\ echan'[f] \in Chans
    <3>1. use'[e] = 1 /\ echan'[e] = c
      BY <1>4, <1>6 DEF UseInv, UseType
    <3>2. \A f \in aslist : f # e /\ f \in Ent
      BY <1>5 DEF EntryInv, EntType
    <3>3. \A f \in aslist : use'[f] = use[f] /\ echan'[f] = echan[f]
      BY <1>6, <3>2 DEF UseInv, UseType
    <3> QED
      BY <1>3, <1>6, <3>1, <3>3 DEF UseInv, UsePlace
  <2> QED
    BY <2>1, <2>3, <2>4 DEF UsePlace
<1>12. ASSUME NEW d \in Chans PROVE Balanced(d)'
  <2>1. Enders(d)' = Enders(d)
    BY <1>1, <1>10 DEF Enders, Stopping
  <2> QED
    BY <1>7, <1>8, <2>1, BalanceKept DEF UseInv
<1> QED
  BY <1>9, <1>11, <1>12 DEF UseInv

(* The entry of the last use leaves the list; the start is not yet taken back. *)
LEMMA RemoveUseInv ==
  ASSUME UseInv, EntryInv, NEW t \in Callers, StopRemove(t)
  PROVE  UseInv'
<1>1. PICK c \in Chans :
        /\ cpc[t] = "idle" /\ held[t][c] > 0
        /\ Listed(aslist, c) # {} /\ use[First(aslist, c)] <= 1
        /\ use' = [use EXCEPT ![First(aslist, c)] = 0]
        /\ aslist' = aslist \ {First(aslist, c)}
        /\ cent' = [cent EXCEPT ![t] = First(aslist, c)]
        /\ cchan' = [cchan EXCEPT ![t] = c]
        /\ cpc' = [cpc EXCEPT ![t] = "waiting"]
        /\ echan' = echan /\ held' = held
  BY DEF StopRemove, CallerAt
<1>2. PICK e : e = First(aslist, c)
  OBVIOUS
<1>3. e \in Listed(aslist, c) /\ e \in aslist /\ e \in Ent /\ echan[e] = c
  BY <1>1, <1>2, FirstListed DEF EntryInv, EntType, Listed
<1>4. /\ use' = [use EXCEPT ![e] = 0] /\ aslist' = aslist \ {e}
      /\ cent' = [cent EXCEPT ![t] = e]
  BY <1>1, <1>2
<1>5. use[e] = 1
  BY <1>1, <1>2, <1>3 DEF UseInv, UsePlace, UseType
<1>6. /\ \A d \in Chans \ {c} : Counted(d)' = Counted(d)
      /\ OneMore(Counted(c)', Counted(c))
  BY <1>1, <1>3, <1>4, <1>5, EntryDiscounted DEF UseInv, EntryInv
<1>7. /\ cpc'[t] = "waiting" /\ cchan'[t] = c /\ cent'[t] = e
      /\ \A u \in Callers \ {t} : /\ cpc'[u] = cpc[u] /\ cchan'[u] = cchan[u]
                                   /\ cent'[u] = cent[u]
  BY <1>1, <1>4 DEF UseInv, UseType, EntryInv, EntType
<1>8. UseType'
  <2>1. use' \in [Ent -> Nat]
    BY <1>4 DEF UseInv, UseType
  <2>2. cchan' \in [Callers -> Chans \cup {NoChan}]
    BY <1>1 DEF UseInv, UseType
  <2>3. echan' = echan /\ held' = held
    BY <1>1
  <2> QED
    BY <2>1, <2>2, <2>3 DEF UseInv, UseType
<1>9. UsePlace'
  <2>1. \A f \in aslist' : f # e /\ f \in aslist /\ f \in Ent /\ use'[f] = use[f]
    BY <1>4 DEF EntryInv, EntType, UseInv, UseType
  <2> QED
    BY <1>1, <1>3, <1>7, <2>1 DEF UseInv, UsePlace
<1>10. ASSUME NEW d \in Chans PROVE Balanced(d)'
  <2>1. Started(d)' = Started(d)
    BY <1>1 DEF Started, Starts, Pairs
  <2>2. CASE d = c
    <3>1. Enders(c)' = Enders(c) \cup {t} /\ t \notin Enders(c)
      BY <1>1, <1>7 DEF Enders, Stopping
    <3>2. OneMore(Enders(c), Enders(c)')
      BY <3>1 DEF OneMore
    <3> QED
      BY <1>6, <2>1, <2>2, <3>2, BalanceKept DEF UseInv
  <2>3. CASE d # c
    <3>1. Enders(d)' = Enders(d)
      BY <1>1, <1>7, <2>3 DEF Enders, Stopping
    <3> QED
      BY <1>6, <2>1, <2>3, <3>1, BalanceKept DEF UseInv
  <2> QED
    BY <2>2, <2>3
<1> QED
  BY <1>8, <1>9, <1>10 DEF UseInv

(* The start is taken back. *)
LEMMA RestoreUseInv ==
  ASSUME UseInv, EntryInv, NEW t \in Callers, StopRestore(t)
  PROVE  UseInv'
<1>1. /\ cpc[t] = "restore"
      /\ held' = [held EXCEPT ![t][cchan[t]] = @ + -1]
      /\ cchan' = [cchan EXCEPT ![t] = NoChan]
      /\ cent' = [cent EXCEPT ![t] = NoEnt]
      /\ cpc' = [cpc EXCEPT ![t] = "idle"]
      /\ UNCHANGED <<aslist, echan, use>>
  BY DEF StopRestore, Hold, CallerAt
<1>2. PICK c : c = cchan[t]
  OBVIOUS
<1>3. c \in Chans /\ held[t][c] > 0
  BY <1>1, <1>2 DEF UseInv, UsePlace, Stopping
<1>4. /\ held' \in [Callers -> [Chans -> Nat]]
      /\ \A u \in Callers, d \in Chans : u # t \/ d # c => held'[u][d] = held[u][d]
      /\ \A d \in Chans \ {c} : Started(d)' = Started(d)
      /\ OneMore(Started(c)', Started(c))
  BY <1>1, <1>2, <1>3, HeldDown DEF UseInv
<1>5. /\ cpc'[t] = "idle"
      /\ \A u \in Callers \ {t} : /\ cpc'[u] = cpc[u] /\ cchan'[u] = cchan[u]
                                   /\ cent'[u] = cent[u]
  BY <1>1 DEF UseInv, UseType, EntryInv, EntType
<1>6. UseType'
  <2>1. cchan' \in [Callers -> Chans \cup {NoChan}]
    BY <1>1 DEF UseInv, UseType
  <2>2. echan' = echan /\ use' = use
    BY <1>1
  <2> QED
    BY <1>4, <2>1, <2>2 DEF UseInv, UseType
<1>7. UsePlace'
  <2>1. \A u \in Callers : cpc'[u] # "idle" => u # t /\ cchan'[u] \in Chans
    BY <1>5 DEF UseInv, UsePlace
  <2>2. \A u \in Callers : cpc'[u] \in Stopping => u # t /\ cpc[u] \in Stopping
    BY <1>5 DEF Stopping
  <2> QED
    BY <1>1, <1>4, <1>5, <2>1, <2>2 DEF UseInv, UsePlace, Stopping
<1>8. ASSUME NEW d \in Chans PROVE Balanced(d)'
  <2>1. Counted(d)' = Counted(d)
    BY <1>1 DEF Counted, Pairs, Listed
  <2>2. CASE d = c
    <3>1. Enders(c) = Enders(c)' \cup {t} /\ t \notin Enders(c)'
      BY <1>1, <1>2, <1>5 DEF Enders, Stopping
    <3>2. OneMore(Enders(c)', Enders(c))
      BY <3>1 DEF OneMore
    <3> QED
      BY <1>4, <2>1, <2>2, <3>2, BalanceKept DEF UseInv
  <2>3. CASE d # c
    <3>1. Enders(d)' = Enders(d)
      BY <1>1, <1>2, <1>5, <2>3 DEF Enders, Stopping
    <3> QED
      BY <1>4, <2>1, <2>3, <3>1, BalanceKept DEF UseInv
  <2> QED
    BY <2>2, <2>3
<1> QED
  BY <1>6, <1>7, <1>8 DEF UseInv

LEMMA UseInvNext == UseInv /\ EntryInv /\ [Next]_vars => UseInv'
<1> SUFFICES ASSUME UseInv, EntryInv, [Next]_vars PROVE UseInv'
  OBVIOUS
<1>0. EntType
  BY DEF EntryInv
<1>1. ASSUME UNCHANGED <<aslist, echan, use, held, cpc, cchan, cent>> PROVE UseInv'
  BY <1>0, <1>1, UseFrame DEF UseInv, UseType, UsePlace
<1>2. CASE UNCHANGED vars
  BY <1>1, <1>2 DEF vars, listVars, callerVars
<1>3. CASE ThreadStep
  <2>1. ThreadUnchanged
    BY <1>3 DEF ThreadStep, ThreadLock, ThreadAwake, ThreadWait, ThreadRead, ThreadDefer
  <2> QED
    BY <1>1, <2>1 DEF ThreadUnchanged, callerVars
<1>4. ASSUME NEW c \in Chans, ChannelStep(c) PROVE UseInv'
  <2>1. ChannelUnchanged
    BY <1>4 DEF ChannelStep, DriverQueue, DriverHangup, SoftHangup
  <2> QED
    BY <1>1, <2>1 DEF ChannelUnchanged, listVars, callerVars
<1>5. ASSUME NEW t \in Callers, StartNew(t) \/ StartFlag(t) \/ StartFails(t) \/ StopPoll(t)
      PROVE  UseInv'
  <2>1. UNCHANGED <<aslist, echan, use, held, cent>>
    BY <1>5 DEF StartNew, StartFlag, StartFails, StopPoll, listVars, callerVars
  <2>2. /\ \A u \in Callers \ {t} : cpc'[u] = cpc[u] /\ cchan'[u] = cchan[u]
        /\ cchan' \in [Callers -> Chans \cup {NoChan}]
        /\ cpc'[t] # "idle" => cchan'[t] \in Chans
        /\ cpc'[t] \in Stopping <=> cpc[t] \in Stopping
        /\ cpc[t] \in Stopping => cchan'[t] = cchan[t]
    <3> USE DEF CallerAt, EntType, UseInv, UseType, UsePlace, Stopping
    <3>1. CASE StartNew(t)
      BY <1>0, <3>1 DEF StartNew
    <3>2. CASE StartFlag(t)
      BY <1>0, <3>2 DEF StartFlag
    <3>3. CASE StartFails(t)
      BY <1>0, <3>3 DEF StartFails
    <3>4. CASE StopPoll(t)
      BY <1>0, <3>4 DEF StopPoll
    <3> QED
      BY <1>5, <3>1, <3>2, <3>3, <3>4
  <2>3. \A u \in Callers : cpc'[u] # "idle" => cchan'[u] \in Chans
    BY <2>2 DEF UseInv, UsePlace
  <2> QED
    BY <1>0, <2>1, <2>2, <2>3, UseFrame
<1> QED
  BY <1>0, <1>2, <1>3, <1>4, <1>5, ExistingUseInv, NestedUseInv, InsertUseInv, RemoveUseInv,
     RestoreUseInv DEF Next, CallerStep

(* An entry in the list is there because some caller has started it. *)
LEMMA ListedHeld ==
  ASSUME UseInv, EntType, NEW e \in aslist
  PROVE  echan[e] \in Chans /\ \E t \in Callers : held[t][echan[e]] > 0
<1>1. PICK c \in Chans : c = echan[e]
  BY DEF UseInv, UsePlace
<1>2. use[e] \in Nat /\ use[e] >= 1
  BY DEF UseInv, UsePlace, UseType, EntType
<1>3. <<e, 1>> \in Counted(c)
  BY <1>1, <1>2 DEF Counted, Pairs, Listed
<1>4. Balanced(c)
  BY DEF UseInv
<1>5. Started(c) # {}
  <2>1. Cardinality(Counted(c)) # 0
    BY <1>3, <1>4, FS_EmptySet DEF Balanced
  <2>2. Cardinality(Started(c)) # 0
    BY <1>4, <2>1, BalanceTypes DEF Balanced
  <2> QED
    BY <2>2, FS_EmptySet
<1>6. PICK p : p \in Started(c)
  BY <1>5
<1>7. p[1] \in Callers /\ p[2] \in Nat \ {0} /\ p[2] <= held[p[1]][c]
  BY <1>6 DEF Started, Starts, Pairs
<1>8. held[p[1]][c] \in Nat
  BY <1>7 DEF UseInv, UseType
<1> QED
  BY <1>1, <1>7, <1>8

(* A channel in the array is that of a listed entry or of one being stopped. *)
LEMMA InUse == UseInv /\ EntryInv => ChannelInUse
<1> SUFFICES ASSUME UseInv, EntryInv, NEW e \in ents
             PROVE  \E t \in Callers : held[t][echan[e]] > 0
  BY DEF ChannelInUse
<1>1. CASE e \in aslist
  BY <1>1, ListedHeld DEF EntryInv
<1>2. CASE e \notin aslist
  <2>1. PICK t \in Callers : cpc[t] = "waiting" /\ cent[t] = e
    BY <1>2 DEF EntryInv, ReachedIsSafe
  <2> QED
    BY <2>1 DEF UseInv, UsePlace, Stopping
<1> QED
  BY <1>1, <1>2

(* Whatever the interleaving of the callers and the thread, even when      *)
(* several of them use one channel, and even if the counter laps a caller, *)
(* the thread's array mons has only channels that some caller has started  *)
(* and not finished stopping: none that may have been destroyed.           *)
THEOREM ChannelsInUse == Spec => []ChannelInUse
<1>1. Init => EntryInv /\ UseInv
  BY EntryInvInit, UseInvInit
<1>2. EntryInv /\ UseInv /\ [Next]_vars => EntryInv' /\ UseInv'
  BY EntryInvNext, UseInvNext
<1> QED
  BY <1>1, <1>2, InUse, PTL DEF Spec

(* What MapThenSumSet adds up, as a number of pairs *)
LEMMA UsesCounted ==
  ASSUME UseInv, EntType, NEW c \in Chans
  PROVE  MapThenSumSet(LAMBDA e : use[e], Listed(aslist, c)) = Cardinality(Counted(c))
<1>1. PICK L : L = Listed(aslist, c)
  OBVIOUS
<1>2. L \in SUBSET Ent
  BY <1>1 DEF EntType, Listed
<1>3. IsFiniteSet(L)
  <2>1. IsFiniteSet(1 .. MaxEnt)
    BY ASConstants, FS_Interval
  <2> QED
    BY <1>2, <2>1, FS_Subset DEF Ent
<1>4. Summable(use, L)
  BY <1>2, <1>3 DEF UseInv, UseType, Summable
<1>5. PICK g : SumOf(g, use, L)
  BY <1>4, SumExists
<1> DEFINE G == CHOOSE h : h = [s \in SUBSET L |->
                      IF s = {} THEN 0
                      ELSE use[CHOOSE x \in s : TRUE] + h[s \ {CHOOSE x \in s : TRUE}]]
<1>6. MapThenSumSet(LAMBDA e : use[e], L) = G[L]
  BY Zenon DEF MapThenSumSet, MapThenFoldSet
<1>7. SumOf(G, use, L)
  BY <1>5, Zenon DEF SumOf
<1>8. G[L] = Cardinality(Pairs(use, L))
  <2> HIDE DEF G
  <2> QED
    BY <1>4, <1>7, SumOfPairs
<1>9. MapThenSumSet(LAMBDA e : use[e], Listed(aslist, c))
        = MapThenSumSet(LAMBDA e : use[e], L)
  BY <1>1
<1> QED
  BY <1>1, <1>6, <1>8, <1>9 DEF Counted

(* The starts too *)
LEMMA StartsCounted ==
  ASSUME UseInv, NEW c \in Chans
  PROVE  MapThenSumSet(LAMBDA t : held[t][c], Callers) = Cardinality(Started(c))
<1>1. PICK f : f = Starts(c)
  OBVIOUS
<1>2. Summable(f, Callers) /\ \A t \in Callers : f[t] = held[t][c]
  BY <1>1, ASConstants DEF UseInv, UseType, Summable, Starts
<1>3. PICK g : SumOf(g, f, Callers)
  BY <1>2, SumExists
<1> DEFINE H == CHOOSE h : h = [s \in SUBSET Callers |->
                      IF s = {} THEN 0
                      ELSE held[CHOOSE x \in s : TRUE][c]
                             + h[s \ {CHOOSE x \in s : TRUE}]]
<1>4. MapThenSumSet(LAMBDA t : held[t][c], Callers) = H[Callers]
  BY Zenon DEF MapThenSumSet, MapThenFoldSet
<1>5. \A s \in SUBSET Callers : s # {} =>
         f[CHOOSE x \in s : TRUE] = held[CHOOSE x \in s : TRUE][c]
  BY <1>2
<1>6. SumOf(H, f, Callers)
  <2>1. g = [s \in SUBSET Callers |->
               IF s = {} THEN 0
               ELSE held[CHOOSE x \in s : TRUE][c] + g[s \ {CHOOSE x \in s : TRUE}]]
    BY <1>3, <1>5 DEF SumOf
  <2>2. H = [s \in SUBSET Callers |->
               IF s = {} THEN 0
               ELSE held[CHOOSE x \in s : TRUE][c] + H[s \ {CHOOSE x \in s : TRUE}]]
    BY <2>1, Zenon
  <2> HIDE DEF H
  <2> QED
    BY <1>5, <2>2 DEF SumOf
<1>7. H[Callers] = Cardinality(Pairs(f, Callers))
  <2> HIDE DEF H
  <2> QED
    BY <1>2, <1>6, SumOfPairs
<1> HIDE DEF H
<1> QED
  BY <1>1, <1>4, <1>7 DEF Started

(* Whatever the interleaving of the callers, and even when threads cannot  *)
(* be created, the use counts of a channel's entries add up to the starts  *)
(* that are not yet taken back: the last stop removes the entry, and no    *)
(* earlier one does.                                                       *)
THEOREM UseCountsExact == Spec => []UseCountExact
<1>1. Init => EntryInv /\ UseInv
  BY EntryInvInit, UseInvInit
<1>2. EntryInv /\ UseInv /\ [Next]_vars => EntryInv' /\ UseInv'
  BY EntryInvNext, UseInvNext
<1>3. EntryInv /\ UseInv => UseCountExact
  <2> SUFFICES ASSUME EntryInv, UseInv, NEW c \in Chans
               PROVE  MapThenSumSet(LAMBDA e : use[e], Listed(aslist, c))
                        = MapThenSumSet(LAMBDA t : held[t][c], Callers)
                            - Cardinality({t \in Callers :
                                 cpc[t] \in {"waiting", "restore"} /\ cchan[t] = c})
    BY Zenon DEF UseCountExact
  <2>1. MapThenSumSet(LAMBDA e : use[e], Listed(aslist, c)) = Cardinality(Counted(c))
    BY UsesCounted DEF EntryInv
  <2>2. MapThenSumSet(LAMBDA t : held[t][c], Callers) = Cardinality(Started(c))
    BY StartsCounted
  <2>3. Enders(c) = {t \in Callers : cpc[t] \in {"waiting", "restore"} /\ cchan[t] = c}
    BY DEF Enders, Stopping
  <2>4. Balanced(c)
    BY DEF UseInv
  <2> QED
    BY <2>1, <2>2, <2>3, <2>4 DEF Balanced
<1> QED
  BY <1>1, <1>2, <1>3, PTL DEF Spec

-----------------------------------------------------------------------------
(* TRIS_FLAG_END_DTMF_ONLY, when threads can be created *)

FlagType ==
  /\ orig \in [Ent -> BOOLEAN]
  /\ corig \in [Callers -> BOOLEAN]
  /\ dtmfonly \in [Chans -> BOOLEAN]

(* Somebody has read that the flag of c was not set, and the entry that    *)
(* remembers it is on its way into the list, in it or on its way out.      *)
Clearing(c) ==
  \/ \E e \in aslist : echan[e] = c /\ ~orig[e]
  \/ \E t \in Callers : cpc[t] = "insert" /\ cchan[t] = c /\ ~corig[t]
  \/ \E t \in Callers : cpc[t] \in Stopping /\ cchan[t] = c /\ ~orig[cent[t]]

(* The flag of a channel that has it is never read as not set, nor         *)
(* cleared; that of another is set only while somebody is to clear it.     *)
Flagged ==
  /\ \A c \in DtmfOnly : dtmfonly[c] /\ ~Clearing(c)
  /\ \A c \in Chans \ DtmfOnly : dtmfonly[c] => Clearing(c)

(* A thread that cannot be created leaves the flag set. *)
FlagInv == FlagType /\ (~MayFail => Flagged)

LEMMA FlagInvInit == Init => FlagInv
<1> SUFFICES ASSUME Init PROVE FlagInv
  OBVIOUS
<1>1. FlagType
  BY DEF Init, FlagType
<1>2. \A c \in Chans : dtmfonly[c] = (c \in DtmfOnly)
  BY DEF Init
<1>3. \A c \in DtmfOnly : dtmfonly[c]
  BY <1>2, ASConstants, Zenon
<1>4. \A c \in Chans \ DtmfOnly : ~dtmfonly[c]
  BY <1>2, Zenon
<1>5. \A c : ~Clearing(c)
  BY DEF Init, Clearing, Stopping
<1> QED
  BY <1>1, <1>3, <1>4, <1>5 DEF FlagInv, Flagged

(* Steps that neither change a flag nor move what remembers one *)
LEMMA FlagFrame ==
  ASSUME FlagInv, UNCHANGED <<dtmfonly, orig, corig>>,
         ~MayFail => \A c \in Chans : Clearing(c)' <=> Clearing(c)
  PROVE  FlagInv'
<1>1. FlagType'
  BY DEF FlagInv, FlagType
<1>2. ASSUME ~MayFail PROVE Flagged'
  BY <1>2, ASConstants DEF FlagInv, Flagged
<1> QED
  BY <1>1, <1>2 DEF FlagInv

(* The flag is read: who reads that it is not set is the one to clear it. *)
LEMMA FlagFlagInv ==
  ASSUME FlagInv, UseInv, EntType, NEW t \in Callers, StartFlag(t)
  PROVE  FlagInv'
<1>1. PICK c \in Chans : c = cchan[t]
  BY DEF StartFlag, UseInv, UsePlace
<1>2. /\ cpc[t] = "flag" /\ c = cchan[t]
      /\ corig' = [corig EXCEPT ![t] = dtmfonly[c]]
      /\ dtmfonly' = [dtmfonly EXCEPT ![c] = TRUE]
      /\ cpc' = [cpc EXCEPT ![t] = "insert"]
      /\ UNCHANGED <<aslist, echan, orig, cchan, cent>>
  BY <1>1 DEF StartFlag, CallerAt, listVars
<1>3. dtmfonly[c] \in BOOLEAN
  BY DEF FlagInv, FlagType
<1>4. /\ cpc'[t] = "insert" /\ corig'[t] = dtmfonly[c]
      /\ \A u \in Callers \ {t} : cpc'[u] = cpc[u] /\ corig'[u] = corig[u]
      /\ \A d \in Chans : dtmfonly'[d] = IF d = c THEN TRUE ELSE dtmfonly[d]
  BY <1>2, <1>3 DEF EntType, FlagInv, FlagType
<1>5. FlagType'
  BY <1>2, <1>3 DEF FlagInv, FlagType
<1>6. \A d \in Chans : Clearing(d)' <=> Clearing(d) \/ (d = c /\ ~dtmfonly[c])
  BY <1>2, <1>4 DEF Clearing, Stopping
<1>7. ASSUME ~MayFail PROVE Flagged'
  <2>1. Flagged
    BY <1>7 DEF FlagInv
  <2>2. ASSUME NEW d \in DtmfOnly PROVE dtmfonly'[d] /\ ~Clearing(d)'
    <3>1. d \in Chans /\ dtmfonly[d] /\ ~Clearing(d)
      BY ASConstants, <2>1 DEF Flagged
    <3>2. dtmfonly'[d] = IF d = c THEN TRUE ELSE dtmfonly[d]
      BY <1>4, <3>1
    <3>3. dtmfonly'[d]
      BY <3>1, <3>2, Zenon
    <3>4. ~Clearing(d)'
      BY <1>6, <3>1
    <3> QED
      BY <3>3, <3>4
  <2>3. ASSUME NEW d \in Chans \ DtmfOnly, dtmfonly'[d] PROVE Clearing(d)'
    <3>1. CASE d = c
      BY <1>6, <2>1, <3>1 DEF Flagged
    <3>2. CASE d # c
      <4>1. dtmfonly[d]
        BY <1>4, <2>3, <3>2
      <4> QED
        BY <1>6, <2>1, <4>1 DEF Flagged
    <3> QED
      BY <3>1, <3>2
  <2> QED
    BY <2>2, <2>3 DEF Flagged
<1> QED
  BY <1>5, <1>7 DEF FlagInv

(* What the caller has read goes with the entry into the list. *)
LEMMA InsertFlagInv ==
  ASSUME FlagInv, UseInv, EntryInv, NEW t \in Callers, StartInsert(t)
  PROVE  FlagInv'
<1>1. PICK c, e : c = cchan[t] /\ e = nent + 1
  OBVIOUS
<1>2. /\ cpc[t] = "insert" /\ c = cchan[t] /\ nent < MaxEnt
      /\ aslist' = aslist \cup {e}
      /\ echan' = [echan EXCEPT ![e] = c]
      /\ orig' = [orig EXCEPT ![e] = corig[t]]
      /\ cpc' = [cpc EXCEPT ![t] = "idle"]
      /\ cchan' = [cchan EXCEPT ![t] = NoChan]
      /\ UNCHANGED <<cent, corig, dtmfonly>>
  BY <1>1 DEF StartInsert, Insert, CallerAt, chanVars
<1>3. /\ e \in Ent /\ \A d \in aslist : d \in Ent /\ d # e
      /\ \A u \in Callers : cpc[u] \in Stopping => cent[u] \in Ent /\ cent[u] # e
  BY <1>1, <1>2, ASConstants DEF EntryInv, EntType, EntryPlace, Ent
<1>4. /\ echan'[e] = c /\ orig'[e] = corig[t]
      /\ \A d \in Ent \ {e} : echan'[d] = echan[d] /\ orig'[d] = orig[d]
  BY <1>2, <1>3 DEF UseInv, UseType, FlagInv, FlagType
<1>5. /\ cpc'[t] = "idle"
      /\ \A u \in Callers \ {t} : cpc'[u] = cpc[u] /\ cchan'[u] = cchan[u]
  BY <1>2 DEF EntryInv, EntType, UseInv, UseType
<1>6. FlagType'
  BY <1>2 DEF FlagInv, FlagType
<1>7. ASSUME NEW d PROVE Clearing(d)' <=> Clearing(d)
  <2>1. (\E f \in aslist' : echan'[f] = d /\ ~orig'[f])
          <=> (c = d /\ ~corig[t]) \/ \E f \in aslist : echan[f] = d /\ ~orig[f]
    BY <1>2, <1>3, <1>4
  <2>2. (\E u \in Callers : cpc'[u] = "insert" /\ cchan'[u] = d /\ ~corig'[u])
          \/ (c = d /\ ~corig[t])
          <=> \E u \in Callers : cpc[u] = "insert" /\ cchan[u] = d /\ ~corig[u]
    BY <1>2, <1>5
  <2>3. (\E u \in Callers : cpc'[u] \in Stopping /\ cchan'[u] = d /\ ~orig'[cent'[u]])
          <=> \E u \in Callers : cpc[u] \in Stopping /\ cchan[u] = d /\ ~orig[cent[u]]
    BY <1>2, <1>3, <1>4, <1>5 DEF Stopping
  <2> QED
    BY <2>1, <2>2, <2>3 DEF Clearing
<1>8. ASSUME ~MayFail PROVE Flagged'
  BY <1>2, <1>7, <1>8 DEF FlagInv, Flagged
<1> QED
  BY <1>6, <1>8 DEF FlagInv

(* The entry that leaves the list still remembers the flag. *)
LEMMA RemoveFlagInv ==
  ASSUME FlagInv, UseInv, EntryInv, NEW t \in Callers, StopRemove(t)
  PROVE  FlagInv'
<1>1. PICK c \in Chans :
        /\ cpc[t] = "idle" /\ Listed(aslist, c) # {}
        /\ aslist' = aslist \ {First(aslist, c)}
        /\ cent' = [cent EXCEPT ![t] = First(aslist, c)]
        /\ cchan' = [cchan EXCEPT ![t] = c]
        /\ cpc' = [cpc EXCEPT ![t] = "waiting"]
        /\ UNCHANGED <<echan, orig, corig, dtmfonly>>
  BY DEF StopRemove, CallerAt, chanVars
<1>2. PICK e : e = First(aslist, c)
  OBVIOUS
<1>3. e \in aslist /\ echan[e] = c
  BY <1>1, <1>2, FirstListed DEF EntryInv, EntType
<1>4. aslist' = aslist \ {e} /\ cent' = [cent EXCEPT ![t] = e]
  BY <1>1, <1>2
<1>5. /\ cpc'[t] = "waiting" /\ cchan'[t] = c /\ cent'[t] = e
      /\ \A u \in Callers \ {t} : /\ cpc'[u] = cpc[u] /\ cchan'[u] = cchan[u]
                                   /\ cent'[u] = cent[u]
  BY <1>1, <1>4 DEF EntryInv, EntType, UseInv, UseType
<1>6. ASSUME NEW d \in Chans PROVE Clearing(d)' <=> Clearing(d)
  <2>1. (\E f \in aslist : echan[f] = d /\ ~orig[f])
          <=> (c = d /\ ~orig[e]) \/ \E f \in aslist' : echan'[f] = d /\ ~orig'[f]
    BY <1>1, <1>3, <1>4
  <2>2. (\E u \in Callers : cpc'[u] = "insert" /\ cchan'[u] = d /\ ~corig'[u])
          <=> \E u \in Callers : cpc[u] = "insert" /\ cchan[u] = d /\ ~corig[u]
    BY <1>1, <1>5
  <2>3. (\E u \in Callers : cpc'[u] \in Stopping /\ cchan'[u] = d /\ ~orig'[cent'[u]])
          <=> \/ c = d /\ ~orig[e]
              \/ \E u \in Callers : cpc[u] \in Stopping /\ cchan[u] = d /\ ~orig[cent[u]]
    BY <1>1, <1>5 DEF Stopping
  <2> QED
    BY <2>1, <2>2, <2>3 DEF Clearing
<1> QED
  BY <1>1, <1>6, FlagFrame

(* Who remembers that the flag was not set clears it; others leave it, and *)
(* have nobody to clear it for.                                            *)
LEMMA RestoreFlagInv ==
  ASSUME FlagInv, UseInv, EntryInv, NEW t \in Callers, StopRestore(t)
  PROVE  FlagInv'
<1>1. PICK c \in Chans : c = cchan[t]
  BY DEF StopRestore, UseInv, UsePlace
<1>2. /\ cpc[t] = "restore" /\ c = cchan[t]
      /\ dtmfonly' = [dtmfonly EXCEPT ![c] = IF orig[cent[t]] THEN @ ELSE FALSE]
      /\ cchan' = [cchan EXCEPT ![t] = NoChan]
      /\ cent' = [cent EXCEPT ![t] = NoEnt]
      /\ cpc' = [cpc EXCEPT ![t] = "idle"]
      /\ UNCHANGED <<aslist, echan, orig, corig>>
  BY <1>1 DEF StopRestore, RestoreFlag, CallerAt
<1>3. /\ cpc'[t] = "idle"
      /\ \A u \in Callers \ {t} : /\ cpc'[u] = cpc[u] /\ cchan'[u] = cchan[u]
                                   /\ cent'[u] = cent[u]
  BY <1>2 DEF EntryInv, EntType, UseInv, UseType
<1>4. orig[cent[t]] \in BOOLEAN
  BY <1>2 DEF FlagInv, FlagType, EntryInv, EntryPlace, Stopping
<1>5. /\ dtmfonly'[c] = IF orig[cent[t]] THEN dtmfonly[c] ELSE FALSE
      /\ \A d \in Chans \ {c} : dtmfonly'[d] = dtmfonly[d]
      /\ dtmfonly' \in [Chans -> BOOLEAN]
  <2>1. dtmfonly \in [Chans -> BOOLEAN]
    BY DEF FlagInv, FlagType
  <2>2. (IF orig[cent[t]] THEN dtmfonly[c] ELSE FALSE) \in BOOLEAN
    BY <2>1, <1>4
  <2> QED
    BY <1>2, <2>1, <2>2
<1>6. FlagType'
  BY <1>2, <1>5 DEF FlagInv, FlagType
<1>7. \A d : Clearing(d) <=> Clearing(d)' \/ (d = c /\ ~orig[cent[t]])
  BY <1>2, <1>3 DEF Clearing, Stopping
<1>8. ASSUME ~MayFail PROVE Flagged'
  <2>1. Flagged
    BY <1>8 DEF FlagInv
  <2>2. ASSUME NEW d \in DtmfOnly PROVE dtmfonly'[d] /\ ~Clearing(d)'
    <3>1. d \in Chans /\ dtmfonly[d] /\ ~Clearing(d)
      BY ASConstants, <2>1 DEF Flagged
    <3>2. ~Clearing(d)' /\ (d = c => orig[cent[t]])
      BY <1>7, <3>1
    <3>3. CASE d = c
      <4>1. dtmfonly'[c] = dtmfonly[c]
        BY <1>5, <3>2, <3>3
      <4> QED
        BY <3>1, <3>2, <3>3, <4>1, Zenon
    <3>4. CASE d # c
      <4>1. dtmfonly'[d] = dtmfonly[d]
        BY <1>5, <3>1, <3>4
      <4> QED
        BY <3>1, <3>2, <4>1, Zenon
    <3> QED
      BY <3>3, <3>4
  <2>3. ASSUME NEW d \in Chans \ DtmfOnly, dtmfonly'[d] PROVE Clearing(d)'
    <3>1. CASE d = c /\ ~orig[cent[t]]
      BY <1>5, <2>3, <3>1
    <3>2. CASE d = c /\ orig[cent[t]]
      <4>1. dtmfonly[d]
        BY <1>5, <2>3, <3>2
      <4> QED
        BY <1>7, <2>1, <3>2, <4>1 DEF Flagged
    <3>3. CASE d # c
      <4>1. dtmfonly[d]
        BY <1>5, <2>3, <3>3
      <4> QED
        BY <1>7, <2>1, <3>3, <4>1 DEF Flagged
    <3> QED
      BY <3>1, <3>2, <3>3
  <2> QED
    BY <2>2, <2>3 DEF Flagged
<1> QED
  BY <1>6, <1>8 DEF FlagInv

LEMMA FlagInvNext == EntryInv /\ UseInv /\ FlagInv /\ [Next]_vars => FlagInv'
<1> SUFFICES ASSUME EntryInv, UseInv, FlagInv, [Next]_vars PROVE FlagInv'
  OBVIOUS
<1>0. EntType
  BY DEF EntryInv
<1>1. ASSUME UNCHANGED <<aslist, echan, orig, cpc, cchan, cent, corig, dtmfonly>>
      PROVE  FlagInv'
  <2>1. \A c \in Chans : Clearing(c)' <=> Clearing(c)
    BY <1>1 DEF Clearing
  <2> QED
    BY <1>1, <2>1, FlagFrame
<1>2. CASE UNCHANGED vars
  BY <1>1, <1>2 DEF vars, listVars, callerVars, chanVars
<1>3. CASE ThreadStep
  <2>1. ThreadUnchanged
    BY <1>3 DEF ThreadStep, ThreadLock, ThreadAwake, ThreadWait, ThreadRead, ThreadDefer
  <2> QED
    BY <1>1, <2>1 DEF ThreadUnchanged, callerVars
<1>4. ASSUME NEW c \in Chans, ChannelStep(c) PROVE FlagInv'
  <2>1. ChannelUnchanged
    BY <1>4 DEF ChannelStep, DriverQueue, DriverHangup, SoftHangup
  <2> QED
    BY <1>1, <2>1 DEF ChannelUnchanged, listVars, callerVars
<1>5. ASSUME NEW t \in Callers, CallerStep(t) PROVE FlagInv'
  <2>1. CASE StartExisting(t) \/ StopNested(t)
    BY <1>1, <2>1 DEF StartExisting, StopNested, chanVars
  <2>2. CASE StartNew(t) \/ StopPoll(t) \/ StartFails(t)
    <3>1. /\ UNCHANGED <<aslist, echan, orig, cent, corig, dtmfonly>>
          /\ \A u \in Callers \ {t} : cpc'[u] = cpc[u] /\ cchan'[u] = cchan[u]
      BY <1>0, <2>2 DEF StartNew, StopPoll, StartFails, CallerAt, listVars, chanVars,
         EntType, UseInv, UseType
    <3>2. CASE StartNew(t)
      <4>1. cpc[t] = "idle" /\ cpc'[t] = "flag"
        BY <1>0, <3>2 DEF StartNew, CallerAt, EntType
      <4>2. \A c \in Chans : Clearing(c)' <=> Clearing(c)
        BY <3>1, <4>1 DEF Clearing, Stopping
      <4> QED
        BY <3>1, <4>2, FlagFrame
    <3>3. CASE StopPoll(t)
      <4>1. cpc[t] = "waiting" /\ cpc'[t] = "restore" /\ cchan'[t] = cchan[t]
        BY <1>0, <3>3 DEF StopPoll, CallerAt, EntType
      <4>2. \A c \in Chans : Clearing(c)' <=> Clearing(c)
        BY <3>1, <4>1 DEF Clearing, Stopping
      <4> QED
        BY <3>1, <4>2, FlagFrame
    <3>4. CASE StartFails(t)
      BY <3>1, <3>4, FlagFrame DEF StartFails
    <3> QED
      BY <2>2, <3>2, <3>3, <3>4
  <2> QED
    BY <1>0, <1>5, <2>1, <2>2, FlagFlagInv, InsertFlagInv, RemoveFlagInv,
       RestoreFlagInv DEF CallerStep
<1> QED
  BY <1>2, <1>3, <1>4, <1>5 DEF Next

(* When threads can be created, a channel that no caller has in            *)
(* autoservice has TRIS_FLAG_END_DTMF_ONLY as it was, whatever the         *)
(* interleaving of the callers, also of several that use one channel, the  *)
(* thread and the drivers.                                                 *)
THEOREM DtmfFlagPutBack ==
  ASSUME ~MayFail
  PROVE  Spec => []DtmfFlagRestored
<1>1. Init => EntryInv /\ UseInv /\ FlagInv
  BY EntryInvInit, UseInvInit, FlagInvInit
<1>2. EntryInv /\ UseInv /\ FlagInv /\ [Next]_vars => EntryInv' /\ UseInv' /\ FlagInv'
  BY EntryInvNext, UseInvNext, FlagInvNext
<1>3. EntryInv /\ UseInv /\ FlagInv => DtmfFlagRestored
  <2> SUFFICES ASSUME EntryInv, UseInv, FlagInv, NEW c \in Chans, Away(c)
               PROVE  dtmfonly[c] = (c \in DtmfOnly)
    BY DEF DtmfFlagRestored
  <2>1. \A e \in aslist : echan[e] # c
    BY ListedHeld DEF Away, EntryInv
  <2>2. ~Clearing(c)
    BY <2>1 DEF Away, Clearing
  <2>3. dtmfonly[c] \in BOOLEAN
    BY DEF FlagInv, FlagType
  <2> QED
    BY <2>2, <2>3 DEF FlagInv, Flagged
<1> QED
  BY <1>1, <1>2, <1>3, PTL DEF Spec

-----------------------------------------------------------------------------
(* One thread uses a channel, as the applications do that put the channel  *)
(* they run on, or one that they have called, in autoservice.              *)

(* The assumption: no two callers may use the same channel. *)
OneOwner ==
  \A t, u \in Callers, c \in Chans : <<t, c>> \in Uses /\ <<u, c>> \in Uses => t = u

(* A caller holds, or is called with, only channels it may use; a channel  *)
(* has one entry in the list, and none while its owner makes or takes      *)
(* apart an entry.                                                         *)
OwnInv ==
  /\ \A t \in Callers, c \in Chans : held[t][c] > 0 \/ cchan[t] = c => <<t, c>> \in Uses
  /\ \A t \in Callers : cpc[t] = "idle" => cchan[t] = NoChan
  /\ \A d, e \in aslist : echan[d] = echan[e] => d = e
  /\ \A t \in Callers, e \in aslist : cpc[t] # "idle" => echan[e] # cchan[t]

LEMMA OwnInvInit == Init => OwnInv
  BY ASConstants DEF Init, OwnInv

(* Steps that change only how often a caller holds a channel *)
LEMMA OwnFrame ==
  ASSUME OwnInv, UNCHANGED <<aslist, echan, cpc, cchan>>,
         \A t \in Callers, c \in Chans : held'[t][c] > 0 => <<t, c>> \in Uses
  PROVE  OwnInv'
BY DEF OwnInv

(* A nested start *)
LEMMA ExistingOwnInv ==
  ASSUME OwnInv, UseInv, NEW t \in Callers, StartExisting(t)
  PROVE  OwnInv'
<1>1. PICK c \in Chans :
        /\ <<t, c>> \in Uses
        /\ held' = [held EXCEPT ![t][c] = @ + 1]
        /\ UNCHANGED <<aslist, echan, cpc, cchan>>
  BY DEF StartExisting, Hold
<1>2. \A u \in Callers, d \in Chans : u # t \/ d # c => held'[u][d] = held[u][d]
  BY <1>1, HeldUp DEF UseInv
<1>3. \A u \in Callers, d \in Chans : held'[u][d] > 0 => <<u, d>> \in Uses
  BY <1>1, <1>2 DEF OwnInv
<1> QED
  BY <1>1, <1>3, OwnFrame

(* A nested stop *)
LEMMA NestedOwnInv ==
  ASSUME OwnInv, UseInv, NEW t \in Callers, StopNested(t)
  PROVE  OwnInv'
<1>1. PICK c \in Chans :
        /\ held[t][c] > 0
        /\ held' = [held EXCEPT ![t][c] = @ + -1]
        /\ UNCHANGED <<aslist, echan, cpc, cchan>>
  BY DEF StopNested, Hold
<1>2. \A u \in Callers, d \in Chans : u # t \/ d # c => held'[u][d] = held[u][d]
  BY <1>1, HeldDown DEF UseInv
<1>3. \A u \in Callers, d \in Chans : held'[u][d] > 0 => <<u, d>> \in Uses
  BY <1>1, <1>2 DEF OwnInv
<1> QED
  BY <1>1, <1>3, OwnFrame

(* No entry is in the list: the owner goes and makes one. *)
LEMMA NewOwnInv ==
  ASSUME OwnInv, UseInv, EntType, NEW t \in Callers, StartNew(t)
  PROVE  OwnInv'
<1>1. PICK c \in Chans :
        /\ cpc[t] = "idle" /\ <<t, c>> \in Uses /\ Listed(aslist, c) = {}
        /\ cchan' = [cchan EXCEPT ![t] = c] /\ cpc' = [cpc EXCEPT ![t] = "flag"]
        /\ UNCHANGED <<aslist, echan, held>>
  BY DEF StartNew, CallerAt, listVars
<1>2. /\ cpc'[t] = "flag" /\ cchan'[t] = c
      /\ \A u \in Callers \ {t} : cpc'[u] = cpc[u] /\ cchan'[u] = cchan[u]
  BY <1>1 DEF EntType, UseInv, UseType
<1> QED
  BY <1>1, <1>2 DEF OwnInv, Listed

(* The entry that enters the list is the only one of its channel. *)
LEMMA InsertOwnInv ==
  ASSUME OneOwner, OwnInv, UseInv, EntryInv, NEW t \in Callers, StartInsert(t)
  PROVE  OwnInv'
<1>1. PICK c, e : c = cchan[t] /\ e = nent + 1
  OBVIOUS
<1>2. /\ cpc[t] = "insert" /\ c = cchan[t] /\ nent < MaxEnt
      /\ aslist' = aslist \cup {e}
      /\ echan' = [echan EXCEPT ![e] = c]
      /\ held' = [held EXCEPT ![t][c] = @ + 1]
      /\ cpc' = [cpc EXCEPT ![t] = "idle"]
      /\ cchan' = [cchan EXCEPT ![t] = NoChan]
  BY <1>1 DEF StartInsert, Insert, Hold, CallerAt
<1>3. c \in Chans /\ <<t, c>> \in Uses
  BY <1>2 DEF UseInv, UsePlace, OwnInv
<1>4. e \in Ent /\ \A d \in aslist : d \in Ent /\ d # e
  BY <1>1, <1>2, ASConstants DEF EntryInv, EntType, EntryPlace, Ent
<1>5. echan'[e] = c /\ \A d \in Ent \ {e} : echan'[d] = echan[d]
  BY <1>2, <1>4 DEF UseInv, UseType
<1>6. /\ cpc'[t] = "idle" /\ cchan'[t] = NoChan
      /\ \A u \in Callers \ {t} : cpc'[u] = cpc[u] /\ cchan'[u] = cchan[u]
  BY <1>2 DEF EntryInv, EntType, UseInv, UseType
<1>7. \A u \in Callers, d \in Chans : u # t \/ d # c => held'[u][d] = held[u][d]
  BY <1>2, <1>3, HeldUp DEF UseInv
<1>8. \A u \in Callers, d \in Chans : held'[u][d] > 0 \/ cchan'[u] = d => <<u, d>> \in Uses
  BY <1>3, <1>6, <1>7, ASConstants DEF OwnInv
<1>9. \A d \in aslist : echan[d] # c
  BY <1>2 DEF OwnInv
<1>10. \A u \in Callers \ {t} : cchan[u] # c
  BY <1>3 DEF OneOwner, OwnInv
<1>11. \A d, f \in aslist' : echan'[d] = echan'[f] => d = f
  BY <1>2, <1>4, <1>5, <1>9 DEF OwnInv
<1>12. \A u \in Callers : cpc'[u] = "idle" => cchan'[u] = NoChan
  BY <1>6 DEF OwnInv
<1>13. \A u \in Callers, d \in aslist' : cpc'[u] # "idle" => echan'[d] # cchan'[u]
  BY <1>2, <1>4, <1>5, <1>6, <1>10 DEF OwnInv
<1> QED
  BY <1>8, <1>11, <1>12, <1>13 DEF OwnInv

(* The thread cannot be created. *)
LEMMA FailsOwnInv ==
  ASSUME OwnInv, UseInv, EntType, NEW t \in Callers, StartFails(t)
  PROVE  OwnInv'
<1>1. /\ cpc' = [cpc EXCEPT ![t] = "idle"] /\ cchan' = [cchan EXCEPT ![t] = NoChan]
      /\ UNCHANGED <<aslist, echan, held>>
  BY DEF StartFails, CallerAt, listVars
<1>2. /\ cpc'[t] = "idle" /\ cchan'[t] = NoChan
      /\ \A u \in Callers \ {t} : cpc'[u] = cpc[u] /\ cchan'[u] = cchan[u]
  BY <1>1 DEF EntType, UseInv, UseType
<1> QED
  BY <1>1, <1>2, ASConstants DEF OwnInv

(* The entry that leaves the list was the channel's only one. *)
LEMMA RemoveOwnInv ==
  ASSUME OneOwner, OwnInv, UseInv, EntryInv, NEW t \in Callers, StopRemove(t)
  PROVE  OwnInv'
<1>1. PICK c \in Chans :
        /\ cpc[t] = "idle" /\ held[t][c] > 0 /\ Listed(aslist, c) # {}
        /\ aslist' = aslist \ {First(aslist, c)}
        /\ cchan' = [cchan EXCEPT ![t] = c]
        /\ cpc' = [cpc EXCEPT ![t] = "waiting"]
        /\ UNCHANGED <<echan, held>>
  BY DEF StopRemove, CallerAt
<1>2. PICK e : e = First(aslist, c)
  OBVIOUS
<1>3. e \in aslist /\ echan[e] = c /\ aslist' = aslist \ {e}
  BY <1>1, <1>2, FirstListed DEF EntryInv, EntType
<1>4. <<t, c>> \in Uses
  BY <1>1 DEF OwnInv
<1>5. /\ cpc'[t] = "waiting" /\ cchan'[t] = c
      /\ \A u \in Callers \ {t} : cpc'[u] = cpc[u] /\ cchan'[u] = cchan[u]
  BY <1>1 DEF EntryInv, EntType, UseInv, UseType
<1>6. \A u \in Callers, d \in Chans : held'[u][d] > 0 \/ cchan'[u] = d => <<u, d>> \in Uses
  BY <1>1, <1>4, <1>5 DEF OwnInv
<1>7. \A d \in aslist' : echan[d] # c
  BY <1>3 DEF OwnInv
<1> QED
  BY <1>1, <1>3, <1>5, <1>6, <1>7 DEF OwnInv

(* The entry is taken apart. *)
LEMMA RestoreOwnInv ==
  ASSUME OwnInv, UseInv, EntryInv, NEW t \in Callers, StopRestore(t)
  PROVE  OwnInv'
<1>1. PICK c \in Chans : c = cchan[t]
  BY DEF StopRestore, UseInv, UsePlace
<1>2. /\ cpc[t] = "restore" /\ c = cchan[t]
      /\ held' = [held EXCEPT ![t][c] = @ + -1]
      /\ cchan' = [cchan EXCEPT ![t] = NoChan]
      /\ cpc' = [cpc EXCEPT ![t] = "idle"]
      /\ UNCHANGED <<aslist, echan>>
  BY <1>1 DEF StopRestore, Hold, CallerAt
<1>3. /\ cpc'[t] = "idle" /\ cchan'[t] = NoChan
      /\ \A u \in Callers \ {t} : cpc'[u] = cpc[u] /\ cchan'[u] = cchan[u]
  BY <1>2 DEF EntryInv, EntType, UseInv, UseType
<1>4. held[t][c] > 0
  BY <1>2 DEF UseInv, UsePlace, Stopping
<1>5. \A u \in Callers, d \in Chans : u # t \/ d # c => held'[u][d] = held[u][d]
  BY <1>2, <1>4, HeldDown DEF UseInv
<1>6. \A u \in Callers, d \in Chans : held'[u][d] > 0 \/ cchan'[u] = d => <<u, d>> \in Uses
  BY <1>3, <1>4, <1>5, ASConstants DEF OwnInv
<1> QED
  BY <1>2, <1>3, <1>6 DEF OwnInv

LEMMA OwnInvNext ==
  OneOwner /\ EntryInv /\ UseInv /\ OwnInv /\ [Next]_vars => OwnInv'
<1> SUFFICES ASSUME OneOwner, EntryInv, UseInv, OwnInv, [Next]_vars PROVE OwnInv'
  OBVIOUS
<1>0. EntType
  BY DEF EntryInv
<1>1. ASSUME UNCHANGED <<aslist, echan, cpc, cchan, held>> PROVE OwnInv'
  BY <1>1, OwnFrame DEF OwnInv
<1>2. CASE UNCHANGED vars
  BY <1>1, <1>2 DEF vars, listVars, callerVars
<1>3. CASE ThreadStep
  <2>1. ThreadUnchanged
    BY <1>3 DEF ThreadStep, ThreadLock, ThreadAwake, ThreadWait, ThreadRead, ThreadDefer
  <2> QED
    BY <1>1, <2>1 DEF ThreadUnchanged, callerVars
<1>4. ASSUME NEW c \in Chans, ChannelStep(c) PROVE OwnInv'
  <2>1. ChannelUnchanged
    BY <1>4 DEF ChannelStep, DriverQueue, DriverHangup, SoftHangup
  <2> QED
    BY <1>1, <2>1 DEF ChannelUnchanged, listVars, callerVars
<1>5. ASSUME NEW t \in Callers, CallerStep(t) PROVE OwnInv'
  <2>1. CASE StartFlag(t) \/ StopPoll(t)
    <3>1. /\ UNCHANGED <<aslist, echan, cchan, held>>
          /\ \A u \in Callers : cpc'[u] = "idle" <=> cpc[u] = "idle"
      BY <1>0, <2>1 DEF StartFlag, StopPoll, CallerAt, listVars, EntType
    <3> QED
      BY <3>1 DEF OwnInv
  <2> QED
    BY <1>0, <1>5, <2>1, ExistingOwnInv, NewOwnInv, InsertOwnInv, NestedOwnInv,
       FailsOwnInv, RemoveOwnInv, RestoreOwnInv DEF CallerStep
<1> QED
  BY <1>2, <1>3, <1>4, <1>5 DEF Next

-----------------------------------------------------------------------------
(* What giving the deferred frames back does to a read queue *)

(* r is q with the first n frames of d put before it, the last one first. *)
PutBefore(r, q, d, n) ==
  /\ r \in Seq(Frame)
  /\ Len(r) = n + Len(q)
  /\ \A k \in 1 .. n : r[k] = d[n - k + 1]
  /\ \A k \in 1 .. Len(q) : r[n + k] = q[k]

(* Nothing goes before a queue that ends in a hangup, and nothing before a *)
(* hangup that is the first frame put back into an empty queue.            *)
PutBack(r, q, d, n) ==
  IF HangupLast(q) THEN r = q
  ELSE IF q = <<>> /\ n > 0 /\ d[1].kind = "hangup" THEN r = <<d[1]>>
  ELSE PutBefore(r, q, d, n)

(* tris_queue_frame_head, once more *)
LEMMA PutBackOne ==
  ASSUME NEW q \in Seq(Frame), NEW d \in Seq(Frame), NEW n \in Nat, n < Len(d),
         NEW r, PutBack(r, q, d, n)
  PROVE  PutBack(QueueHead(r, d[n + 1]), q, d, n + 1)
<1>1. n + 1 \in 1 .. Len(d) /\ d[n + 1] \in Frame
  OBVIOUS
<1>2. CASE HangupLast(q)
  BY <1>2 DEF PutBack, QueueHead
<1>3. CASE ~HangupLast(q) /\ q = <<>> /\ n > 0 /\ d[1].kind = "hangup"
  <2>1. r = <<d[1]>>
    BY <1>3 DEF PutBack
  <2>2. HangupLast(r)
    BY <1>3, <2>1 DEF HangupLast
  <2> QED
    BY <1>3, <2>1, <2>2 DEF PutBack, QueueHead
<1>4. CASE ~HangupLast(q) /\ q = <<>> /\ n = 0 /\ d[1].kind = "hangup"
  <2>1. r = <<>>
    BY <1>4 DEF PutBack, PutBefore
  <2>2. QueueHead(r, d[1]) = <<d[1]>>
    BY <1>1, <1>4, <2>1 DEF QueueHead, HangupLast
  <2> QED
    BY <1>4, <2>2 DEF PutBack
<1>5. CASE ~HangupLast(q) /\ ~(q = <<>> /\ d[1].kind = "hangup")
  <2>1. PutBefore(r, q, d, n)
    BY <1>5 DEF PutBack
  <2>2. r \in Seq(Frame) /\ Len(r) = n + Len(q) /\ Len(q) \in Nat
    BY <2>1 DEF PutBefore
  <2>3. ~HangupLast(r)
    <3>1. CASE q = <<>> /\ n = 0
      BY <2>2, <3>1 DEF HangupLast
    <3>2. CASE q = <<>> /\ n > 0
      <4>1. r[n] = d[1]
        BY <2>1, <3>2 DEF PutBefore
      <4> QED
        BY <1>5, <2>2, <3>2, <4>1 DEF HangupLast
    <3>3. CASE q # <<>>
      <4>1. Len(q) \in 1 .. Len(q) /\ r[n + Len(q)] = q[Len(q)]
        BY <2>1, <3>3 DEF PutBefore
      <4> QED
        BY <1>5, <2>2, <3>3, <4>1 DEF HangupLast
    <3> QED
      BY <3>1, <3>2, <3>3
  <2>4. QueueHead(r, d[n + 1]) = <<d[n + 1]>> \o r
    BY <2>3 DEF QueueHead
  <2>5. PICK h : h = <<d[n + 1]>> \o r
    OBVIOUS
  <2>6. /\ h \in Seq(Frame) /\ Len(h) = 1 + Len(r) /\ h[1] = d[n + 1]
        /\ \A k \in 1 .. Len(r) : h[k + 1] = r[k]
    BY <1>1, <2>2, <2>5
  <2>7. \A k \in 1 .. n + 1 : h[k] = d[(n + 1) - k + 1]
    <3>1. ASSUME NEW k \in 1 .. n PROVE h[k + 1] = d[(n + 1) - (k + 1) + 1]
      BY <2>1, <2>2, <2>6 DEF PutBefore
    <3>2. ASSUME NEW k \in 1 .. n + 1, k # 1 PROVE h[k] = d[(n + 1) - k + 1]
      <4>1. k - 1 \in 1 .. n /\ (k - 1) + 1 = k
        BY <3>2
      <4> QED
        BY <3>1, <4>1
    <3> QED
      BY <2>6, <3>2
  <2>8. ASSUME NEW k \in 1 .. Len(q) PROVE h[(n + 1) + k] = q[k]
    <3>1. n + k \in 1 .. Len(r) /\ (n + 1) + k = (n + k) + 1
      BY <2>2
    <3> QED
      BY <2>1, <2>6, <3>1 DEF PutBefore
  <2>9. PutBefore(h, q, d, n + 1)
    BY <2>2, <2>6, <2>7, <2>8 DEF PutBefore
  <2> QED
    BY <1>5, <2>4, <2>5, <2>9 DEF PutBack
<1> QED
  BY <1>2, <1>3, <1>4, <1>5

LEMMA Requeued ==
  ASSUME NEW q \in Seq(Frame), NEW d \in Seq(Frame)
  PROVE  PutBack(Requeue(q, d), q, d, Len(d))
<1> DEFINE D == DOMAIN d
           pick == [s \in SUBSET D |-> Max(s)]
           step == [i \in D |-> [v \in Seq(Frame) |-> QueueHead(v, d[i])]]
           G == CHOOSE g : g = [s \in SUBSET (DOMAIN d) |->
                                  IF s = {} THEN q
                                  ELSE QueueHead(g[s \ {Max(s)}], d[Max(s)])]
<1>1. Requeue(q, d) = G[D]
  BY Zenon DEF Requeue, FoldLeft, MapThenFoldSet
<1>2. D = 1 .. Len(d) /\ Len(d) \in Nat
  OBVIOUS
<1>3. \A s \in SUBSET D : s # {} => Max(s) \in s /\ \A i \in s : Max(s) >= i
  <2>1. \A s \in SUBSET D : s # {} => \E i \in s : \A j \in s : j <= i
    BY <1>2, Greatest
  <2>2. \A s \in SUBSET D : s # {} => \E i \in s : \A j \in s : i >= j
    <3> HIDE DEF D
    <3> QED
      BY <1>2, <2>1
  <2> HIDE DEF D
  <2> QED
    BY <2>2, Zenon DEF Max
<1>4. \A i \in D, v \in Seq(Frame) : QueueHead(v, d[i]) \in Seq(Frame)
  BY <1>2 DEF QueueHead
<1>5. PICK g : FoldOf(g, D, Seq(Frame), q, pick, step)
  <2>1. Foldable(D, Seq(Frame), q, pick, step)
    <3>1. IsFiniteSet(D)
      BY <1>2, FS_Interval
    <3> QED
      BY <1>3, <1>4, <3>1 DEF Foldable
  <2> HIDE DEF D, pick, step
  <2> QED
    BY <2>1, FoldExists
<1>6. g = [s \in SUBSET D |-> IF s = {} THEN q ELSE QueueHead(g[s \ {Max(s)}], d[Max(s)])]
  <2>1. \A s \in SUBSET D : s # {} => g[s] = QueueHead(g[s \ {Max(s)}], d[Max(s)])
    <3>1. ASSUME NEW s \in SUBSET D, s # {}
          PROVE  g[s] = QueueHead(g[s \ {Max(s)}], d[Max(s)])
      <4>1. g[s] = step[pick[s]][g[s \ {pick[s]}]]
        BY <1>5, <3>1 DEF FoldOf
      <4>2. pick[s] = Max(s) /\ Max(s) \in D
        BY <1>3, <3>1
      <4>3. s \ {Max(s)} \in SUBSET D /\ g[s \ {Max(s)}] \in Seq(Frame)
        BY <1>5 DEF FoldOf
      <4>4. step[Max(s)][g[s \ {Max(s)}]] = QueueHead(g[s \ {Max(s)}], d[Max(s)])
        BY <4>2, <4>3
      <4> QED
        BY <4>1, <4>2, <4>4
    <3> QED
      BY <3>1
  <2> HIDE DEF pick, step, D
  <2> QED
    BY <1>5, <2>1 DEF FoldOf
<1>7. G = [s \in SUBSET D |-> IF s = {} THEN q ELSE QueueHead(G[s \ {Max(s)}], d[Max(s)])]
  BY <1>6, Zenon
<1> HIDE DEF G
<1> DEFINE Good == {n \in Nat : n <= Len(d) => PutBack(G[1 .. n], q, d, n)}
<1>8. 0 \in Good
  <2>1. G[1 .. 0] = q
    BY <1>7
  <2>2. PutBefore(q, q, d, 0)
    BY DEF PutBefore
  <2>3. PutBack(q, q, d, 0)
    BY <2>2 DEF PutBack
  <2> QED
    BY <2>1, <2>3
<1>9. ASSUME NEW n \in Good PROVE n + 1 \in Good
  <2>1. ASSUME n + 1 <= Len(d) PROVE PutBack(G[1 .. n + 1], q, d, n + 1)
    <3>1. n \in Nat /\ n < Len(d) /\ PutBack(G[1 .. n], q, d, n)
      BY <1>2, <2>1
    <3>2. 1 .. n + 1 \in SUBSET D /\ 1 .. n + 1 # {} /\ n + 1 \in 1 .. n + 1
      <4>1. n + 1 \in 1 .. n + 1
        BY <3>1
      <4>2. \A i \in 1 .. n + 1 : i \in 1 .. Len(d)
        BY <1>2, <3>1
      <4> HIDE DEF D
      <4> QED
        BY <1>2, <4>1, <4>2
    <3>3. Max(1 .. n + 1) = n + 1
      <4>1. Max(1 .. n + 1) \in 1 .. n + 1 /\ Max(1 .. n + 1) >= n + 1
        BY <1>3, <3>2
      <4> QED
        BY <3>1, <4>1
    <3>4. (1 .. n + 1) \ {n + 1} = 1 .. n
      BY <3>1
    <3>5. G[1 .. n + 1] = QueueHead(G[1 .. n], d[n + 1])
      BY <1>7, <3>2, <3>3, <3>4
    <3> QED
      BY <3>1, <3>5, PutBackOne
  <2>2. n + 1 \in Nat
    OBVIOUS
  <2> QED
    BY <2>1, <2>2
<1>10. Good = Nat
  <2> HIDE DEF Good
  <2>1. Good \subseteq Nat
    BY DEF Good
  <2> QED
    BY <1>8, <1>9, <2>1, Induction
<1>11. PutBack(G[1 .. Len(d)], q, d, Len(d))
  BY <1>2, <1>10
<1> QED
  BY <1>1, <1>2, <1>11

-----------------------------------------------------------------------------
(* Where the frames are *)

FrameType ==
  /\ apc \in {"none", "lock", "asleep", "awake", "wait", "read", "defer"}
  /\ achan \in Chans \cup {NoChan}
  /\ hand \in Frame
  /\ deferred \in [Ent -> Seq(Frame)]
  /\ readq \in [Chans -> Seq(Frame)]
  /\ softhangup \in [Chans -> BOOLEAN]
  /\ nframe \in 0 .. MaxFrame
  /\ sent \in [Chans -> SUBSET (1 .. nframe)]

(* The channel the thread reads is in its array, and still has a frame to  *)
(* read; only an entry that is in the list, or whose remover has not yet   *)
(* taken it apart, has deferred frames.                                    *)
FramePlace ==
  /\ apc \in {"read", "defer"} => achan \in Chans /\ Listed(ents, achan) # {}
  /\ apc = "read" => readq[achan] # <<>>
  /\ \A e \in Ent : deferred[e] # <<>> =>
        \/ e \in aslist
        \/ \E t \in Callers : cpc[t] \in Stopping /\ cent[t] = e

(* A frame that is kept for channel c is a frame of no other channel, and  *)
(* one to be saved if it was queued as such.                               *)
Owned(f, c) ==
  f.id <= nframe /\ \A d \in Chans : f.id \in sent[d] => d = c /\ f.kind = "save"

FrameOwned ==
  /\ \A c \in Chans : \A k \in 1 .. Len(readq[c]) : Owned(readq[c][k], c)
  /\ \A e \in Ent : \A k \in 1 .. Len(deferred[e]) : Owned(deferred[e][k], echan[e])
  /\ apc = "defer" => Owned(hand, achan)

FrameInv == FrameType /\ FramePlace /\ FrameOwned

LEMMA FrameInvInit == Init => FrameInv
<1> SUFFICES ASSUME Init PROVE FrameInv
  OBVIOUS
<1>1. Hangup \in Frame
  BY ASConstants DEF Hangup, Frame, Kinds
<1>2. FrameType
  BY <1>1, ASConstants DEF Init, FrameType
<1>3. FramePlace /\ FrameOwned
  BY DEF Init, FramePlace, FrameOwned
<1> QED
  BY <1>2, <1>3 DEF FrameInv

(* A channel in the thread's array is a channel. *)
LEMMA ReachedChan ==
  ASSUME EntryInv, UseInv, NEW e \in ents
  PROVE  echan[e] \in Chans
<1>1. CASE e \in aslist
  BY <1>1 DEF UseInv, UsePlace
<1>2. CASE e \notin aslist
  <2>1. PICK t \in Callers : cpc[t] = "waiting" /\ cent[t] = e
    BY <1>2 DEF EntryInv, ReachedIsSafe
  <2> QED
    BY <2>1 DEF UseInv, UsePlace, Stopping
<1> QED
  BY <1>1, <1>2

(* Steps of the callers that move no frame *)
Unmoved ==
  UNCHANGED <<echan, ents, apc, achan, hand, deferred, readq, softhangup, nframe, sent>>

(* A step that leaves the frames where they are *)
LEMMA FrameFrame ==
  ASSUME FrameInv, Unmoved,
         \A e \in Ent : \/ e \in aslist
                        \/ \E t \in Callers : cpc[t] \in Stopping /\ cent[t] = e
           => \/ e \in aslist'
              \/ \E t \in Callers : cpc'[t] \in Stopping /\ cent'[t] = e
  PROVE  FrameInv'
<1> USE DEF Unmoved
<1>1. FrameType'
  BY DEF FrameInv, FrameType
<1>2. FramePlace'
  <2>1. Listed(ents, achan)' = Listed(ents, achan)
    BY DEF Listed
  <2> QED
    BY <2>1 DEF FrameInv, FramePlace
<1>3. FrameOwned'
  BY DEF FrameInv, FrameOwned, Owned
<1> QED
  BY <1>1, <1>2, <1>3 DEF FrameInv

(* Callers that neither insert nor remove an entry *)
LEMMA QuietFrameInv ==
  ASSUME FrameInv, EntryInv, NEW t \in Callers,
         \/ StartExisting(t) \/ StartNew(t) \/ StartFlag(t) \/ StartFails(t)
         \/ StopNested(t) \/ StopPoll(t)
  PROVE  Unmoved /\ FrameInv'
<1>1. /\ Unmoved /\ aslist' = aslist
      /\ \E pc \in {"idle", "flag", "insert", "restore"} :
           \/ UNCHANGED <<cpc, cent>>
           \/ /\ cpc' = [cpc EXCEPT ![t] = pc] /\ cent' = cent
              /\ cpc[t] \in Stopping => pc = "restore"
  BY DEF StartExisting, StartNew, StartFlag, StartFails, StopNested, StopPoll, CallerAt,
     listVars, threadVars, chanVars, Unmoved, Stopping
<1>2. \A u \in Callers : cpc[u] \in Stopping => cpc'[u] \in Stopping /\ cent'[u] = cent[u]
  BY <1>1 DEF EntryInv, EntType, Stopping
<1> QED
  BY <1>1, <1>2, FrameFrame

(* The deferred frames of a removed entry wait for its remover. *)
LEMMA RemoveFrameInv ==
  ASSUME FrameInv, EntryInv, NEW t \in Callers, StopRemove(t)
  PROVE  Unmoved /\ FrameInv'
<1>1. PICK c \in Chans :
        /\ cpc[t] = "idle" /\ Unmoved
        /\ aslist' = aslist \ {First(aslist, c)}
        /\ cent' = [cent EXCEPT ![t] = First(aslist, c)]
        /\ cpc' = [cpc EXCEPT ![t] = "waiting"]
  BY DEF StopRemove, CallerAt, threadVars, chanVars, Unmoved
<1>2. /\ cpc'[t] = "waiting" /\ cent'[t] = First(aslist, c)
      /\ \A u \in Callers \ {t} : cpc'[u] = cpc[u] /\ cent'[u] = cent[u]
  BY <1>1 DEF EntryInv, EntType
<1>3. \A e \in Ent : \/ e \in aslist
                     \/ \E u \in Callers : cpc[u] \in Stopping /\ cent[u] = e
           => \/ e \in aslist'
              \/ \E u \in Callers : cpc'[u] \in Stopping /\ cent'[u] = e
  <2>1. ASSUME NEW e \in aslist
        PROVE  e \in aslist' \/ \E u \in Callers : cpc'[u] \in Stopping /\ cent'[u] = e
    BY <1>1, <1>2 DEF Stopping
  <2>2. ASSUME NEW u \in Callers, cpc[u] \in Stopping
        PROVE  cpc'[u] \in Stopping /\ cent'[u] = cent[u]
    BY <1>1, <1>2, <2>2 DEF Stopping
  <2> QED
    BY <2>1, <2>2
<1> QED
  BY <1>1, <1>3, FrameFrame

(* The number of a new entry has no deferred frames. *)
LEMMA InsertFrameInv ==
  ASSUME FrameInv, EntryInv, NEW t \in Callers, StartInsert(t)
  PROVE  /\ FrameInv'
         /\ UNCHANGED <<ents, achan, hand, deferred, readq, softhangup, nframe, sent>>
         /\ apc' = "defer" <=> apc = "defer"
         /\ \A e \in Ent : deferred[e] # <<>> => echan'[e] = echan[e]
<1>1. PICK e : e = nent + 1
  OBVIOUS
<1>2. /\ nent < MaxEnt /\ aslist' = aslist \cup {e}
      /\ echan' = [echan EXCEPT ![e] = cchan[t]]
      /\ cpc[t] = "insert" /\ cpc' = [cpc EXCEPT ![t] = "idle"]
      /\ UNCHANGED <<ents, achan, hand, deferred, readq, softhangup, nframe, sent, cent>>
  BY <1>1 DEF StartInsert, Insert, CallerAt, chanVars
<1>3. /\ apc' \in {"none", "lock", "asleep", "awake", "wait", "read", "defer"}
      /\ apc' = "read" <=> apc = "read"
      /\ apc' = "defer" <=> apc = "defer"
  <2>1. apc' = CASE apc = "none" -> "lock"
                 [] apc = "asleep" /\ aslist = {} -> "awake"
                 [] OTHER -> apc
    BY DEF StartInsert, Wake
  <2> QED
    BY <2>1 DEF FrameInv, FrameType
<1>4. /\ e \notin aslist /\ e \in Ent
      /\ \A u \in Callers : cpc[u] \in Stopping => cent[u] # e
      /\ e \notin ents
  <2>1. /\ e \notin aslist /\ e \in Ent
        /\ \A u \in Callers : cpc[u] \in Stopping => cent[u] # e
    BY <1>1, <1>2, ASConstants DEF EntryInv, EntType, EntryPlace, Ent
  <2> QED
    BY <2>1 DEF EntryInv, ReachedIsSafe, Stopping
<1>5. deferred[e] = <<>>
  BY <1>4 DEF FrameInv, FramePlace
<1>6. \A d \in Ent \ {e} : echan'[d] = echan[d]
  BY <1>2
<1>7. FrameType'
  BY <1>2, <1>3 DEF FrameInv, FrameType
<1>8. FramePlace'
  <2>1. Listed(ents, achan)' = Listed(ents, achan)
    BY <1>2, <1>4, <1>6 DEF Listed, EntryInv, EntType
  <2>2. \A u \in Callers : cpc[u] \in Stopping => cpc'[u] = cpc[u]
    BY <1>2 DEF EntryInv, EntType, Stopping
  <2> QED
    BY <1>2, <1>3, <2>1, <2>2 DEF FrameInv, FramePlace
<1>9. FrameOwned'
  <2>1. \A f, c : Owned(f, c)' <=> Owned(f, c)
    BY <1>2 DEF Owned
  <2>2. \A d \in Ent : \A k \in 1 .. Len(deferred[d]) : Owned(deferred[d][k], echan'[d])
    BY <1>5, <1>6 DEF FrameInv, FrameOwned
  <2> QED
    BY <1>2, <1>3, <2>1, <2>2 DEF FrameInv, FrameOwned, Owned
<1> QED
  BY <1>2, <1>3, <1>5, <1>6, <1>7, <1>8, <1>9 DEF FrameInv

(* Every frame of the new queue r was in the old one, q, or was deferred,  *)
(* in d, and all of them are there unless the queue ends in a hangup.      *)
MadeOf(r, q, d) ==
  /\ r \in Seq(Frame)
  /\ q # <<>> => r # <<>>
  /\ \A k \in 1 .. Len(r) : \/ \E j \in 1 .. Len(q) : r[k] = q[j]
                            \/ \E j \in 1 .. Len(d) : r[k] = d[j]
  /\ HangupLast(q) => HangupLast(r)
  /\ \/ HangupLast(r)
     \/ /\ \A j \in 1 .. Len(q) : \E k \in 1 .. Len(r) : r[k] = q[j]
        /\ \A j \in 1 .. Len(d) : \E k \in 1 .. Len(r) : r[k] = d[j]

(* A queue that frames were given back to is made of its own and these. *)
LEMMA RequeueFrames ==
  ASSUME NEW q \in Seq(Frame), NEW d \in Seq(Frame), NEW r, r = Requeue(q, d)
  PROVE  MadeOf(r, q, d)
<1> USE DEF MadeOf
<1>1. PutBack(r, q, d, Len(d))
  BY Requeued
<1>2. CASE HangupLast(q)
  BY <1>1, <1>2 DEF PutBack
<1>3. CASE ~HangupLast(q) /\ q = <<>> /\ Len(d) > 0 /\ d[1].kind = "hangup"
  <2>1. r = <<d[1]>> /\ d[1] \in Frame
    BY <1>1, <1>3 DEF PutBack
  <2>2. r \in Seq(Frame) /\ Len(r) = 1 /\ r[1] = d[1] /\ r # <<>>
    BY <2>1
  <2>3. HangupLast(r)
    BY <1>3, <2>2 DEF HangupLast
  <2>4. \A k \in 1 .. Len(r) : r[k] = d[1] /\ 1 \in 1 .. Len(d)
    BY <1>3, <2>2
  <2> QED
    BY <1>3, <2>2, <2>3, <2>4
<1>4. CASE ~HangupLast(q) /\ ~(q = <<>> /\ Len(d) > 0 /\ d[1].kind = "hangup")
  <2>1. PutBefore(r, q, d, Len(d))
    BY <1>1, <1>4 DEF PutBack
  <2>2. /\ r \in Seq(Frame) /\ Len(r) = Len(d) + Len(q) /\ Len(d) \in Nat /\ Len(q) \in Nat
        /\ \A k \in 1 .. Len(d) : r[k] = d[Len(d) - k + 1]
        /\ \A k \in 1 .. Len(q) : r[Len(d) + k] = q[k]
    BY <2>1 DEF PutBefore
  <2>3. q # <<>> => r # <<>>
    BY <2>2
  <2>4. ASSUME NEW k \in 1 .. Len(r)
        PROVE  \/ \E j \in 1 .. Len(q) : r[k] = q[j]
               \/ \E j \in 1 .. Len(d) : r[k] = d[j]
    <3>1. CASE k <= Len(d)
      <4>1. k \in 1 .. Len(d) /\ Len(d) - k + 1 \in 1 .. Len(d)
        BY <2>2, <3>1
      <4> QED
        BY <2>2, <4>1
    <3>2. CASE ~(k <= Len(d))
      <4>1. k - Len(d) \in 1 .. Len(q) /\ Len(d) + (k - Len(d)) = k
        BY <2>2, <3>2
      <4> QED
        BY <2>2, <4>1
    <3> QED
      BY <3>1, <3>2
  <2>5. ASSUME NEW j \in 1 .. Len(q) PROVE \E k \in 1 .. Len(r) : r[k] = q[j]
    <3>1. Len(d) + j \in 1 .. Len(r)
      BY <2>2
    <3> QED
      BY <2>2, <3>1
  <2>6. ASSUME NEW j \in 1 .. Len(d) PROVE \E k \in 1 .. Len(r) : r[k] = d[j]
    <3>1. /\ Len(d) - j + 1 \in 1 .. Len(d) /\ Len(d) - j + 1 \in 1 .. Len(r)
          /\ Len(d) - (Len(d) - j + 1) + 1 = j
      BY <2>2
    <3> QED
      BY <2>2, <3>1
  <2> QED
    BY <1>4, <2>2, <2>3, <2>4, <2>5, <2>6
<1> QED
  BY <1>2, <1>3, <1>4

(* What tris_autoservice_stop does to the queues *)
LEMMA RestoreStep ==
  ASSUME FrameInv, EntryInv, UseInv, NEW t \in Callers, StopRestore(t)
  PROVE  \E c \in Chans, e \in Ent :
           /\ cpc[t] = "restore" /\ c = cchan[t] /\ e = cent[t] /\ echan[e] = c
           /\ readq' = [readq EXCEPT ![c] = Requeue(readq[c], deferred[e])]
           /\ deferred' = [deferred EXCEPT ![e] = <<>>]
           /\ cent' = [cent EXCEPT ![t] = NoEnt]
           /\ cpc' = [cpc EXCEPT ![t] = "idle"]
           /\ UNCHANGED <<aslist, echan, ents, apc, achan, hand, softhangup, nframe, sent>>
<1>1. cpc[t] = "restore" /\ cchan[t] \in Chans /\ cent[t] \in Ent /\ echan[cent[t]] = cchan[t]
  BY DEF StopRestore, UseInv, UsePlace, EntryInv, EntryPlace, Stopping
<1> QED
  BY <1>1 DEF StopRestore, CallerAt, threadVars

(* The deferred frames are given back to their own channel. *)
LEMMA RestoreFrameInv ==
  ASSUME FrameInv, EntryInv, UseInv, NEW t \in Callers, StopRestore(t)
  PROVE  FrameInv'
<1>1. PICK c \in Chans, e \in Ent :
        /\ cpc[t] = "restore" /\ c = cchan[t] /\ e = cent[t] /\ echan[e] = c
        /\ readq' = [readq EXCEPT ![c] = Requeue(readq[c], deferred[e])]
        /\ deferred' = [deferred EXCEPT ![e] = <<>>]
        /\ cent' = [cent EXCEPT ![t] = NoEnt]
        /\ cpc' = [cpc EXCEPT ![t] = "idle"]
        /\ UNCHANGED <<aslist, echan, ents, apc, achan, hand, softhangup, nframe, sent>>
  BY RestoreStep
<1>2. PICK q, d, r : q = readq[c] /\ d = deferred[e] /\ r = Requeue(q, d)
  OBVIOUS
<1>3. q \in Seq(Frame) /\ d \in Seq(Frame) /\ readq' = [readq EXCEPT ![c] = r]
  BY <1>1, <1>2 DEF FrameInv, FrameType
<1>4. /\ r \in Seq(Frame)
      /\ readq[c] # <<>> => r # <<>>
      /\ \A k \in 1 .. Len(r) : \/ \E j \in 1 .. Len(readq[c]) : r[k] = readq[c][j]
                                \/ \E j \in 1 .. Len(deferred[e]) : r[k] = deferred[e][j]
  <2>1. /\ r \in Seq(Frame)
        /\ q # <<>> => r # <<>>
        /\ \A k \in 1 .. Len(r) : \/ \E j \in 1 .. Len(q) : r[k] = q[j]
                                  \/ \E j \in 1 .. Len(d) : r[k] = d[j]
    <3>1. MadeOf(r, q, d)
      BY <1>2, <1>3, RequeueFrames
    <3> QED
      BY <3>1 DEF MadeOf
  <2> QED
    BY <1>2, <2>1
<1>5. /\ readq' = [readq EXCEPT ![c] = r] /\ readq' \in [Chans -> Seq(Frame)]
      /\ readq'[c] = r /\ \A x \in Chans \ {c} : readq'[x] = readq[x]
  BY <1>3, <1>4 DEF FrameInv, FrameType
<1>6. /\ deferred' \in [Ent -> Seq(Frame)] /\ deferred'[e] = <<>>
      /\ \A x \in Ent \ {e} : deferred'[x] = deferred[x]
  BY <1>1 DEF FrameInv, FrameType
<1>7. FrameType'
  BY <1>1, <1>5, <1>6 DEF FrameInv, FrameType
<1>8. FramePlace'
  <2>1. Listed(ents, achan)' = Listed(ents, achan)
    BY <1>1 DEF Listed
  <2>2. apc' = "read" => readq'[achan'] # <<>>
    BY <1>1, <1>4, <1>5 DEF FrameInv, FramePlace
  <2>3. ASSUME NEW x \in Ent, deferred'[x] # <<>>
        PROVE  x \in aslist' \/ \E u \in Callers : cpc'[u] \in Stopping /\ cent'[u] = x
    <3>1. x # e /\ deferred[x] # <<>>
      BY <1>6, <2>3
    <3>2. x \in aslist \/ \E u \in Callers : cpc[u] \in Stopping /\ cent[u] = x
      BY <3>1 DEF FrameInv, FramePlace
    <3>3. \A u \in Callers \ {t} : cpc'[u] = cpc[u] /\ cent'[u] = cent[u]
      BY <1>1 DEF EntryInv, EntType
    <3> QED
      BY <1>1, <3>1, <3>2, <3>3
  <2> QED
    BY <1>1, <2>1, <2>2, <2>3 DEF FrameInv, FramePlace
<1>9. FrameOwned'
  <2>1. \A f, x : Owned(f, x)' <=> Owned(f, x)
    BY <1>1 DEF Owned
  <2>2. \A k \in 1 .. Len(r) : Owned(r[k], c)
    BY <1>1, <1>4 DEF FrameInv, FrameOwned
  <2>3. \A x \in Chans : \A k \in 1 .. Len(readq'[x]) : Owned(readq'[x][k], x)
    BY <1>5, <2>2 DEF FrameInv, FrameOwned
  <2>4. \A x \in Ent : \A k \in 1 .. Len(deferred'[x]) : Owned(deferred'[x][k], echan[x])
    BY <1>6 DEF FrameInv, FrameOwned
  <2>5. apc = "defer" => Owned(hand, achan)
    BY DEF FrameInv, FrameOwned
  <2> QED
    BY <1>1, <2>3, <2>4, <2>5 DEF FrameOwned, Owned
<1> QED
  BY <1>7, <1>8, <1>9 DEF FrameInv

(* The thread takes the head of a read queue into its hand, and puts what  *)
(* it has in its hand before the deferred frames of an entry.              *)
LEMMA ReadStep ==
  ASSUME FrameInv, ThreadRead
  PROVE  /\ achan \in Chans /\ apc = "read"
         /\ UNCHANGED <<aslist, echan, ents, achan, deferred, nframe, sent, cpc, cchan, cent>>
         /\ apc' \in {"lock", "defer"} /\ hand' \in Frame
         /\ \/ softhangup[achan] /\ hand' = Hangup /\ UNCHANGED <<readq, softhangup>>
            \/ /\ readq[achan] \in Seq(Frame) /\ readq[achan] # <<>>
               /\ readq' = [readq EXCEPT ![achan] = Tail(readq[achan])]
               /\ softhangup' = [softhangup EXCEPT ![achan] = Head(readq[achan]).kind = "hangup"]
               /\ ~softhangup[achan]
               /\ \/ hand' = Hangup /\ Head(readq[achan]).kind # "save"
                  \/ hand' = Head(readq[achan]) /\ apc' = "defer"
<1>1. /\ apc = "read" /\ achan \in Chans /\ readq[achan] # <<>>
      /\ readq[achan] \in Seq(Frame)
  BY DEF ThreadRead, FrameInv, FramePlace, FrameType
<1>2. UNCHANGED <<aslist, echan, ents, achan, deferred, nframe, sent, cpc, cchan, cent>>
  BY DEF ThreadRead, ThreadUnchanged, callerVars
<1>3. Hangup \in Frame
  BY ASConstants DEF Hangup, Frame, Kinds
<1>4. CASE softhangup[achan]
  BY <1>1, <1>2, <1>3, <1>4 DEF ThreadRead
<1>5. CASE ~softhangup[achan]
  <2>1. PICK f : f = Head(readq[achan])
    OBVIOUS
  <2>2. f \in Frame
    BY <1>1, <2>1
  <2>3. /\ readq' = [readq EXCEPT ![achan] = Tail(@)]
        /\ softhangup' = [softhangup EXCEPT ![achan] = f.kind = "hangup"]
        /\ hand' = IF f.kind = "save" THEN f ELSE Hangup
        /\ apc' = IF f.kind = "drop" THEN "lock" ELSE "defer"
    BY <1>5, <2>1 DEF ThreadRead
  <2>4. apc' \in {"lock", "defer"} /\ hand' \in Frame
    BY <1>3, <2>2, <2>3
  <2>5. (hand' = Hangup /\ f.kind # "save") \/ (hand' = f /\ apc' = "defer")
    BY <2>3
  <2> QED
    BY <1>1, <1>2, <1>5, <2>1, <2>3, <2>4, <2>5
<1> QED
  BY <1>4, <1>5

(* What is read was owned by the channel that is read. *)
LEMMA ReadFrameInv ==
  ASSUME FrameInv, ThreadRead
  PROVE  FrameInv'
<1>1. PICK c \in Chans : c = achan
  BY ReadStep
<1>2. /\ UNCHANGED <<aslist, echan, ents, achan, deferred, nframe, sent, cpc, cent>>
      /\ apc = "read" /\ apc' \in {"lock", "defer"} /\ hand' \in Frame
  BY ReadStep
<1>3. /\ readq' \in [Chans -> Seq(Frame)] /\ softhangup' \in [Chans -> BOOLEAN]
      /\ \A x \in Chans : \A k \in 1 .. Len(readq'[x]) :
           \E j \in 1 .. Len(readq[x]) : readq'[x][k] = readq[x][j]
      /\ hand' = Hangup \/ \E j \in 1 .. Len(readq[c]) : hand' = readq[c][j]
  <2>1. CASE UNCHANGED <<readq, softhangup>> /\ hand' = Hangup
    BY <2>1 DEF FrameInv, FrameType
  <2>2. CASE /\ readq[c] \in Seq(Frame) /\ readq[c] # <<>>
             /\ readq' = [readq EXCEPT ![c] = Tail(readq[c])]
             /\ softhangup' = [softhangup EXCEPT ![c] = Head(readq[c]).kind = "hangup"]
             /\ hand' = Hangup \/ hand' = Head(readq[c])
    <3>1. /\ Tail(readq[c]) \in Seq(Frame)
          /\ \A k \in 1 .. Len(Tail(readq[c])) :
               k + 1 \in 1 .. Len(readq[c]) /\ Tail(readq[c])[k] = readq[c][k + 1]
          /\ 1 \in 1 .. Len(readq[c]) /\ Head(readq[c]) = readq[c][1]
      BY <2>2
    <3>2. readq'[c] = Tail(readq[c]) /\ \A x \in Chans \ {c} : readq'[x] = readq[x]
      BY <2>2 DEF FrameInv, FrameType
    <3>3. readq' \in [Chans -> Seq(Frame)]
      BY <2>2, <3>1 DEF FrameInv, FrameType
    <3>4. softhangup' \in [Chans -> BOOLEAN]
      BY <2>2 DEF FrameInv, FrameType
    <3> QED
      BY <2>2, <3>1, <3>2, <3>3, <3>4
  <2> QED
    BY <1>1, <2>1, <2>2, ReadStep
<1>4. FrameType'
  BY <1>2, <1>3 DEF FrameInv, FrameType
<1>5. FramePlace'
  <2>1. Listed(ents, achan)' = Listed(ents, achan)
    BY <1>2 DEF Listed
  <2> QED
    BY <1>2, <2>1 DEF FrameInv, FramePlace
<1>6. FrameOwned'
  <2>1. \A f, x : Owned(f, x)' <=> Owned(f, x)
    BY <1>2 DEF Owned
  <2>2. \A x \in Chans : \A k \in 1 .. Len(readq'[x]) : Owned(readq'[x][k], x)
    BY <1>3 DEF FrameInv, FrameOwned
  <2>3. \A e \in Ent : \A k \in 1 .. Len(deferred'[e]) : Owned(deferred'[e][k], echan[e])
    BY <1>2 DEF FrameInv, FrameOwned
  <2>4. Owned(Hangup, c)
    BY DEF Hangup, Owned, FrameInv, FrameType
  <2>5. Owned(hand', achan)
    BY <1>1, <1>3, <2>4 DEF FrameInv, FrameOwned
  <2> QED
    BY <1>2, <2>2, <2>3, <2>5 DEF FrameOwned, Owned
<1> QED
  BY <1>4, <1>5, <1>6 DEF FrameInv

(* The frame in the hand goes to an entry of its channel, or nowhere. *)
LEMMA DeferStep ==
  ASSUME FrameInv, EntryInv, ThreadDefer
  PROVE  \E e \in Ent :
           /\ e \in ents /\ echan[e] = achan /\ achan \in Chans /\ apc = "defer"
           /\ UNCHANGED <<aslist, echan, ents, achan, hand, readq, softhangup, nframe, sent,
                          cpc, cchan, cent>>
           /\ apc' = "lock"
           /\ \/ deferred' = [deferred EXCEPT ![e] = <<hand>> \o deferred[e]]
              \/ MayFail /\ UNCHANGED deferred
<1>1. /\ apc = "defer" /\ achan \in Chans /\ Listed(ents, achan) # {}
  BY DEF ThreadDefer, FrameInv, FramePlace
<1>2. PICK e : e = First(ents, achan)
  OBVIOUS
<1>3. e \in Ent /\ e \in ents /\ echan[e] = achan
  BY <1>1, <1>2, FirstListed DEF EntryInv, EntType
<1>4. /\ UNCHANGED <<aslist, echan, ents, achan, hand, readq, softhangup, nframe, sent,
                     cpc, cchan, cent>>
      /\ apc' = "lock"
  BY DEF ThreadDefer, ThreadUnchanged, callerVars
<1>5. \/ deferred' = [deferred EXCEPT ![e] = <<hand>> \o deferred[e]]
      \/ MayFail /\ UNCHANGED deferred
  BY <1>2 DEF ThreadDefer, DeferFrame
<1> QED
  BY <1>1, <1>3, <1>4, <1>5

(* It is deferred for its own channel. *)
LEMMA DeferFrameInv ==
  ASSUME FrameInv, EntryInv, ThreadDefer
  PROVE  FrameInv'
<1>1. PICK e \in Ent :
        /\ e \in ents /\ echan[e] = achan /\ achan \in Chans /\ apc = "defer"
        /\ UNCHANGED <<aslist, echan, ents, achan, hand, readq, softhangup, nframe, sent,
                       cpc, cchan, cent>>
        /\ apc' = "lock"
        /\ \/ deferred' = [deferred EXCEPT ![e] = <<hand>> \o deferred[e]]
           \/ MayFail /\ UNCHANGED deferred
  BY DeferStep
<1>2. CASE UNCHANGED deferred
  <2>1. FrameType' /\ FramePlace'
    BY <1>1, <1>2 DEF FrameInv, FrameType, FramePlace
  <2>2. FrameOwned'
    BY <1>1, <1>2 DEF FrameInv, FrameOwned, Owned
  <2> QED
    BY <2>1, <2>2 DEF FrameInv
<1>3. CASE deferred' = [deferred EXCEPT ![e] = <<hand>> \o deferred[e]]
  <2>1. PICK d : d = <<hand>> \o deferred[e]
    OBVIOUS
  <2>2. hand \in Frame /\ deferred[e] \in Seq(Frame)
    BY DEF FrameInv, FrameType
  <2>3. /\ d \in Seq(Frame)
        /\ \A k \in 1 .. Len(d) : d[k] = hand \/ \E j \in 1 .. Len(deferred[e]) : d[k] = deferred[e][j]
    <3>1. d \in Seq(Frame) /\ Len(d) = 1 + Len(deferred[e]) /\ d[1] = hand
          /\ \A j \in 1 .. Len(deferred[e]) : d[j + 1] = deferred[e][j]
      BY <2>1, <2>2
    <3>2. ASSUME NEW k \in 1 .. Len(d), k # 1
          PROVE  \E j \in 1 .. Len(deferred[e]) : d[k] = deferred[e][j]
      <4>1. k - 1 \in 1 .. Len(deferred[e]) /\ (k - 1) + 1 = k
        BY <2>2, <3>1, <3>2
      <4> QED
        BY <3>1, <4>1
    <3> QED
      BY <3>1, <3>2
  <2>4. /\ deferred' \in [Ent -> Seq(Frame)] /\ deferred'[e] = d
        /\ \A x \in Ent \ {e} : deferred'[x] = deferred[x]
    BY <1>3, <2>1, <2>3 DEF FrameInv, FrameType
  <2>5. FrameType'
    BY <1>1, <2>4 DEF FrameInv, FrameType
  <2>6. FramePlace'
    <3>1. e \in aslist \/ \E t \in Callers : cpc[t] \in Stopping /\ cent[t] = e
      BY <1>1 DEF EntryInv, ReachedIsSafe, Stopping
    <3> QED
      BY <1>1, <2>4, <3>1 DEF FrameInv, FramePlace
  <2>7. FrameOwned'
    <3>1. \A f, x : Owned(f, x)' <=> Owned(f, x)
      BY <1>1 DEF Owned
    <3>2. \A k \in 1 .. Len(d) : Owned(d[k], echan[e])
      BY <1>1, <2>3 DEF FrameInv, FrameOwned
    <3>3. \A x \in Ent : \A k \in 1 .. Len(deferred'[x]) : Owned(deferred'[x][k], echan[x])
      BY <2>4, <3>2 DEF FrameInv, FrameOwned
    <3>4. \A c \in Chans : \A k \in 1 .. Len(readq[c]) : Owned(readq[c][k], c)
      BY DEF FrameInv, FrameOwned
    <3> QED
      BY <1>1, <3>3, <3>4 DEF FrameOwned, Owned
  <2> QED
    BY <2>5, <2>6, <2>7 DEF FrameInv
<1> QED
  BY <1>1, <1>2, <1>3

(* The thread begins a turn, sleeps, or waits for a channel. *)
LEMMA TurnFrameInv ==
  ASSUME FrameInv, EntryInv, UseInv, ThreadLock \/ ThreadAwake \/ ThreadWait
  PROVE  /\ UNCHANGED <<echan, deferred, readq, softhangup, nframe, sent>>
         /\ apc # "defer" /\ apc' # "defer" /\ FrameInv'
<1>1. /\ apc # "defer" /\ UNCHANGED <<aslist, echan, deferred, readq, softhangup, nframe, sent, cpc, cent>>
      /\ apc' \in {"lock", "asleep", "wait", "read"}
      /\ apc' = "read" => ents' = ents /\ \E e \in ents : achan' = echan[e] /\ readq[achan'] # <<>>
      /\ achan' = achan \/ achan' = NoChan \/ \E e \in ents : achan' = echan[e]
      /\ hand' = hand \/ hand' = Hangup
  BY DEF ThreadLock, ThreadAwake, ThreadWait, Rebuild, ThreadUnchanged, callerVars
<1>2. Hangup \in Frame
  BY ASConstants DEF Hangup, Frame, Kinds
<1>3. \A e \in ents : echan[e] \in Chans
  BY ReachedChan
<1>4. FrameType'
  BY <1>1, <1>2, <1>3 DEF FrameInv, FrameType
<1>5. FramePlace'
  <2>1. apc' = "read" => achan' \in Chans /\ Listed(ents, achan)' # {} /\ readq'[achan'] # <<>>
    BY <1>1, <1>3 DEF Listed
  <2> QED
    BY <1>1, <2>1 DEF FrameInv, FramePlace
<1>6. FrameOwned'
  BY <1>1 DEF FrameInv, FrameOwned, Owned
<1> QED
  BY <1>1, <1>4, <1>5, <1>6 DEF FrameInv

(* A driver queues a frame, or hangs up. *)
LEMMA ChannelSteps ==
  ASSUME FrameInv, NEW c \in Chans, ChannelStep(c)
  PROVE  \E f \in Frame :
           /\ f.id = nframe + 1 /\ nframe' = nframe + 1 /\ nframe' \in 0 .. MaxFrame
           /\ ChannelUnchanged
           /\ readq' = [readq EXCEPT ![c] = QueueTail(readq[c], f)]
           /\ \/ f.kind = "save" /\ sent' = [sent EXCEPT ![c] = @ \cup {nframe + 1}]
                 /\ ~HangupLast(readq[c])
              \/ f.kind # "save" /\ sent' = sent
           /\ softhangup' \in [Chans -> BOOLEAN]
           /\ \A d \in Chans : softhangup[d] => softhangup'[d]
<1>1. nframe \in 0 .. MaxFrame /\ softhangup \in [Chans -> BOOLEAN] /\ sent \in [Chans -> SUBSET (1 .. nframe)]
  BY DEF FrameInv, FrameType
<1>2. ASSUME NEW kind \in Kinds, nframe < MaxFrame
      PROVE  /\ [id |-> nframe + 1, kind |-> kind] \in Frame
             /\ nframe + 1 \in 0 .. MaxFrame
  BY <1>1, <1>2, ASConstants DEF Frame
<1>3. "save" \in Kinds /\ "drop" \in Kinds /\ "hangup" \in Kinds
  BY DEF Kinds
<1>4. CASE DriverQueue(c, "save")
  <2>1. /\ nframe < MaxFrame /\ ~HangupLast(readq[c]) /\ nframe' = nframe + 1
        /\ readq' = [readq EXCEPT ![c] =
                       QueueTail(readq[c], [id |-> nframe + 1, kind |-> "save"])]
        /\ sent' = [sent EXCEPT ![c] = @ \cup {nframe + 1}]
        /\ softhangup' = softhangup /\ ChannelUnchanged
    BY <1>4 DEF DriverQueue
  <2> QED
    BY <1>1, <1>2, <1>3, <2>1
<1>5. CASE DriverQueue(c, "drop")
  <2>1. /\ nframe < MaxFrame /\ nframe' = nframe + 1
        /\ readq' = [readq EXCEPT ![c] =
                       QueueTail(readq[c], [id |-> nframe + 1, kind |-> "drop"])]
        /\ sent' = [sent EXCEPT ![c] = @]
        /\ softhangup' = softhangup /\ ChannelUnchanged
    BY <1>5 DEF DriverQueue
  <2>2. sent' = sent
    BY <1>1, <2>1
  <2> QED
    BY <1>1, <1>2, <1>3, <2>1, <2>2
<1>6. CASE DriverHangup(c)
  <2>1. PICK locked \in BOOLEAN :
        /\ nframe < MaxFrame /\ nframe' = nframe + 1
        /\ readq' = [readq EXCEPT ![c] =
                       QueueTail(readq[c], [id |-> nframe + 1, kind |-> "hangup"])]
        /\ softhangup' = [softhangup EXCEPT ![c] = @ \/ ~locked]
        /\ sent' = sent /\ ChannelUnchanged
    BY <1>6 DEF DriverHangup
  <2>2. softhangup'[c] = (softhangup[c] \/ ~locked)
    BY <1>1, <2>1
  <2> QED
    BY <1>1, <1>2, <1>3, <2>1, <2>2
<1>7. CASE SoftHangup(c)
  <2>1. /\ nframe < MaxFrame /\ nframe' = nframe + 1
        /\ readq' = [readq EXCEPT ![c] =
                       QueueTail(readq[c], [id |-> nframe + 1, kind |-> "drop"])]
        /\ softhangup' = [softhangup EXCEPT ![c] = TRUE]
        /\ sent' = sent /\ ChannelUnchanged
    BY <1>7 DEF SoftHangup
  <2> QED
    BY <1>1, <1>2, <1>3, <2>1
<1> QED
  BY <1>4, <1>5, <1>6, <1>7 DEF ChannelStep

(* A queue with a frame more has only its own frames and this one. *)
LEMMA TailFrames ==
  ASSUME NEW q \in Seq(Frame), NEW f \in Frame
  PROVE  /\ QueueTail(q, f) \in Seq(Frame)
         /\ q # <<>> => QueueTail(q, f) # <<>>
         /\ \A k \in 1 .. Len(QueueTail(q, f)) :
              \/ k \in 1 .. Len(q) /\ QueueTail(q, f)[k] = q[k]
              \/ k = Len(q) + 1 /\ QueueTail(q, f)[k] = f
         /\ \A k \in 1 .. Len(q) : k \in 1 .. Len(QueueTail(q, f)) /\ QueueTail(q, f)[k] = q[k]
         /\ HangupLast(q) => QueueTail(q, f) = q
         /\ ~HangupLast(q) => /\ Len(q) + 1 \in 1 .. Len(QueueTail(q, f))
                              /\ QueueTail(q, f)[Len(q) + 1] = f
                              /\ Len(QueueTail(q, f)) = Len(q) + 1
<1>1. CASE HangupLast(q)
  BY <1>1 DEF QueueTail
<1>2. CASE ~HangupLast(q)
  <2>1. PICK r : r = Append(q, f)
    OBVIOUS
  <2>2. /\ r \in Seq(Frame) /\ Len(r) = Len(q) + 1 /\ r[Len(q) + 1] = f /\ r # <<>>
        /\ \A k \in 1 .. Len(q) : r[k] = q[k]
    BY <2>1
  <2>3. QueueTail(q, f) = r
    BY <1>2, <2>1 DEF QueueTail
  <2> QED
    BY <1>2, <2>2, <2>3
<1> QED
  BY <1>1, <1>2

(* A new frame has a new number, and is sent on one channel. *)
LEMMA ChannelFrameInv ==
  ASSUME FrameInv, NEW c \in Chans, ChannelStep(c)
  PROVE  FrameInv'
<1>1. PICK f \in Frame :
           /\ f.id = nframe + 1 /\ nframe' = nframe + 1 /\ nframe' \in 0 .. MaxFrame
           /\ ChannelUnchanged
           /\ readq' = [readq EXCEPT ![c] = QueueTail(readq[c], f)]
           /\ \/ f.kind = "save" /\ sent' = [sent EXCEPT ![c] = @ \cup {nframe + 1}]
              \/ f.kind # "save" /\ sent' = sent
           /\ softhangup' \in [Chans -> BOOLEAN]
  BY ChannelSteps DEF FrameInv, FrameType
<1>2. UNCHANGED <<aslist, echan, ents, apc, achan, hand, deferred, cpc, cent>>
  BY <1>1 DEF ChannelUnchanged, listVars, threadVars, callerVars
<1>3. PICK q, r : q = readq[c] /\ r = QueueTail(q, f)
  OBVIOUS
<1>4. q \in Seq(Frame)
  BY <1>3 DEF FrameInv, FrameType
<1>5. /\ r \in Seq(Frame)
      /\ q # <<>> => r # <<>>
      /\ \A k \in 1 .. Len(r) : (k \in 1 .. Len(q) /\ r[k] = q[k]) \/ r[k] = f
  <2>1. /\ QueueTail(q, f) \in Seq(Frame)
        /\ q # <<>> => QueueTail(q, f) # <<>>
        /\ \A k \in 1 .. Len(QueueTail(q, f)) :
             \/ k \in 1 .. Len(q) /\ QueueTail(q, f)[k] = q[k]
             \/ QueueTail(q, f)[k] = f
    BY <1>4, TailFrames
  <2> QED
    BY <1>3, <2>1
<1>6. /\ readq' \in [Chans -> Seq(Frame)] /\ readq'[c] = r
      /\ \A x \in Chans \ {c} : readq'[x] = readq[x]
  BY <1>1, <1>3, <1>5 DEF FrameInv, FrameType
<1>7. nframe \in Nat /\ \A x \in Chans : sent[x] \subseteq 1 .. nframe
  BY DEF FrameInv, FrameType
<1>8. /\ sent' \in [Chans -> SUBSET (1 .. nframe')]
      /\ \A x \in Chans : \A n \in sent'[x] :
           n \in sent[x] \/ (n = nframe + 1 /\ x = c /\ f.kind = "save")
  <2>1. CASE f.kind = "save" /\ sent' = [sent EXCEPT ![c] = @ \cup {nframe + 1}]
    <3>1. /\ sent'[c] = sent[c] \cup {nframe + 1}
          /\ \A x \in Chans \ {c} : sent'[x] = sent[x]
          /\ DOMAIN sent' = Chans
      BY <2>1 DEF FrameInv, FrameType
    <3>2. \A x \in Chans : sent'[x] \subseteq 1 .. nframe'
      BY <1>1, <1>7, <3>1
    <3>3. sent' = [x \in Chans |-> sent'[x]]
      BY <2>1 DEF FrameInv, FrameType
    <3>4. sent' \in [Chans -> SUBSET (1 .. nframe')]
      BY <3>2, <3>3
    <3> QED
      BY <2>1, <3>1, <3>4
  <2>2. CASE f.kind # "save" /\ sent' = sent
    <3>1. 1 .. nframe \subseteq 1 .. nframe'
      BY <1>1, <1>7
    <3> QED
      BY <2>2, <3>1 DEF FrameInv, FrameType
  <2> QED
    BY <1>1, <2>1, <2>2
<1>9. FrameType'
  BY <1>1, <1>2, <1>6, <1>8 DEF FrameInv, FrameType
<1>10. FramePlace'
  <2>1. Listed(ents, achan)' = Listed(ents, achan)
    BY <1>2 DEF Listed
  <2> QED
    BY <1>2, <1>3, <1>5, <1>6, <2>1 DEF FrameInv, FramePlace
<1>11. FrameOwned'
  <2>1. ASSUME NEW g \in Frame, NEW x, Owned(g, x) PROVE Owned(g, x)'
    <3>1. g.id <= nframe /\ g.id \in Nat
      BY <2>1 DEF Owned, Frame
    <3>2. g.id <= nframe' /\ g.id # nframe + 1
      BY <1>1, <1>7, <3>1
    <3> QED
      BY <1>8, <2>1, <3>2 DEF Owned
  <2>2. Owned(f, c)'
    BY <1>1, <1>7, <1>8 DEF Owned
  <2>3. ASSUME NEW x \in Chans, NEW k \in 1 .. Len(readq'[x]) PROVE Owned(readq[x][k], x)'
    <3>1. CASE x = c /\ readq'[x][k] = f
      BY <2>2, <3>1
    <3>2. CASE k \in 1 .. Len(readq[x]) /\ readq'[x][k] = readq[x][k]
      <4>1. readq[x][k] \in Frame
        BY <3>2 DEF FrameInv, FrameType
      <4> QED
        BY <2>1, <3>2, <4>1 DEF FrameInv, FrameOwned
    <3> QED
      BY <1>3, <1>5, <1>6, <3>1, <3>2
  <2>4. ASSUME NEW e \in Ent, NEW k \in 1 .. Len(deferred[e]) PROVE Owned(deferred[e][k], echan[e])'
    <3>1. deferred[e][k] \in Frame
      BY DEF FrameInv, FrameType
    <3> QED
      BY <1>2, <2>1, <3>1 DEF FrameInv, FrameOwned
  <2>5. apc = "defer" => Owned(hand, achan)'
    BY <1>2, <2>1 DEF FrameInv, FrameOwned, FrameType
  <2> QED
    BY <1>2, <2>3, <2>4, <2>5 DEF FrameOwned
<1> QED
  BY <1>9, <1>10, <1>11 DEF FrameInv

(* Every step keeps the frames with their channels. *)
LEMMA FrameInvNext == EntryInv /\ UseInv /\ FrameInv /\ [Next]_vars => FrameInv'
<1> SUFFICES ASSUME EntryInv, UseInv, FrameInv, [Next]_vars PROVE FrameInv'
  OBVIOUS
<1>1. CASE UNCHANGED vars
  <2>1. Unmoved /\ UNCHANGED <<aslist, cpc, cent>>
    BY <1>1 DEF vars, listVars, threadVars, callerVars, chanVars, Unmoved
  <2> QED
    BY <2>1, FrameFrame
<1>2. ASSUME NEW t \in Callers, CallerStep(t) PROVE FrameInv'
  BY <1>2, QuietFrameInv, InsertFrameInv, RemoveFrameInv, RestoreFrameInv DEF CallerStep
<1>3. CASE ThreadStep
  BY <1>3, TurnFrameInv, ReadFrameInv, DeferFrameInv DEF ThreadStep
<1> QED
  BY <1>1, <1>2, <1>3, ChannelFrameInv DEF Next

-----------------------------------------------------------------------------
(* No frame to be saved is lost. *)

(* A step that leaves the frames where they are *)
LEMMA KeptFrame ==
  ASSUME FramesKeptUntilHangup, UNCHANGED <<deferred, readq, softhangup, sent>>,
         apc = "defer" => apc' = "defer" /\ UNCHANGED <<achan, hand>>
  PROVE  FramesKeptUntilHangup'
BY DEF FramesKeptUntilHangup, Kept, HangupLast

(* A frame that leaves the queue is in the hand. *)
LEMMA ReadKept ==
  ASSUME FrameInv, FramesKeptUntilHangup, ThreadRead
  PROVE  FramesKeptUntilHangup'
<1>1. PICK a \in Chans : a = achan
  BY ReadStep
<1>2. apc = "read" /\ UNCHANGED <<achan, deferred, sent>>
  BY ReadStep
<1>3. CASE UNCHANGED <<readq, softhangup>>
  BY <1>2, <1>3, KeptFrame
<1>4. ASSUME readq[a] \in Seq(Frame), readq[a] # <<>>,
             readq' = [readq EXCEPT ![a] = Tail(readq[a])],
             softhangup' = [softhangup EXCEPT ![a] = Head(readq[a]).kind = "hangup"],
             ~softhangup[a],
             \/ hand' = Hangup /\ Head(readq[a]).kind # "save"
             \/ hand' = Head(readq[a]) /\ apc' = "defer"
      PROVE  FramesKeptUntilHangup'
  <2>1. PICK q, f, r : q = readq[a] /\ f = Head(q) /\ r = Tail(q)
    OBVIOUS
  <2>2. /\ q \in Seq(Frame) /\ q # <<>> /\ f = q[1] /\ r \in Seq(Frame) /\ Len(r) = Len(q) - 1
        /\ \A k \in 1 .. Len(r) : r[k] = q[k + 1]
    BY <1>4, <2>1
  <2>3. /\ readq'[a] = r /\ softhangup'[a] = (f.kind = "hangup")
        /\ \A c \in Chans \ {a} : readq'[c] = readq[c] /\ softhangup'[c] = softhangup[c]
    BY <1>4, <2>1 DEF FrameInv, FrameType
  <2>4. (hand' = Hangup /\ f.kind # "save") \/ (hand' = f /\ apc' = "defer")
    BY <1>4, <2>1
  <2>5. ASSUME NEW c \in Chans \ {a} PROVE (Kept(c) \/ softhangup[c] \/ HangupLast(readq[c]))'
    BY <1>1, <1>2, <2>3 DEF FramesKeptUntilHangup, Kept, HangupLast
  <2>6. CASE HangupLast(q)
    <3>1. CASE Len(q) = 1
      <4>1. f.kind = "hangup"
        BY <2>2, <2>6, <3>1 DEF HangupLast
      <4>2. softhangup'[a]
        BY <2>3, <4>1
      <4> QED
        BY <2>5, <4>2 DEF FramesKeptUntilHangup
    <3>2. CASE Len(q) # 1
      <4>1. Len(r) \in 1 .. Len(r) /\ r[Len(r)] = q[Len(q)] /\ r # <<>>
        BY <2>2, <3>2
      <4>2. HangupLast(r)
        BY <2>6, <4>1 DEF HangupLast
      <4> QED
        BY <2>3, <2>5, <4>2 DEF FramesKeptUntilHangup, HangupLast
    <3> QED
      BY <3>1, <3>2
  <2>7. CASE ~HangupLast(q)
    <3>1. Kept(a)
      BY <1>4, <2>1, <2>7 DEF FramesKeptUntilHangup
    <3>2. ASSUME NEW n \in sent[a]
          PROVE  \/ \E k \in 1 .. Len(r) : r[k].id = n
                 \/ apc' = "defer" /\ hand'.id = n
                 \/ \E e \in Ent : \E k \in 1 .. Len(deferred[e]) : deferred[e][k].id = n
      <4>1. \/ \E k \in 1 .. Len(q) : q[k].id = n
            \/ \E e \in Ent : \E k \in 1 .. Len(deferred[e]) : deferred[e][k].id = n
        BY <1>2, <2>1, <3>1 DEF Kept
      <4>2. ASSUME NEW k \in 1 .. Len(q), q[k].id = n, k # 1
            PROVE  \E j \in 1 .. Len(r) : r[j].id = n
        <5>1. k - 1 \in 1 .. Len(r) /\ (k - 1) + 1 = k
          BY <2>2, <4>2
        <5> QED
          BY <2>2, <4>2, <5>1
      <4>3. ASSUME q[1].id = n PROVE apc' = "defer" /\ hand'.id = n
        <5>1. Owned(f, a)
          <6>1. 1 \in 1 .. Len(readq[a])
            BY <2>1, <2>2
          <6> QED
            BY <2>1, <2>2, <6>1 DEF FrameInv, FrameOwned
        <5>2. f.kind = "save"
          BY <2>2, <4>3, <5>1 DEF Owned
        <5> QED
          BY <2>2, <2>4, <4>3, <5>2
      <4> QED
        BY <4>1, <4>2, <4>3
    <3>3. Kept(a)'
      BY <1>1, <1>2, <2>3, <3>2 DEF Kept
    <3> QED
      BY <2>5, <3>3 DEF FramesKeptUntilHangup
  <2> QED
    BY <2>6, <2>7
<1> QED
  BY <1>1, <1>3, <1>4, ReadStep

(* A frame that leaves the hand is deferred, when it can be copied. *)
LEMMA DeferKept ==
  ASSUME ~MayFail, FrameInv, EntryInv, FramesKeptUntilHangup, ThreadDefer
  PROVE  FramesKeptUntilHangup'
<1>1. PICK e \in Ent :
        /\ apc = "defer" /\ apc' = "lock"
        /\ UNCHANGED <<readq, softhangup, sent>>
        /\ deferred' = [deferred EXCEPT ![e] = <<hand>> \o deferred[e]]
  BY DeferStep
<1>2. PICK d : d = <<hand>> \o deferred[e]
  OBVIOUS
<1>3. hand \in Frame /\ deferred[e] \in Seq(Frame)
  BY DEF FrameInv, FrameType
<1>4. /\ Len(d) = 1 + Len(deferred[e]) /\ d[1] = hand
      /\ \A j \in 1 .. Len(deferred[e]) : d[j + 1] = deferred[e][j]
  BY <1>2, <1>3
<1>5. 1 \in 1 .. Len(d) /\ \A j \in 1 .. Len(deferred[e]) : j + 1 \in 1 .. Len(d)
  BY <1>3, <1>4
<1>6. deferred'[e] = d /\ \A x \in Ent \ {e} : deferred'[x] = deferred[x]
  BY <1>1, <1>2 DEF FrameInv, FrameType
<1>7. ASSUME NEW x \in Ent, NEW k \in 1 .. Len(deferred[x])
      PROVE  \E j \in 1 .. Len(deferred'[x]) : deferred'[x][j] = deferred[x][k]
  BY <1>4, <1>5, <1>6
<1>8. \E j \in 1 .. Len(deferred'[e]) : deferred'[e][j] = hand
  BY <1>4, <1>5, <1>6
<1>9. ASSUME NEW c \in Chans, Kept(c) PROVE Kept(c)'
  <2>1. ASSUME NEW n \in sent[c]
        PROVE  \/ \E k \in 1 .. Len(readq[c]) : readq[c][k].id = n
               \/ \E x \in Ent : \E k \in 1 .. Len(deferred'[x]) : deferred'[x][k].id = n
    <3>1. CASE hand.id = n
      BY <1>8, <3>1
    <3>2. ASSUME NEW x \in Ent, NEW k \in 1 .. Len(deferred[x]), deferred[x][k].id = n
          PROVE  \E j \in 1 .. Len(deferred'[x]) : deferred'[x][j].id = n
      BY <1>7, <3>2
    <3> QED
      BY <1>9, <3>1, <3>2 DEF Kept
  <2> QED
    BY <1>1, <2>1 DEF Kept
<1> QED
  BY <1>1, <1>9 DEF FramesKeptUntilHangup, HangupLast

(* A deferred frame returns to the queue, unless a hangup ends it. *)
LEMMA RestoreKept ==
  ASSUME FrameInv, EntryInv, UseInv, FramesKeptUntilHangup,
         NEW t \in Callers, StopRestore(t)
  PROVE  FramesKeptUntilHangup'
<1>1. PICK c \in Chans, e \in Ent :
        /\ echan[e] = c
        /\ readq' = [readq EXCEPT ![c] = Requeue(readq[c], deferred[e])]
        /\ deferred' = [deferred EXCEPT ![e] = <<>>]
        /\ UNCHANGED <<apc, achan, hand, softhangup, sent>>
  BY RestoreStep
<1>2. PICK q, d, r : q = readq[c] /\ d = deferred[e] /\ r = Requeue(q, d)
  OBVIOUS
<1>3. q \in Seq(Frame) /\ d \in Seq(Frame) /\ readq' = [readq EXCEPT ![c] = r]
  BY <1>1, <1>2 DEF FrameInv, FrameType
<1>4. MadeOf(r, q, d)
  BY <1>2, <1>3, RequeueFrames
<1>5. /\ readq'[c] = r /\ \A x \in Chans \ {c} : readq'[x] = readq[x]
      /\ \A x \in Ent \ {e} : deferred'[x] = deferred[x]
  BY <1>1, <1>3 DEF FrameInv, FrameType
<1>6. ASSUME NEW x \in Chans \ {c} PROVE (Kept(x) \/ softhangup[x] \/ HangupLast(readq[x]))'
  <2>1. CASE Kept(x)
    <3>1. ASSUME NEW k \in 1 .. Len(d) PROVE d[k].id \notin sent[x]
      BY <1>1, <1>2 DEF FrameInv, FrameOwned, Owned
    <3>2. Kept(x)'
      BY <1>1, <1>2, <1>5, <2>1, <3>1 DEF Kept
    <3> QED
      BY <3>2
  <2>2. CASE softhangup[x] \/ HangupLast(readq[x])
    BY <1>1, <1>5, <2>2 DEF HangupLast
  <2> QED
    BY <2>1, <2>2 DEF FramesKeptUntilHangup
<1>7. (Kept(c) \/ softhangup[c] \/ HangupLast(readq[c]))'
  <2>1. CASE HangupLast(r)
    BY <1>5, <2>1 DEF HangupLast
  <2>2. CASE ~HangupLast(r) /\ Kept(c)
    <3>1. /\ \A j \in 1 .. Len(q) : \E k \in 1 .. Len(r) : r[k] = q[j]
          /\ \A j \in 1 .. Len(d) : \E k \in 1 .. Len(r) : r[k] = d[j]
      BY <1>4, <2>2 DEF MadeOf
    <3>2. ASSUME NEW n \in sent[c]
          PROVE  \/ \E k \in 1 .. Len(r) : r[k].id = n
                 \/ apc = "defer" /\ achan = c /\ hand.id = n
                 \/ \E x \in Ent \ {e} : \E k \in 1 .. Len(deferred[x]) : deferred[x][k].id = n
      <4>1. \/ \E k \in 1 .. Len(q) : q[k].id = n
            \/ apc = "defer" /\ achan = c /\ hand.id = n
            \/ \E x \in Ent : \E k \in 1 .. Len(deferred[x]) : deferred[x][k].id = n
        BY <1>2, <2>2 DEF Kept
      <4>2. CASE \E k \in 1 .. Len(q) : q[k].id = n
        BY <3>1, <4>2
      <4>3. CASE \E k \in 1 .. Len(d) : d[k].id = n
        BY <3>1, <4>3
      <4> QED
        BY <1>2, <4>1, <4>2, <4>3
    <3>3. Kept(c)'
      BY <1>1, <1>5, <3>2 DEF Kept
    <3> QED
      BY <3>3
  <2>3. CASE ~HangupLast(r) /\ softhangup[c]
    BY <1>1, <2>3
  <2>4. CASE HangupLast(q)
    BY <1>4, <2>1, <2>4 DEF MadeOf
  <2> QED
    BY <1>2, <2>1, <2>2, <2>3, <2>4 DEF FramesKeptUntilHangup
<1> QED
  BY <1>6, <1>7 DEF FramesKeptUntilHangup

(* A frame is queued. *)
LEMMA ChannelKept ==
  ASSUME FrameInv, FramesKeptUntilHangup, NEW c \in Chans, ChannelStep(c)
  PROVE  FramesKeptUntilHangup'
<1>1. PICK f \in Frame :
        /\ f.id = nframe + 1 /\ ChannelUnchanged
        /\ readq' = [readq EXCEPT ![c] = QueueTail(readq[c], f)]
        /\ \/ sent' = [sent EXCEPT ![c] = @ \cup {nframe + 1}] /\ ~HangupLast(readq[c])
           \/ sent' = sent
        /\ softhangup' \in [Chans -> BOOLEAN]
        /\ \A d \in Chans : softhangup[d] => softhangup'[d]
  BY ChannelSteps
<1>2. UNCHANGED <<apc, achan, hand, deferred>>
  BY <1>1 DEF ChannelUnchanged, threadVars
<1>3. PICK q, r : q = readq[c] /\ r = QueueTail(q, f)
  OBVIOUS
<1>4. q \in Seq(Frame)
  BY <1>3 DEF FrameInv, FrameType
<1>5. /\ \A k \in 1 .. Len(q) : k \in 1 .. Len(r) /\ r[k] = q[k]
      /\ HangupLast(q) => r = q
      /\ ~HangupLast(q) => Len(q) + 1 \in 1 .. Len(r) /\ r[Len(q) + 1] = f
  <2>1. /\ \A k \in 1 .. Len(q) : /\ k \in 1 .. Len(QueueTail(q, f))
                                  /\ QueueTail(q, f)[k] = q[k]
        /\ HangupLast(q) => QueueTail(q, f) = q
        /\ ~HangupLast(q) => /\ Len(q) + 1 \in 1 .. Len(QueueTail(q, f))
                             /\ QueueTail(q, f)[Len(q) + 1] = f
    BY <1>4, TailFrames
  <2> QED
    BY <1>3, <2>1
<1>6. readq'[c] = r /\ \A x \in Chans \ {c} : readq'[x] = readq[x]
  BY <1>1, <1>3 DEF FrameInv, FrameType
<1>7. /\ \A x \in Chans \ {c} : sent'[x] = sent[x]
      /\ \A n \in sent'[c] : n \in sent[c] \/ (n = f.id /\ ~HangupLast(q))
  BY <1>1, <1>3 DEF FrameInv, FrameType
<1>8. ASSUME NEW x \in Chans \ {c} PROVE (Kept(x) \/ softhangup[x] \/ HangupLast(readq[x]))'
  BY <1>1, <1>2, <1>6, <1>7 DEF FramesKeptUntilHangup, Kept, HangupLast
<1>9. (Kept(c) \/ softhangup[c] \/ HangupLast(readq[c]))'
  <2>1. CASE HangupLast(q)
    BY <1>5, <1>6, <2>1 DEF HangupLast
  <2>2. CASE softhangup[c]
    BY <1>1, <2>2
  <2>3. CASE ~HangupLast(q) /\ Kept(c)
    <3>1. ASSUME NEW n \in sent'[c]
          PROVE  \/ \E k \in 1 .. Len(r) : r[k].id = n
                 \/ apc = "defer" /\ achan = c /\ hand.id = n
                 \/ \E e \in Ent : \E k \in 1 .. Len(deferred[e]) : deferred[e][k].id = n
      <4>1. CASE n \in sent[c]
        BY <1>3, <1>5, <2>3, <4>1 DEF Kept
      <4>2. CASE n = f.id
        BY <1>5, <2>3, <4>2
      <4> QED
        BY <1>7, <4>1, <4>2
    <3>2. Kept(c)'
      BY <1>2, <1>6, <3>1 DEF Kept
    <3> QED
      BY <3>2
  <2> QED
    BY <1>3, <2>1, <2>2, <2>3 DEF FramesKeptUntilHangup
<1> QED
  BY <1>8, <1>9 DEF FramesKeptUntilHangup

(* While frames can be copied, a frame to be saved is in the read queue of *)
(* its channel, in the thread's hand or deferred, until the channel is     *)
(* hung up or a hangup is queued on it: giving the frames back, for any    *)
(* number of them, loses none.                                             *)
THEOREM NoFrameLost ==
  ASSUME ~MayFail
  PROVE  Spec => []FramesKeptUntilHangup
<1>1. Init => EntryInv /\ UseInv /\ FrameInv /\ FramesKeptUntilHangup
  <2>1. Init => FramesKeptUntilHangup
    BY DEF Init, FramesKeptUntilHangup, Kept
  <2> QED
    BY <2>1, EntryInvInit, UseInvInit, FrameInvInit
<1>2. /\ EntryInv /\ UseInv /\ FrameInv /\ FramesKeptUntilHangup
      /\ [Next]_vars
      => EntryInv' /\ UseInv' /\ FrameInv' /\ FramesKeptUntilHangup'
  <2> SUFFICES ASSUME EntryInv, UseInv, FrameInv, FramesKeptUntilHangup, [Next]_vars
               PROVE  FramesKeptUntilHangup'
    BY EntryInvNext, UseInvNext, FrameInvNext
  <2>1. ASSUME Unmoved PROVE FramesKeptUntilHangup'
    BY <2>1, KeptFrame DEF Unmoved
  <2>2. CASE UNCHANGED vars
    BY <2>1, <2>2 DEF vars, listVars, threadVars, chanVars, Unmoved
  <2>3. ASSUME NEW t \in Callers, StartInsert(t) PROVE FramesKeptUntilHangup'
    BY <2>3, InsertFrameInv, KeptFrame
  <2>4. ASSUME NEW t \in Callers, CallerStep(t) PROVE FramesKeptUntilHangup'
    BY <2>1, <2>3, <2>4, QuietFrameInv, RemoveFrameInv, RestoreKept DEF CallerStep
  <2>5. ASSUME ThreadLock \/ ThreadAwake \/ ThreadWait PROVE FramesKeptUntilHangup'
    BY <2>5, TurnFrameInv, KeptFrame
  <2>6. CASE ThreadStep
    BY <2>5, <2>6, ReadKept, DeferKept DEF ThreadStep
  <2> QED
    BY <2>2, <2>4, <2>6, ChannelKept DEF Next
<1> QED
  BY <1>1, <1>2, PTL DEF Spec

-----------------------------------------------------------------------------
(* The order of the frames *)

(* Every frame to be saved of s was queued before every one of r. *)
Before(s, r) ==
  \A m \in 1 .. Len(s), n \in 1 .. Len(r) :
    s[m].kind = "save" /\ r[n].kind = "save" => s[m].id < r[n].id

NewestFirst(d) ==
  \A m, n \in 1 .. Len(d) :
    m < n /\ d[m].kind = "save" /\ d[n].kind = "save" => d[n].id < d[m].id

(* The deferred frames of a channel come before the frame in the thread's  *)
(* hand, and this one before those in the read queue.                      *)
OrderInv ==
  /\ \A c \in Chans : InOrder(readq[c])
  /\ \A e \in Ent : NewestFirst(deferred[e])
  /\ \A e \in Ent, c \in Chans : echan[e] = c => Before(deferred[e], readq[c])
  /\ apc = "defer" =>
        /\ Before(<<hand>>, readq[achan])
        /\ \A e \in Ent : echan[e] = achan => Before(deferred[e], <<hand>>)

LEMMA OrderInvInit == Init => OrderInv
  BY DEF Init, OrderInv, InOrder, NewestFirst, Before

(* One frame, and none *)
LEMMA BeforeOne ==
  ASSUME NEW s, NEW f
  PROVE  /\ Before(s, <<f>>) <=> \A m \in 1 .. Len(s) :
                                    s[m].kind = "save" /\ f.kind = "save" => s[m].id < f.id
         /\ Before(<<f>>, s) <=> \A n \in 1 .. Len(s) :
                                    f.kind = "save" /\ s[n].kind = "save" => f.id < s[n].id
         /\ Before(<<>>, s) /\ Before(s, <<>>)
<1>1. Len(<<f>>) = 1 /\ <<f>>[1] = f /\ Len(<<>>) = 0 /\ 1 .. 0 = {} /\ 1 .. 1 = {1}
  OBVIOUS
<1> QED
  BY <1>1 DEF Before

(* A step that leaves the frames where they are *)
LEMMA OrderFrame ==
  ASSUME OrderInv, UNCHANGED <<deferred, readq>>,
         \A e \in Ent : deferred[e] # <<>> => echan'[e] = echan[e],
         apc' = "defer" => apc = "defer" /\ UNCHANGED <<achan, hand>>
  PROVE  OrderInv'
<1>1. \A e \in Ent : \A s : deferred[e] = <<>> => Before(deferred[e], s)
  BY BeforeOne
<1>2. /\ \A c \in Chans : InOrder(readq'[c])
      /\ \A e \in Ent : NewestFirst(deferred'[e])
      /\ \A e \in Ent, c \in Chans : echan'[e] = c => Before(deferred'[e], readq'[c])
      /\ apc' = "defer" =>
            /\ Before(<<hand'>>, readq'[achan'])
            /\ \A e \in Ent : echan'[e] = achan' => Before(deferred'[e], <<hand'>>)
  BY <1>1 DEF OrderInv
<1> QED
  BY <1>2 DEF OrderInv, InOrder, NewestFirst, Before

(* What the thread takes into its hand comes after the deferred frames of  *)
(* the channel and before those left in its queue.                         *)
LEMMA ReadOrder ==
  ASSUME FrameInv, OrderInv, ThreadRead
  PROVE  OrderInv'
<1>1. PICK a \in Chans : a = achan
  BY ReadStep
<1>2. apc = "read" /\ UNCHANGED <<echan, achan, deferred>>
  BY ReadStep
<1>3. Hangup.kind # "save"
  BY DEF Hangup
<1>4. CASE UNCHANGED readq /\ hand' = Hangup
  <2>1. \A s : Before(<<hand'>>, s) /\ Before(s, <<hand'>>)
    BY <1>3, <1>4, BeforeOne
  <2> QED
    BY <1>2, <1>4, <2>1 DEF OrderInv, InOrder, NewestFirst, Before
<1>5. ASSUME readq[a] \in Seq(Frame), readq[a] # <<>>,
             readq' = [readq EXCEPT ![a] = Tail(readq[a])],
             \/ hand' = Hangup
             \/ hand' = Head(readq[a])
      PROVE  OrderInv'
  <2>1. PICK q, f, r : q = readq[a] /\ f = Head(q) /\ r = Tail(q)
    OBVIOUS
  <2>2. /\ q \in Seq(Frame) /\ q # <<>> /\ f = q[1] /\ r \in Seq(Frame) /\ Len(r) = Len(q) - 1
        /\ \A k \in 1 .. Len(r) : r[k] = q[k + 1]
        /\ 1 \in 1 .. Len(q)
    BY <1>5, <2>1
  <2>3. readq'[a] = r /\ \A c \in Chans \ {a} : readq'[c] = readq[c]
    BY <1>5, <2>1 DEF FrameInv, FrameType
  <2>4. InOrder(q) /\ \A e \in Ent : echan[e] = a => Before(deferred[e], q)
    BY <2>1 DEF OrderInv
  <2>5. \A k \in 1 .. Len(r) : k + 1 \in 1 .. Len(q) /\ 1 < k + 1
    BY <2>2
  <2>6. InOrder(r)
    <3>1. ASSUME NEW m \in 1 .. Len(r), NEW n \in 1 .. Len(r), m < n,
                 r[m].kind = "save", r[n].kind = "save"
          PROVE  r[m].id < r[n].id
      <4>1. /\ m + 1 \in 1 .. Len(q) /\ n + 1 \in 1 .. Len(q) /\ m + 1 < n + 1
            /\ r[m] = q[m + 1] /\ r[n] = q[n + 1]
        BY <2>2, <2>5, <3>1
      <4> QED
        BY <2>4, <3>1, <4>1 DEF InOrder
    <3> QED
      BY <3>1 DEF InOrder
  <2>7. \A e \in Ent : echan[e] = a => Before(deferred[e], r)
    BY <2>2, <2>4, <2>5 DEF Before
  <2>8. Before(<<hand'>>, r) /\ \A e \in Ent : echan[e] = a => Before(deferred[e], <<hand'>>)
    <3>1. CASE hand' = Hangup
      BY <1>3, <3>1, BeforeOne
    <3>2. CASE hand' = f
      <4>1. \A k \in 1 .. Len(r) : f.kind = "save" /\ r[k].kind = "save" => f.id < r[k].id
        BY <2>2, <2>4, <2>5 DEF InOrder
      <4>2. \A e \in Ent : echan[e] = a => \A m \in 1 .. Len(deferred[e]) :
               deferred[e][m].kind = "save" /\ f.kind = "save" => deferred[e][m].id < f.id
        BY <2>2, <2>4 DEF Before
      <4> QED
        BY <3>2, <4>1, <4>2, BeforeOne
    <3> QED
      BY <1>5, <2>1, <3>1, <3>2
  <2>9. /\ \A c \in Chans : InOrder(readq'[c])
        /\ \A e \in Ent : NewestFirst(deferred[e])
        /\ \A e \in Ent, c \in Chans : echan[e] = c => Before(deferred[e], readq'[c])
    BY <2>3, <2>6, <2>7 DEF OrderInv
  <2> QED
    BY <1>1, <1>2, <2>3, <2>8, <2>9 DEF OrderInv, InOrder, NewestFirst, Before
<1> QED
  BY <1>1, <1>4, <1>5, ReadStep

(* The frame in the hand is the newest of the deferred ones. *)
LEMMA DeferOrder ==
  ASSUME FrameInv, EntryInv, OrderInv, ThreadDefer
  PROVE  OrderInv'
<1>1. PICK e \in Ent :
        /\ echan[e] = achan /\ achan \in Chans /\ apc = "defer" /\ apc' = "lock"
        /\ UNCHANGED <<echan, readq>>
        /\ \/ deferred' = [deferred EXCEPT ![e] = <<hand>> \o deferred[e]]
           \/ UNCHANGED deferred
  BY DeferStep
<1>2. CASE UNCHANGED deferred
  BY <1>1, <1>2, OrderFrame
<1>3. CASE deferred' = [deferred EXCEPT ![e] = <<hand>> \o deferred[e]]
  <2>1. PICK d, o, q : o = deferred[e] /\ d = <<hand>> \o o /\ q = readq[achan]
    OBVIOUS
  <2>2. hand \in Frame /\ o \in Seq(Frame)
    BY <2>1 DEF FrameInv, FrameType
  <2>3. /\ d \in Seq(Frame) /\ Len(d) = 1 + Len(o) /\ d[1] = hand
        /\ \A j \in 1 .. Len(o) : d[j + 1] = o[j]
    BY <2>1, <2>2
  <2>4. \A k \in 1 .. Len(d) : k = 1 \/ (k - 1 \in 1 .. Len(o) /\ d[k] = o[k - 1])
    <3>1. ASSUME NEW k \in 1 .. Len(d), k # 1
          PROVE  k - 1 \in 1 .. Len(o) /\ d[k] = o[k - 1]
      <4>1. k - 1 \in 1 .. Len(o) /\ (k - 1) + 1 = k
        BY <2>2, <2>3, <3>1
      <4> QED
        BY <2>3, <4>1
    <3> QED
      BY <3>1
  <2>5. deferred'[e] = d /\ \A x \in Ent \ {e} : deferred'[x] = deferred[x]
    BY <1>3, <2>1, <2>3 DEF FrameInv, FrameType
  <2>6. /\ \A j \in 1 .. Len(o) : o[j].kind = "save" /\ hand.kind = "save" => o[j].id < hand.id
        /\ \A j \in 1 .. Len(q) : hand.kind = "save" /\ q[j].kind = "save" => hand.id < q[j].id
    <3>1. Before(o, <<hand>>) /\ Before(<<hand>>, q)
      BY <1>1, <2>1 DEF OrderInv
    <3> QED
      BY <3>1, BeforeOne
  <2>7. NewestFirst(o) /\ Before(o, q)
    BY <1>1, <2>1 DEF OrderInv
  <2>8. NewestFirst(d)
    <3>1. ASSUME NEW m \in 1 .. Len(d), NEW n \in 1 .. Len(d), m < n,
                 d[m].kind = "save", d[n].kind = "save"
          PROVE  d[n].id < d[m].id
      <4>1. n - 1 \in 1 .. Len(o) /\ d[n] = o[n - 1]
        BY <2>4, <3>1
      <4>2. CASE m = 1
        BY <2>3, <2>6, <3>1, <4>1, <4>2
      <4>3. CASE m # 1
        <5>1. m - 1 \in 1 .. Len(o) /\ d[m] = o[m - 1] /\ m - 1 < n - 1
          BY <2>4, <3>1, <4>3
        <5> QED
          BY <2>7, <3>1, <4>1, <5>1 DEF NewestFirst
      <4> QED
        BY <4>2, <4>3
    <3> QED
      BY <3>1 DEF NewestFirst
  <2>9. Before(d, q)
    <3>1. ASSUME NEW m \in 1 .. Len(d), NEW n \in 1 .. Len(q),
                 d[m].kind = "save", q[n].kind = "save"
          PROVE  d[m].id < q[n].id
      <4>1. CASE m = 1
        BY <2>3, <2>6, <3>1, <4>1
      <4>2. CASE m # 1
        BY <2>4, <2>7, <3>1, <4>2 DEF Before
      <4> QED
        BY <4>1, <4>2
    <3> QED
      BY <3>1 DEF Before
  <2>10. /\ \A x \in Ent : NewestFirst(deferred'[x])
         /\ \A x \in Ent, c \in Chans : echan[x] = c => Before(deferred'[x], readq[c])
    BY <1>1, <2>1, <2>5, <2>8, <2>9 DEF OrderInv
  <2> QED
    BY <1>1, <2>10 DEF OrderInv, InOrder, NewestFirst, Before
<1> QED
  BY <1>1, <1>2, <1>3

(* The frames of d, the newest first, come before those of q: put before   *)
(* them one by one they are in order.                                      *)
LEMMA RequeueOrder ==
  ASSUME NEW q \in Seq(Frame), NEW d \in Seq(Frame), NEW r, r = Requeue(q, d),
         InOrder(q), NewestFirst(d), Before(d, q)
  PROVE  InOrder(r)
<1>1. PutBack(r, q, d, Len(d))
  BY Requeued
<1>2. CASE HangupLast(q)
  BY <1>1, <1>2 DEF PutBack
<1>3. CASE ~HangupLast(q) /\ q = <<>> /\ Len(d) > 0 /\ d[1].kind = "hangup"
  <2>1. r = <<d[1]>>
    BY <1>1, <1>3 DEF PutBack
  <2>2. Len(r) = 1
    BY <2>1
  <2> QED
    BY <2>2 DEF InOrder
<1>4. CASE ~HangupLast(q) /\ ~(q = <<>> /\ Len(d) > 0 /\ d[1].kind = "hangup")
  <2>1. PutBefore(r, q, d, Len(d))
    BY <1>1, <1>4 DEF PutBack
  <2>2. /\ r \in Seq(Frame) /\ Len(r) = Len(d) + Len(q) /\ Len(d) \in Nat /\ Len(q) \in Nat
        /\ \A k \in 1 .. Len(d) : r[k] = d[Len(d) - k + 1]
        /\ \A k \in 1 .. Len(q) : r[Len(d) + k] = q[k]
    BY <2>1 DEF PutBefore
  <2>3. \A k \in 1 .. Len(r) :
          \/ k <= Len(d) /\ Len(d) - k + 1 \in 1 .. Len(d) /\ r[k] = d[Len(d) - k + 1]
          \/ k > Len(d) /\ k - Len(d) \in 1 .. Len(q) /\ r[k] = q[k - Len(d)]
    <3>1. ASSUME NEW k \in 1 .. Len(r), k > Len(d)
          PROVE  k - Len(d) \in 1 .. Len(q) /\ r[k] = q[k - Len(d)]
      <4>1. k - Len(d) \in 1 .. Len(q) /\ Len(d) + (k - Len(d)) = k
        BY <2>2, <3>1
      <4> QED
        BY <2>2, <4>1
    <3>2. ASSUME NEW k \in 1 .. Len(r), ~(k > Len(d))
          PROVE  k <= Len(d) /\ Len(d) - k + 1 \in 1 .. Len(d) /\ r[k] = d[Len(d) - k + 1]
      <4>1. k \in 1 .. Len(d) /\ Len(d) - k + 1 \in 1 .. Len(d)
        BY <2>2, <3>2
      <4> QED
        BY <2>2, <4>1
    <3> QED
      BY <3>1, <3>2
  <2>4. ASSUME NEW m \in 1 .. Len(r), NEW n \in 1 .. Len(r), m < n,
               r[m].kind = "save", r[n].kind = "save"
        PROVE  r[m].id < r[n].id
    <3>1. CASE n <= Len(d)
      <4>1. /\ Len(d) - m + 1 \in 1 .. Len(d) /\ r[m] = d[Len(d) - m + 1]
            /\ Len(d) - n + 1 \in 1 .. Len(d) /\ r[n] = d[Len(d) - n + 1]
            /\ Len(d) - n + 1 < Len(d) - m + 1
        BY <2>2, <2>3, <2>4, <3>1
      <4> QED
        BY <2>4, <4>1 DEF NewestFirst
    <3>2. CASE n > Len(d) /\ m <= Len(d)
      <4>1. /\ Len(d) - m + 1 \in 1 .. Len(d) /\ r[m] = d[Len(d) - m + 1]
            /\ n - Len(d) \in 1 .. Len(q) /\ r[n] = q[n - Len(d)]
        BY <2>2, <2>3, <3>2
      <4> QED
        BY <2>4, <4>1 DEF Before
    <3>3. CASE n > Len(d) /\ m > Len(d)
      <4>1. /\ m - Len(d) \in 1 .. Len(q) /\ r[m] = q[m - Len(d)]
            /\ n - Len(d) \in 1 .. Len(q) /\ r[n] = q[n - Len(d)]
            /\ m - Len(d) < n - Len(d)
        BY <2>2, <2>3, <2>4, <3>3
      <4> QED
        BY <2>4, <4>1 DEF InOrder
    <3> QED
      BY <2>2, <3>1, <3>2, <3>3
  <2> QED
    BY <2>4 DEF InOrder
<1> QED
  BY <1>2, <1>3, <1>4

(* While an owner gives the frames back, the thread has none of the        *)
(* channel's in its hand, and no other entry has any.                      *)
LEMMA RestoreAlone ==
  ASSUME OneOwner, EntryInv, UseInv, FrameInv, OwnInv,
         NEW t \in Callers, cpc[t] = "restore"
  PROVE  /\ \A e \in Ent : echan[e] = cchan[t] /\ deferred[e] # <<>> => e = cent[t]
         /\ apc = "defer" => achan # cchan[t]
<1>1. PICK c \in Chans : c = cchan[t]
  BY DEF UseInv, UsePlace
<1>2. \A e \in aslist : echan[e] # c
  BY <1>1 DEF OwnInv
<1>3. ASSUME NEW u \in Callers, cpc[u] \in Stopping, echan[cent[u]] = c
      PROVE  u = t
  <2>1. cchan[u] = c
    BY <1>1, <1>3 DEF UseInv, UsePlace
  <2>2. <<u, c>> \in Uses /\ <<t, c>> \in Uses
    BY <1>1, <2>1 DEF OwnInv
  <2> QED
    BY <2>2 DEF OneOwner
<1>4. \A e \in Ent : echan[e] = c /\ deferred[e] # <<>> => e = cent[t]
  BY <1>2, <1>3 DEF FrameInv, FramePlace
<1>5. ASSUME apc = "defer", achan = c PROVE FALSE
  <2>1. PICK e \in ents : echan[e] = c
    BY <1>5 DEF FrameInv, FramePlace, Listed
  <2>2. PICK u \in Callers : cpc[u] = "waiting" /\ cent[u] = e
    BY <1>2, <2>1 DEF EntryInv, ReachedIsSafe
  <2> QED
    BY <1>3, <2>1, <2>2 DEF Stopping
<1> QED
  BY <1>1, <1>4, <1>5

(* The frames given back come before those queued meanwhile. *)
LEMMA RestoreOrder ==
  ASSUME OneOwner, EntryInv, UseInv, FrameInv, OwnInv, OrderInv,
         NEW t \in Callers, StopRestore(t)
  PROVE  OrderInv'
<1>1. PICK c \in Chans, e \in Ent :
        /\ cpc[t] = "restore" /\ c = cchan[t] /\ e = cent[t] /\ echan[e] = c
        /\ readq' = [readq EXCEPT ![c] = Requeue(readq[c], deferred[e])]
        /\ deferred' = [deferred EXCEPT ![e] = <<>>]
        /\ UNCHANGED <<echan, apc, achan, hand>>
  BY RestoreStep
<1>2. PICK q, d, r : q = readq[c] /\ d = deferred[e] /\ r = Requeue(q, d)
  OBVIOUS
<1>3. q \in Seq(Frame) /\ d \in Seq(Frame) /\ readq' = [readq EXCEPT ![c] = r]
  BY <1>1, <1>2 DEF FrameInv, FrameType
<1>4. InOrder(r)
  <2>1. InOrder(q) /\ NewestFirst(d) /\ Before(d, q)
    BY <1>1, <1>2 DEF OrderInv
  <2> QED
    BY <1>2, <1>3, <2>1, RequeueOrder
<1>5. /\ readq'[c] = r /\ \A x \in Chans \ {c} : readq'[x] = readq[x]
      /\ deferred'[e] = <<>> /\ \A x \in Ent \ {e} : deferred'[x] = deferred[x]
  BY <1>1, <1>3 DEF FrameInv, FrameType
<1>6. /\ \A x \in Ent : echan[x] = c /\ deferred[x] # <<>> => x = e
      /\ apc = "defer" => achan # c
  BY <1>1, RestoreAlone
<1>7. \A s : Before(<<>>, s)
  BY BeforeOne
<1>8. /\ \A x \in Chans : InOrder(readq'[x])
      /\ \A x \in Ent : NewestFirst(deferred'[x])
  <2>1. NewestFirst(<<>>)
    BY DEF NewestFirst
  <2> QED
    BY <1>4, <1>5, <2>1 DEF OrderInv
<1>9. ASSUME NEW x \in Ent, NEW y \in Chans, echan[x] = y PROVE Before(deferred'[x], readq'[y])
  <2>1. CASE deferred'[x] = <<>>
    BY <1>7, <2>1
  <2>2. CASE deferred'[x] # <<>>
    <3>1. x # e /\ deferred'[x] = deferred[x] /\ y # c
      BY <1>5, <1>6, <1>9, <2>2
    <3> QED
      BY <1>5, <1>9, <3>1 DEF OrderInv
  <2> QED
    BY <2>1, <2>2
<1>10. ASSUME apc = "defer"
       PROVE  /\ Before(<<hand>>, readq'[achan])
              /\ \A x \in Ent : echan[x] = achan => Before(deferred'[x], <<hand>>)
  <2>1. achan \in Chans \ {c}
    BY <1>6, <1>10 DEF FrameInv, FramePlace
  <2> QED
    BY <1>1, <1>5, <1>10, <2>1 DEF OrderInv
<1> QED
  BY <1>1, <1>8, <1>9, <1>10 DEF OrderInv, InOrder, NewestFirst, Before

(* The frame that a driver queues was queued after all others. *)
LEMMA ChannelOrder ==
  ASSUME FrameInv, OrderInv, NEW c \in Chans, ChannelStep(c)
  PROVE  OrderInv'
<1>1. PICK f \in Frame :
        /\ f.id = nframe + 1 /\ ChannelUnchanged
        /\ readq' = [readq EXCEPT ![c] = QueueTail(readq[c], f)]
  BY ChannelSteps
<1>2. UNCHANGED <<echan, apc, achan, hand, deferred>>
  BY <1>1 DEF ChannelUnchanged, listVars, threadVars
<1>3. PICK q, r : q = readq[c] /\ r = QueueTail(q, f)
  OBVIOUS
<1>4. q \in Seq(Frame)
  BY <1>3 DEF FrameInv, FrameType
<1>5. \A k \in 1 .. Len(r) : \/ k \in 1 .. Len(q) /\ r[k] = q[k]
                             \/ k = Len(q) + 1 /\ r[k] = f
  <2>1. \A k \in 1 .. Len(QueueTail(q, f)) :
          \/ k \in 1 .. Len(q) /\ QueueTail(q, f)[k] = q[k]
          \/ k = Len(q) + 1 /\ QueueTail(q, f)[k] = f
    BY <1>4, TailFrames
  <2> QED
    BY <1>3, <2>1
<1>6. readq'[c] = r /\ \A x \in Chans \ {c} : readq'[x] = readq[x]
  BY <1>1, <1>3 DEF FrameInv, FrameType
<1>7. /\ nframe \in Nat
      /\ \A k \in 1 .. Len(q) : q[k].id \in Nat /\ q[k].id < f.id
      /\ \A e \in Ent : \A k \in 1 .. Len(deferred[e]) :
            deferred[e][k].id \in Nat /\ deferred[e][k].id < f.id
      /\ apc = "defer" => hand.id \in Nat /\ hand.id < f.id
  <2>1. nframe \in Nat /\ \A g \in Frame : g.id \in Nat
    BY DEF FrameInv, FrameType, Frame
  <2>2. \A g \in Frame : \A x : Owned(g, x) => g.id < f.id
    BY <1>1, <2>1 DEF Owned
  <2>3. \A k \in 1 .. Len(q) : q[k] \in Frame /\ Owned(q[k], c)
    BY <1>3, <1>4 DEF FrameInv, FrameOwned
  <2>4. \A e \in Ent : \A k \in 1 .. Len(deferred[e]) :
          deferred[e][k] \in Frame /\ Owned(deferred[e][k], echan[e])
    BY DEF FrameInv, FrameOwned, FrameType
  <2>5. apc = "defer" => hand \in Frame /\ Owned(hand, achan)
    BY DEF FrameInv, FrameOwned, FrameType
  <2> QED
    BY <2>1, <2>2, <2>3, <2>4, <2>5
<1>8. InOrder(r)
  <2>1. InOrder(q)
    BY <1>3 DEF OrderInv
  <2>2. ASSUME NEW m \in 1 .. Len(r), NEW n \in 1 .. Len(r), m < n,
               r[m].kind = "save", r[n].kind = "save"
        PROVE  r[m].id < r[n].id
    <3>1. m \in 1 .. Len(q) /\ r[m] = q[m]
      BY <1>4, <1>5, <2>2
    <3> QED
      BY <1>5, <1>7, <2>1, <2>2, <3>1 DEF InOrder
  <2> QED
    BY <2>2 DEF InOrder
<1>9. ASSUME NEW e \in Ent, echan[e] = c PROVE Before(deferred[e], r)
  <2>1. Before(deferred[e], q)
    BY <1>3, <1>9 DEF OrderInv
  <2> QED
    BY <1>5, <1>7, <2>1 DEF Before
<1>10. ASSUME apc = "defer", achan = c PROVE Before(<<hand>>, r)
  <2>1. Before(<<hand>>, q)
    BY <1>3, <1>10 DEF OrderInv
  <2>2. \A k \in 1 .. Len(q) : hand.kind = "save" /\ q[k].kind = "save" => hand.id < q[k].id
    BY <2>1, BeforeOne
  <2>3. \A k \in 1 .. Len(r) : hand.kind = "save" /\ r[k].kind = "save" => hand.id < r[k].id
    BY <1>5, <1>7, <1>10, <2>2
  <2> QED
    BY <2>3, BeforeOne
<1>11. /\ \A x \in Chans : InOrder(readq'[x])
       /\ \A x \in Ent, y \in Chans : echan[x] = y => Before(deferred[x], readq'[y])
  BY <1>6, <1>8, <1>9 DEF OrderInv
<1>12. apc = "defer" => /\ Before(<<hand>>, readq'[achan])
                        /\ \A x \in Ent : echan[x] = achan => Before(deferred[x], <<hand>>)
  BY <1>6, <1>10 DEF OrderInv, FrameInv, FramePlace
<1> QED
  BY <1>2, <1>11, <1>12 DEF OrderInv, InOrder, NewestFirst, Before

(* When every channel is used by one caller, its frames to be saved are in *)
(* the read queue in the order in which they were queued, however many     *)
(* went through deferred_frames, and even if some could not be copied.     *)
THEOREM FramesInOrder ==
  ASSUME OneOwner
  PROVE  Spec => []ReadqInOrder
<1>1. Init => EntryInv /\ UseInv /\ OwnInv /\ FrameInv /\ OrderInv
  BY EntryInvInit, UseInvInit, OwnInvInit, FrameInvInit, OrderInvInit
<1>2. /\ EntryInv /\ UseInv /\ OwnInv /\ FrameInv /\ OrderInv
      /\ [Next]_vars
      => EntryInv' /\ UseInv' /\ OwnInv' /\ FrameInv' /\ OrderInv'
  <2> SUFFICES ASSUME EntryInv, UseInv, OwnInv, FrameInv, OrderInv, [Next]_vars
               PROVE  OrderInv'
    BY EntryInvNext, UseInvNext, OwnInvNext, FrameInvNext
  <2>1. ASSUME Unmoved PROVE OrderInv'
    BY <2>1, OrderFrame DEF Unmoved
  <2>2. CASE UNCHANGED vars
    BY <2>1, <2>2 DEF vars, listVars, threadVars, chanVars, Unmoved
  <2>3. ASSUME NEW t \in Callers, StartInsert(t) PROVE OrderInv'
    BY <2>3, InsertFrameInv, OrderFrame
  <2>4. ASSUME NEW t \in Callers, CallerStep(t) PROVE OrderInv'
    BY <2>1, <2>3, <2>4, QuietFrameInv, RemoveFrameInv, RestoreOrder DEF CallerStep
  <2>5. ASSUME ThreadLock \/ ThreadAwake \/ ThreadWait PROVE OrderInv'
    BY <2>5, TurnFrameInv, OrderFrame
  <2>6. CASE ThreadStep
    BY <2>5, <2>6, ReadOrder, DeferOrder DEF ThreadStep
  <2> QED
    BY <2>2, <2>4, <2>6, ChannelOrder DEF Next
<1>3. OrderInv => ReadqInOrder
  BY DEF OrderInv, ReadqInOrder
<1> QED
  BY <1>1, <1>2, <1>3, PTL DEF Spec

-----------------------------------------------------------------------------
(* All variables keep their types *)

CountType ==
  /\ counter \in 0 .. StateMod - 1
  /\ csaved \in [Callers -> 0 .. StateMod - 1]
  /\ freed \in SUBSET Ent

LEMMA CountTypeNext == EntryInv /\ CountType /\ [Next]_vars => CountType'
<1> SUFFICES ASSUME EntryInv, CountType, [Next]_vars PROVE CountType'
  OBVIOUS
<1> USE DEF CountType
<1>1. CASE UNCHANGED vars
  BY <1>1 DEF vars, listVars, callerVars
<1>2. ASSUME NEW t \in Callers, CallerStep(t) PROVE CountType'
  <2>1. CASE StopRemove(t)
    BY <2>1 DEF StopRemove
  <2>2. CASE StopRestore(t)
    <3>1. cent[t] \in Ent
      BY <2>2 DEF StopRestore, EntryInv, EntryPlace, Stopping
    <3> QED
      BY <2>2, <3>1 DEF StopRestore
  <2>3. ASSUME UNCHANGED <<counter, csaved, freed>> PROVE CountType'
    BY <2>3
  <2> QED
    BY <1>2, <2>1, <2>2, <2>3 DEF CallerStep, StartExisting, StartNew, StartFlag,
       StartInsert, StartFails, StopNested, StopPoll, listVars, callerVars
<1>3. CASE ThreadStep
  <2>1. UNCHANGED <<csaved, freed>>
    BY <1>3 DEF ThreadStep, ThreadLock, ThreadAwake, ThreadWait, ThreadRead,
       ThreadDefer, ThreadUnchanged, callerVars
  <2>2. counter' = counter \/ counter' = Turn(counter)
    BY <1>3 DEF ThreadStep, ThreadLock, ThreadAwake, ThreadWait, ThreadRead,
       ThreadDefer
  <2>3. Turn(counter) \in 0 .. StateMod - 1
    <3>1. \A m, n \in Nat : n > 0 => m % n \in 0 .. n - 1
      OBVIOUS
    <3> QED
      BY <3>1, ASConstants DEF Turn
  <2> QED
    BY <2>1, <2>2, <2>3
<1>4. ASSUME NEW c \in Chans, ChannelStep(c) PROVE CountType'
  BY <1>4 DEF ChannelStep, DriverQueue, DriverHangup, SoftHangup, ChannelUnchanged,
     listVars, callerVars
<1> QED
  BY <1>1, <1>2, <1>3, <1>4 DEF Next

(* The type invariant: whatever the interleaving and whatever fails, the   *)
(* counter stays below the number at which it wraps, use counts do not     *)
(* become negative, and what is queued and deferred are frames.            *)
THEOREM AutoServiceTypesHold == Spec => []TypeOK
<1>1. Init => EntryInv /\ UseInv /\ FlagInv /\ FrameInv /\ CountType
  <2>1. Init => CountType
    BY ASConstants DEF Init, CountType
  <2> QED
    BY <2>1, EntryInvInit, UseInvInit, FlagInvInit, FrameInvInit
<1>2. EntryInv /\ UseInv /\ FlagInv /\ FrameInv /\ CountType /\ [Next]_vars
        => EntryInv' /\ UseInv' /\ FlagInv' /\ FrameInv' /\ CountType'
  BY EntryInvNext, UseInvNext, FlagInvNext, FrameInvNext, CountTypeNext
<1>3. EntryInv /\ UseInv /\ FlagInv /\ FrameInv /\ CountType => TypeOK
  <2> SUFFICES ASSUME EntryInv, UseInv, FlagInv, FrameInv, CountType PROVE TypeOK
    OBVIOUS
  <2>1. \A c \in Chans : sent[c] \in SUBSET (1 .. MaxFrame)
    BY ASConstants DEF FrameInv, FrameType
  <2>2. sent \in [Chans -> SUBSET (1 .. MaxFrame)]
    BY <2>1 DEF FrameInv, FrameType
  <2> QED
    BY <2>2 DEF EntryInv, EntType, UseInv, UseType, FlagInv, FlagType, FrameInv,
       FrameType, CountType, TypeOK
<1> QED
  BY <1>1, <1>2, <1>3, PTL DEF Spec

=============================================================================
