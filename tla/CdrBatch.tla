------------------------------ MODULE CdrBatch ------------------------------
(***************************************************************************)
(* Call detail records in batch mode (main/cdr.c): threads of channels     *)
(* detach records; a thread of its own runs a scheduler whose one event    *)
(* submits the batch and schedules itself again; a reload reads the        *)
(* configuration anew and starts or cancels that thread; a shutdown        *)
(* submits what is left.                                                   *)
(*                                                                         *)
(* The scheduler is that of module Sched, reduced to its pending events.   *)
(* Time passes freely: any event may turn out to be due, and any wait may  *)
(* time out.  A step is what a thread does under one lock, or between two  *)
(* accesses to what it shares without one.                                 *)
(***************************************************************************)
EXTENDS Integers, Sequences, FiniteSets, SequencesExt

CONSTANTS
  Channels,      \* threads that detach records
  Consoles,      \* threads that run the CLI command "cdr submit"
  CdrThread,     \* do_cdr
  Reloader,      \* the thread in do_reload, of which reloadlock admits one
  Quitter,       \* the thread in quit_handler
  Modes,         \* configurations that cdr.conf may hold
  DefaultSize,   \* BATCH_SIZE_DEFAULT
  Attempts,      \* how often TRIS_SCHED_DEL tries (10 in C)
  Lacking,       \* whether memory and posting threads may be lacking
  MaxCdrs,       \* bound: records detached
  MaxAsked,      \* bound: uses of the CLI command, loads and shutdowns
  EventIds,      \* bound: ids of events that are known somewhere
  NoEvent,       \* -1
  Nobody,        \* no thread
  Cancelled      \* the lock of a thread that was cancelled

Submitters == Channels \cup Consoles
Threads    == Submitters \cup {CdrThread, Reloader, Quitter}
Cdrs       == 1 .. MaxCdrs
Configs    == [enabled : BOOLEAN, batchmode : BOOLEAN, size : Nat,
               scheduleronly : BOOLEAN, safe : BOOLEAN]

ASSUME CdrConstants ==
  /\ Modes \subseteq Configs
  /\ Lacking \in BOOLEAN
  /\ {DefaultSize, MaxCdrs, MaxAsked} \subseteq Nat
  /\ Attempts \in Nat \ {0}
  /\ EventIds \subseteq Nat /\ NoEvent \notin EventIds
  /\ Cardinality({CdrThread, Reloader, Quitter}) = 3
  /\ Submitters \cap {CdrThread, Reloader, Quitter} = {}
  /\ IsFiniteSet(Submitters)
  /\ Channels \cap Consoles = {}
  /\ {Nobody, Cancelled} \cap Threads = {} /\ Nobody # Cancelled

VARIABLES
  cfg,        \* enabled, batchmode, batchsize, batchscheduleronly, ...
  was,        \* was_enabled and was_batchmode of the reload
  batch,      \* batch->head: the records in the batch
  size,       \* batch->size
  batchlock,  \* who holds cdr_batch_lock between two steps
  pendlock,   \* who holds cdr_pending_lock
  events,     \* what is in the scheduler: ids, to run soon, later or now
  cdrsched,   \* cdr_sched
  exists,     \* cdr_thread is not TRIS_PTHREADT_NULL
  cancelled,  \* pthread_cancel was called for it
  sleep,      \* how long it is going to wait, or waits
  signalled,  \* cdr_pending_cond was signalled while it waited
  pc,         \* where each thread is
  hand,       \* the records it works on
  curr,       \* of a channel that has enlisted a record: the size before
  newid,      \* what tris_sched_add returned and cdr_sched does not have yet
  attempts,   \* _count of TRIS_SCHED_DEL
  posters,    \* detached threads that post, by the records they have left
  quitsafe,   \* the argument of the submission that quit_handler makes
  terms,      \* how many it has made
  ndetached, nreloads, nasked,  \* so far
  posted,     \* history: how often each record was posted
  dropped,    \* history: records thrown away because records are disabled
  lost        \* history: records in the hands of the thread when cancelled

cfgVars   == <<cfg, was, nreloads>>
batchVars == <<batch, size>>
lockVars  == <<batchlock, pendlock>>
schedVars == <<events, cdrsched, newid, attempts>>
thrVars   == <<exists, cancelled, sleep, signalled>>
workVars  == <<hand, curr, posters>>
quitVars  == <<quitsafe, terms>>
fateVars  == <<posted, dropped, lost>>
sharedVars == <<cfgVars, batchVars, lockVars, schedVars, thrVars>>
bookVars   == <<quitVars, ndetached, nasked, fateVars>>
cdrVars == <<sharedVars, pc, workVars, bookVars>>

Places == {"idle", "mode", "append", "full", "post", "del", "clear", "add",
           "assign", "signal", "none", "plan", "lock", "wait", "runq", "check",
           "take", "spawn", "dead", "config", "decide", "join", "unlock",
           "hangup", "exit", "gone"}

CdrTypeOK ==
  /\ cfg \in Configs
  /\ was \in [enabled : BOOLEAN, batchmode : BOOLEAN]
  /\ batch \in Seq(Cdrs) /\ size \in Nat
  /\ batchlock \in {Nobody, Reloader}
  /\ pendlock \in {Nobody, CdrThread, Cancelled}
  /\ events \in SUBSET [id : EventIds, due : {"soon", "later", "now"}]
  /\ cdrsched \in EventIds \cup {NoEvent}
  /\ exists \in BOOLEAN /\ cancelled \in BOOLEAN /\ signalled \in BOOLEAN
  /\ sleep \in {"soon", "second", "later"}
  /\ pc \in [Threads -> Places]
  /\ hand \in [Threads -> Seq(Cdrs)]
  /\ curr \in [Channels -> Nat]
  /\ newid \in [Threads -> EventIds \cup {NoEvent}]
  /\ attempts \in [Threads -> 0 .. Attempts]
  /\ posters \in SUBSET Seq(Cdrs)
  /\ quitsafe \in BOOLEAN /\ terms \in 0 .. 2
  /\ posted \in [Cdrs -> Nat]
  /\ dropped \in SUBSET Cdrs /\ lost \in SUBSET Cdrs

CdrInit ==
  /\ cfg = [enabled |-> FALSE, batchmode |-> FALSE, size |-> 0,
            scheduleronly |-> FALSE, safe |-> FALSE]
  /\ was = [enabled |-> FALSE, batchmode |-> FALSE]
  /\ batch = <<>> /\ size = 0
  /\ batchlock = Nobody /\ pendlock = Nobody
  /\ events = {} /\ cdrsched = NoEvent
  /\ exists = FALSE /\ cancelled = FALSE /\ signalled = FALSE
  /\ sleep = "second"
  /\ pc = [t \in Threads |-> IF t = CdrThread THEN "none" ELSE "idle"]
  /\ hand = [t \in Threads |-> <<>>]
  /\ curr = [c \in Channels |-> 0]
  /\ newid = [t \in Threads |-> NoEvent]
  /\ attempts = [t \in Threads |-> 0]
  /\ posters = {}
  /\ quitsafe = FALSE /\ terms = 0
  /\ ndetached = 0 /\ nreloads = 0 /\ nasked = 0
  /\ posted = [n \in Cdrs |-> 0]
  /\ dropped = {} /\ lost = {}

-----------------------------------------------------------------------------
(* Helpers *)

Goto(t, place) == pc' = [pc EXCEPT ![t] = place]

(* The CLI, a reload or a shutdown comes between. *)
Ask == nasked < MaxAsked /\ nasked' = nasked + 1

(* tris_cdr_engine_init has loaded the configuration. *)
Loaded == nreloads > 1 \/ (nreloads = 1 /\ pc[Reloader] = "idle")

(* An id that nothing refers to, as eventcnt yields. *)
FreshId ==
  LET known == {e.id : e \in events} \cup {cdrsched}
                 \cup {newid[t] : t \in Threads}
      free  == EventIds \ known
  IN  CHOOSE i \in free : \A j \in free : i <= j

(* mutant: the callback does not schedule itself again *)
BackUnscheduled(t) ==
  CASE t \in Channels   -> "idle"
    [] t = CdrThread    -> "runq"
    [] t = Reloader     -> "unlock"
    [] t = Quitter      -> IF terms = 1 THEN "hangup" ELSE "exit"

(* Where a thread goes on when tris_cdr_submit_batch, or its posting of    *)
(* records, returns.                                                       *)
Back(t) ==
  CASE t \in Channels   -> "idle"
    [] t = CdrThread    -> "add"
    [] t = Reloader     -> "unlock"
    [] t = Quitter      -> IF terms = 1 THEN "hangup" ELSE "exit"

-----------------------------------------------------------------------------
(* tris_cdr_detach *)

(* A record is dropped when records are disabled. *)
Detach(c) ==
  /\ Loaded
  /\ pc[c] = "idle" /\ ndetached < MaxCdrs
  /\ ndetached' = ndetached + 1
  /\ IF cfg.enabled
       THEN /\ hand' = [hand EXCEPT ![c] = <<ndetached + 1>>]
            /\ Goto(c, "mode")
            /\ UNCHANGED dropped
       ELSE /\ dropped' = dropped \cup {ndetached + 1}
            /\ UNCHANGED <<pc, hand>>
  /\ UNCHANGED <<sharedVars, curr, posters, quitVars, nasked, posted, lost>>

(* Without batch mode, or without memory for an entry of the batch, the    *)
(* channel posts its record itself.                                        *)
Mode(c) ==
  /\ pc[c] = "mode"
  /\ \/ cfg.batchmode /\ Goto(c, "append")
     \/ (~cfg.batchmode \/ Lacking) /\ Goto(c, "post")
  /\ UNCHANGED <<sharedVars, workVars, bookVars>>

Enlist(c) ==
  /\ pc[c] = "append"
  /\ batchlock = Nobody
  /\ batch' = batch \o hand[c]
  /\ size' = size + 1
  /\ curr' = [curr EXCEPT ![c] = size]
  /\ hand' = [hand EXCEPT ![c] = <<>>]
  /\ Goto(c, "full")
  /\ UNCHANGED <<cfgVars, lockVars, schedVars, thrVars, posters, bookVars>>

(* mutant: the batch is submitted one record late *)
FullLate(c) ==
  /\ pc[c] = "full"
  /\ Goto(c, IF curr[c] >= cfg.size THEN "del" ELSE "idle")
  /\ curr' = [curr EXCEPT ![c] = 0]
  /\ UNCHANGED <<sharedVars, hand, posters, bookVars>>

(* The batch has batchsize records: submit_unscheduled_batch. *)
Full(c) ==
  /\ pc[c] = "full"
  /\ Goto(c, IF curr[c] >= cfg.size - 1 THEN "del" ELSE "idle")
  /\ curr' = [curr EXCEPT ![c] = 0]
  /\ UNCHANGED <<sharedVars, hand, posters, bookVars>>

(* The CLI command exists while the thread does. *)
CliSubmit(t) ==
  /\ Loaded /\ exists
  /\ pc[t] = "idle"
  /\ Ask
  /\ Goto(t, "del")
  /\ UNCHANGED <<sharedVars, workVars, quitVars, ndetached, fateVars>>

-----------------------------------------------------------------------------
(* TRIS_SCHED_DEL of cdr_sched and tris_sched_add: each looks at cdr_sched *)
(* without a lock.                                                         *)

(* One attempt to delete.  It fails for an event that runs or has run.     *)
Delete(t) ==
  /\ pc[t] = "del"
  /\ LET named == {e \in events : e.id = cdrsched}
         again == cdrsched # NoEvent /\ named = {} /\ attempts[t] + 1 < Attempts
     IN  /\ events' = events \ named
         /\ attempts' = [attempts EXCEPT ![t] = IF again THEN @ + 1 ELSE 0]
         /\ Goto(t, IF again THEN "del" ELSE "clear")
  /\ UNCHANGED <<cfgVars, batchVars, lockVars, cdrsched, newid, thrVars,
                 workVars, bookVars>>

(* id = -1 *)
Clear(t) ==
  /\ pc[t] = "clear"
  /\ cdrsched' = NoEvent
  /\ Goto(t, IF t = Reloader THEN "config" ELSE "add")
  /\ UNCHANGED <<cfgVars, batchVars, lockVars, events, newid, attempts, thrVars,
                 workVars, bookVars>>

(* tris_sched_add: 1 ms for who has filled the batch, batchtime otherwise. *)
AddSubmission(t) ==
  /\ pc[t] = "add"
  /\ LET id  == FreshId
         due == IF t \in Submitters THEN "soon" ELSE "later"
     IN  /\ events' = events \cup {[id |-> id, due |-> due]}
         /\ newid' = [newid EXCEPT ![t] = id]
  /\ Goto(t, "assign")
  /\ UNCHANGED <<cfgVars, batchVars, lockVars, cdrsched, attempts, thrVars,
                 workVars, bookVars>>

(* cdr_sched = the id *)
Assign(t) ==
  /\ pc[t] = "assign"
  /\ cdrsched' = newid[t]
  /\ newid' = [newid EXCEPT ![t] = NoEvent]
  /\ Goto(t, CASE t = CdrThread -> "runq"
               [] t = Reloader  -> "decide"
               [] OTHER         -> "signal")
  /\ UNCHANGED <<cfgVars, batchVars, lockVars, events, attempts, thrVars,
                 workVars, bookVars>>

(* Signal the thread, with cdr_pending_lock. *)
SignalThread(t) ==
  /\ pc[t] = "signal"
  /\ pendlock = Nobody
  /\ signalled' = (signalled \/ pc[CdrThread] = "wait")
  /\ Goto(t, "idle")
  /\ UNCHANGED <<cfgVars, batchVars, lockVars, schedVars, exists, cancelled,
                 sleep, workVars, bookVars>>

-----------------------------------------------------------------------------
(* tris_cdr_submit_batch, in the thread, a reload and a shutdown *)

(* Without the lock: there is nothing to submit. *)
CheckBatch(t) ==
  /\ pc[t] = "check"
  /\ Goto(t, IF batch = <<>> THEN Back(t) ELSE "take")
  /\ UNCHANGED <<sharedVars, workVars, bookVars>>

(* mutant: the batch is not reset *)
TakeBatchKept(t) ==
  /\ pc[t] = "take"
  /\ batchlock \in {Nobody, t}
  /\ hand' = [hand EXCEPT ![t] = batch]
  /\ Goto(t, "spawn")
  /\ UNCHANGED <<sharedVars, curr, posters, bookVars>>

(* The lock is recursive: a reload that submits has it already. *)
TakeBatch(t) ==
  /\ pc[t] = "take"
  /\ batchlock \in {Nobody, t}
  /\ hand' = [hand EXCEPT ![t] = batch]
  /\ batch' = <<>> /\ size' = 0
  /\ Goto(t, "spawn")
  /\ UNCHANGED <<cfgVars, lockVars, schedVars, thrVars, curr, posters,
                 bookVars>>

(* do_shutdown *)
Blocking(t) ==
  CASE t = CdrThread -> FALSE
    [] t = Reloader  -> cfg.safe
    [] t = Quitter   -> quitsafe

(* Post in this thread, or in a detached one if there can be one. *)
PostHere(t) ==
  /\ pc[t] = "spawn"
  /\ cfg.scheduleronly \/ Blocking(t) \/ Lacking
  /\ Goto(t, IF hand[t] = <<>> THEN Back(t) ELSE "post")
  /\ UNCHANGED <<sharedVars, workVars, bookVars>>

Spawn(t) ==
  /\ pc[t] = "spawn"
  /\ ~cfg.scheduleronly /\ ~Blocking(t)
  /\ posters' = posters \cup ({hand[t]} \ {<<>>})
  /\ hand' = [hand EXCEPT ![t] = <<>>]
  /\ Goto(t, Back(t))
  /\ UNCHANGED <<sharedVars, curr, bookVars>>

(* post_cdr and tris_cdr_free of one record, in whichever thread has it.   *)
Post(t) ==
  /\ pc[t] = "post"
  /\ posted' = [posted EXCEPT ![Head(hand[t])] = @ + 1]
  /\ hand' = [hand EXCEPT ![t] = Tail(@)]
  /\ Goto(t, IF Len(hand[t]) = 1 THEN Back(t) ELSE "post")
  /\ UNCHANGED <<sharedVars, curr, posters, quitVars, ndetached, nasked,
                 dropped, lost>>

(* do_batch_backend_process in a detached thread *)
PosterStep(p) ==
  /\ posted' = [posted EXCEPT ![Head(p)] = @ + 1]
  /\ posters' = (posters \ {p}) \cup ({Tail(p)} \ {<<>>})
  /\ UNCHANGED <<sharedVars, pc, hand, curr, quitVars, ndetached, nasked,
                 dropped, lost>>

-----------------------------------------------------------------------------
(* do_cdr *)

(* How long to wait.  tris_sched_wait returns 0 for an event that is due   *)
(* within the millisecond, and -1 without one: both become a second.       *)
Plan ==
  /\ pc[CdrThread] = "plan"
  /\ sleep' \in {"second"} \cup {e.due : e \in
       IF \E e \in events : e.due = "soon"
         THEN {e \in events : e.due = "soon"} ELSE events}
  /\ Goto(CdrThread, "lock")
  /\ UNCHANGED <<cfgVars, batchVars, lockVars, schedVars, exists, cancelled,
                 signalled, workVars, bookVars>>

(* Take cdr_pending_lock, and release it to wait. *)
Wait ==
  /\ pc[CdrThread] = "lock" /\ ~cancelled
  /\ pendlock = Nobody
  /\ signalled' = FALSE
  /\ Goto(CdrThread, "wait")
  /\ UNCHANGED <<cfgVars, batchVars, lockVars, schedVars, exists, cancelled,
                 sleep, workVars, bookVars>>

(* Signalled or timed out, the thread has the lock again, until            *)
(* tris_sched_runq returns, which runs what is due when it is called.      *)
Awake(due) ==
  /\ pc[CdrThread] = "wait"
  /\ pendlock = Nobody
  /\ pendlock' = CdrThread
  /\ events' = (events \ due) \cup {[e EXCEPT !.due = "now"] : e \in due}
  /\ sleep' = "second" /\ signalled' = FALSE
  /\ Goto(CdrThread, "runq")
  /\ UNCHANGED <<cfgVars, batchVars, batchlock, cdrsched, newid, attempts,
                 exists, cancelled, workVars, bookVars>>

Wake == \E due \in SUBSET events : Awake(due)

(* It calls submit_scheduled_batch. *)
RunEvent ==
  /\ pc[CdrThread] = "runq"
  /\ \E e \in events : e.due = "now" /\ events' = events \ {e}
  /\ Goto(CdrThread, "check")
  /\ UNCHANGED <<cfgVars, batchVars, lockVars, cdrsched, newid, attempts,
                 thrVars, workVars, bookVars>>

EndRunq ==
  /\ pc[CdrThread] = "runq"
  /\ \A e \in events : e.due # "now"
  /\ pendlock' = Nobody
  /\ Goto(CdrThread, "plan")
  /\ UNCHANGED <<cfgVars, batchVars, batchlock, schedVars, thrVars, workVars,
                 bookVars>>

(* pthread_cancel acts in pthread_cond_timedwait, when it is called or     *)
(* while it waits, which takes the lock again first; and it may act in the *)
(* output of a backend, which the thread calls with that lock.  Nothing    *)
(* releases it, and what was found due stays in the scheduler.             *)
CancelInWait ==
  /\ cancelled
  /\ pc[CdrThread] \in {"lock", "wait"}
  /\ pendlock = Nobody
  /\ pendlock' = Cancelled
  /\ sleep' = "second" /\ signalled' = FALSE
  /\ Goto(CdrThread, "dead")
  /\ UNCHANGED <<cfgVars, batchVars, batchlock, schedVars, exists, cancelled,
                 workVars, bookVars>>

CancelInPost ==
  /\ cancelled
  /\ pc[CdrThread] = "post"
  /\ lost' = lost \cup ToSet(hand[CdrThread])
  /\ hand' = [hand EXCEPT ![CdrThread] = <<>>]
  /\ pendlock' = Cancelled
  /\ events' = {[e EXCEPT !.due = IF @ = "now" THEN "soon" ELSE @] :
                 e \in events}
  /\ Goto(CdrThread, "dead")
  /\ UNCHANGED <<cfgVars, batchVars, batchlock, cdrsched, newid, attempts,
                 thrVars, curr, posters, quitVars, ndetached, nasked, posted,
                 dropped>>

-----------------------------------------------------------------------------
(* do_reload, with cdr_batch_lock from its first step to its last *)

Reload ==
  /\ pc[Reloader] = "idle"
  /\ Ask
  /\ batchlock = Nobody
  /\ batchlock' = Reloader
  /\ nreloads' = nreloads + 1
  /\ was' = [enabled |-> cfg.enabled, batchmode |-> cfg.batchmode]
  /\ cfg' = [enabled |-> TRUE, batchmode |-> FALSE, size |-> DefaultSize,
             scheduleronly |-> FALSE, safe |-> TRUE]
  /\ Goto(Reloader, "del")
  /\ UNCHANGED <<batchVars, pendlock, schedVars, thrVars, workVars,
                 quitVars, ndetached, fateVars>>

ReadConfig ==
  /\ pc[Reloader] = "config"
  /\ cfg' \in Modes
  /\ Goto(Reloader, IF cfg'.enabled /\ cfg'.batchmode THEN "add" ELSE "decide")
  /\ UNCHANGED <<was, nreloads, batchVars, lockVars, schedVars, thrVars,
                 workVars, bookVars>>

TurnedOn == /\ cfg.enabled /\ cfg.batchmode
            /\ ~was.enabled \/ ~was.batchmode

TurnedOff == \/ ~cfg.enabled /\ was.enabled
             \/ ~cfg.batchmode /\ was.batchmode

(* Create the thread, cancel it, or neither. *)
Decide ==
  /\ pc[Reloader] = "decide"
  /\ CASE TurnedOn /\ ~exists ->
            /\ exists' = TRUE /\ UNCHANGED cancelled
            /\ pc' = [pc EXCEPT ![Reloader] = "unlock", ![CdrThread] = "plan"]
       [] TurnedOff /\ exists ->
            /\ cancelled' = TRUE /\ UNCHANGED exists
            /\ Goto(Reloader, "join")
       [] OTHER ->
            /\ Goto(Reloader, "unlock")
            /\ UNCHANGED <<exists, cancelled>>
  /\ UNCHANGED <<cfgVars, batchVars, lockVars, schedVars, sleep, signalled,
                 workVars, bookVars>>

(* pthread_join returned.  Who leaves batch mode posts the batch. *)
Join ==
  /\ pc[Reloader] = "join"
  /\ pc[CdrThread] = "dead"
  /\ exists' = FALSE /\ cancelled' = FALSE
  /\ pc' = [pc EXCEPT ![CdrThread] = "none",
              ![Reloader] = IF ~cfg.batchmode /\ was.batchmode THEN "check"
                            ELSE "unlock"]
  /\ UNCHANGED <<cfgVars, batchVars, lockVars, schedVars, sleep, signalled,
                 workVars, bookVars>>

UnlockReload ==
  /\ pc[Reloader] = "unlock"
  /\ batchlock' = Nobody
  /\ was' = [enabled |-> FALSE, batchmode |-> FALSE]
  /\ Goto(Reloader, "idle")
  /\ UNCHANGED <<cfg, nreloads, batchVars, pendlock, schedVars, thrVars,
                 workVars, bookVars>>

-----------------------------------------------------------------------------
(* quit_handler *)

(* tris_cdr_engine_term, the first time before channels are hung up, the   *)
(* second time, if it is registered for exit, after they have had time.    *)
Terminate ==
  /\ quitsafe' = cfg.safe
  /\ terms' = terms + 1
  /\ Goto(Quitter, "check")

Quit ==
  /\ Loaded
  /\ pc[Quitter] = "idle"
  /\ Ask
  /\ Terminate
  /\ UNCHANGED <<sharedVars, workVars, ndetached, fateVars>>

(* The shutdown is cancelled. *)
QuitCancelled ==
  /\ pc[Quitter] = "hangup"
  /\ terms' = 0
  /\ Goto(Quitter, "idle")
  /\ UNCHANGED <<sharedVars, workVars, quitsafe, ndetached, nasked,
                 fateVars>>

AtExit ==
  /\ pc[Quitter] = "hangup"
  /\ IF exists THEN Terminate
     ELSE Goto(Quitter, "exit") /\ UNCHANGED <<quitsafe, terms>>
  /\ UNCHANGED <<sharedVars, workVars, ndetached, nasked, fateVars>>

Exit ==
  /\ pc[Quitter] = "exit"
  /\ Goto(Quitter, "gone")
  /\ UNCHANGED <<sharedVars, workVars, bookVars>>

-----------------------------------------------------------------------------
Scheduling(t) ==
  \/ Delete(t) \/ Clear(t) \/ AddSubmission(t) \/ Assign(t)
  \/ SignalThread(t)
Submission(t) ==
  \/ CheckBatch(t) \/ TakeBatch(t) \/ PostHere(t) \/ Spawn(t)
  \/ Post(t)

ChannelStep(c) ==
  Mode(c) \/ Enlist(c) \/ Full(c) \/ Post(c) \/ Scheduling(c)
CdrStep ==
  \/ Plan \/ Wait \/ Wake \/ RunEvent \/ EndRunq
  \/ CancelInWait \/ CancelInPost
  \/ Submission(CdrThread) \/ AddSubmission(CdrThread) \/ Assign(CdrThread)
ReloadStep ==
  \/ ReadConfig \/ Decide \/ Join \/ UnlockReload
  \/ Delete(Reloader) \/ Clear(Reloader) \/ AddSubmission(Reloader)
  \/ Assign(Reloader)
  \/ Submission(Reloader)
QuitStep == AtExit \/ Exit \/ Submission(Quitter)

CdrNext ==
  /\ pc[Quitter] # "gone"
  /\ \/ \E c \in Channels : Detach(c) \/ ChannelStep(c)
     \/ \E t \in Consoles : CliSubmit(t) \/ Scheduling(t)
     \/ CdrStep
     \/ \E p \in posters : PosterStep(p)
     \/ Reload \/ ReloadStep
     \/ Quit \/ QuitCancelled \/ QuitStep

(* Threads run, and time passes: a thread that keeps waking while there    *)
(* are events wakes some time when one is due.  It releases                *)
(* cdr_pending_lock while it waits, so whoever signals gets that lock.     *)
CdrFairness ==
  /\ \A c \in Channels :
       WF_cdrVars(ChannelStep(c)) /\ SF_cdrVars(SignalThread(c))
  /\ \A t \in Consoles :
       WF_cdrVars(Scheduling(t)) /\ SF_cdrVars(SignalThread(t))
  /\ WF_cdrVars(CdrStep)
  /\ SF_cdrVars(\E due \in SUBSET events \ {{}} : Awake(due))
  /\ WF_cdrVars(\E p \in posters : PosterStep(p))
  /\ WF_cdrVars(ReloadStep)
  /\ WF_cdrVars(Submission(Quitter) \/ Exit)

CdrSpec     == CdrInit /\ [][CdrNext]_cdrVars
CdrLiveSpec == CdrSpec /\ CdrFairness

-----------------------------------------------------------------------------
(* Properties *)

(* Where record n is: how many lists hold it, and how often it was posted, *)
(* dropped or lost.                                                        *)
Occurrences(n) ==
  LET In(s) == Cardinality({k \in DOMAIN s : s[k] = n}) IN
  In(batch) + posted[n]
    + FoldSet(LAMBDA t, total : total + In(hand[t]), 0, Threads)
    + FoldSet(LAMBDA p, total : total + In(p), 0, posters)
    + Cardinality({s \in {dropped, lost} : n \in s})

(* A record that was detached is in one place: it is neither forgotten nor *)
(* posted twice, whoever takes the batch, unless the thread is cancelled   *)
(* with it in its hands.                                                   *)
RecordInOnePlace ==
  \A n \in Cdrs : Occurrences(n) = IF n <= ndetached THEN 1 ELSE 0

(* A batch that is full has an event that is to run at once, or somebody   *)
(* who is about to add one or to take the batch ("if we have enough stuff  *)
(* to post, then do it"), until a reload deletes that event.               *)
FullBatchAnnounced ==
  Loaded /\ nreloads = 1 /\ cfg.batchmode /\ batch # <<>>
    /\ Len(batch) >= cfg.size =>
    \/ \E e \in events : e.due \in {"soon", "now"}
    \/ \E t \in Submitters : pc[t] \in {"full", "del", "clear", "add"}
    \/ pc[CdrThread] \in {"check", "take"}

(* Whatever a load has changed, there is a thread when records go to the   *)
(* batch and only then; and while it lives the chain of its events does    *)
(* not end: there is an event, or somebody who has deleted one and adds    *)
(* one, or the thread is in the callback that adds the next, or a reload   *)
(* is about to end it.  That an event is also run, and the batch posted,   *)
(* is not said: the thread may wait for a lock, see ThreadWaits.           *)
BatchServed ==
  /\ pc[Reloader] = "idle" => (exists <=> cfg.enabled /\ cfg.batchmode)
  /\ exists /\ ~cancelled =>
       \/ events # {}
       \/ \E t \in Threads : pc[t] \in {"clear", "config", "add"}
       \/ pc[CdrThread] \in {"check", "take", "spawn", "post", "add"}
       \/ pc[Reloader] = "decide" /\ TurnedOff

(* Every record is posted in the end, as long as there is no reload. *)
RecordsPosted ==
  \A n \in Cdrs : n <= ndetached ~> posted[n] > 0 \/ n \in dropped

(* A channel that detaches a record comes back ("Prevents the channel      *)
(* thread from blocking on the CDR handling").                             *)
DetachReturns == \A c \in Channels : pc[c] # "idle" ~> pc[c] = "idle"

-----------------------------------------------------------------------------
(* What comments promise and the code does not keep *)

(* "wake up the thread so it will exit": a reload that cancels the thread  *)
(* sees it end.                                                            *)
ThreadExits == pc[Reloader] = "join" ~> pc[Reloader] # "join"

(* "then wait on signals sent to it until the timeout expires": a thread   *)
(* that is there comes to wait.                                            *)
ThreadWaits == pc[CdrThread] = "lock" ~> pc[CdrThread] # "lock"

(* "schedule the submission to occur ASAP (1 ms)", "signal the do_cdr      *)
(* thread to wakeup early": the thread does not sleep longer while an      *)
(* event is to run at once and nobody is about to signal.                  *)
WakesEarly ==
  pc[CdrThread] = "wait" /\ ~signalled /\ (\E e \in events : e.due = "soon") =>
    sleep = "soon" \/ \E t \in Submitters : pc[t] \in {"assign", "signal"}

(* "Blocks the trismedia shutdown procedures until the CDR data is         *)
(* submitted": a shutdown that is to be safe leaves no record unposted     *)
(* that was taken from the batch.                                          *)
SafeShutdown == pc[Quitter] = "gone" /\ quitsafe => posters = {}

(* "this is okay since we are not being called from within the scheduler": *)
(* when nobody is about to change it, one event is pending.                *)
OneSubmission ==
  exists /\ (\A t \in Threads : pc[t] \in {"idle", "plan", "lock", "wait"}) =>
    Cardinality(events) = 1
=============================================================================
