---------------------------- MODULE Iax2Transport ----------------------------
(***************************************************************************)
(* The full frames of an IAX2 call in channels/chan_iax2.c: sequence       *)
(* numbers of a byte, the queue of frames that wait for their              *)
(* acknowledgement, retransmission, ACK and VNAK.  All frames are frames   *)
(* of the call that are delivered to its owner; the call has been set up,  *)
(* both ends have sent First frames, and all these have been acknowledged. *)
(*                                                                         *)
(* The network loses, doubles and reorders datagrams: one that has been    *)
(* sent may arrive at any time, any number of times, or never.             *)
(*                                                                         *)
(* A step is what a thread does with iaxsl[callno] held.  A frame is known *)
(* by its number n, counted from 1 without wrapping; the program only sees *)
(* Seqno(n).  sent and got, which do not wrap either, are there for the    *)
(* properties.                                                             *)
(***************************************************************************)
EXTENDS Integers, FiniteSets

CONSTANTS
  Ends,       \* the two ends of the call
  Peer,       \* the other end
  First,      \* the sequence number of the first frame
  MaxRetries, \* max_retries, 4 in the code
  MaxFrames   \* bound: frames sent by each end

ASSUME TransportConstants ==
  /\ IsFiniteSet(Ends)
  /\ Peer \in [Ends -> Ends] /\ \A e \in Ends : Peer[e] # e /\ Peer[Peer[e]] = e
  /\ First \in 0 .. 255
  /\ MaxRetries \in Nat \ {0}
  /\ MaxFrames \in [Ends -> Nat]

SeqMod   == 256                            \* unsigned char
Seqno(n) == (First + n - 1) % SeqMod
\* Mutant: the distance from the wrong end.
BeforeSwapped(a, b) == (a - b) % SeqMod < 128

Before(a, b) == (b - a) % SeqMod < 128     \* (unsigned char) (b - a) < 128

VARIABLES
  oseqno,   \* next sequence number to send
  iseqno,   \* next sequence number expected
  rseqno,   \* number up to which the peer has acknowledged
  aseqno,   \* number up to which the peer has been sent an acknowledgement
  queue,    \* frame_queue: the frames of an end
  net,      \* the datagrams that have been sent to an end
  error,    \* iaxs[callno]->error
  sent,     \* number of frames sent
  got       \* the frame delivered to the owner last

vars == <<oseqno, iseqno, rseqno, aseqno, queue, net, error, sent, got>>

Numbers(e) == 1 .. MaxFrames[e]
Byte       == 0 .. SeqMod - 1
Frames     == [n : Nat \ {0}, iseqno : Byte, retries : -1 .. MaxRetries, sentyet : BOOLEAN]
Datagrams  == [kind : {"full"}, n : Nat \ {0}, iseqno : Byte]
                \cup [kind : {"ack", "vnak"}, iseqno : Byte]

Full(f)  == [kind |-> "full", n |-> f.n, iseqno |-> f.iseqno]
Ack(q)   == [kind |-> "ack", iseqno |-> q]
Vnak(q)  == [kind |-> "vnak", iseqno |-> q]

Init ==
  /\ oseqno = [e \in Ends |-> First]
  /\ iseqno = [e \in Ends |-> First]
  /\ rseqno = [e \in Ends |-> First]
  /\ aseqno = [e \in Ends |-> First]
  /\ queue = [e \in Ends |-> {}]
  /\ net = [e \in Ends |-> {}]
  /\ error = [e \in Ends |-> FALSE]
  /\ sent = [e \in Ends |-> 0]
  /\ got = [e \in Ends |-> 0]
-----------------------------------------------------------------------------
\* iax2_send: the frame takes the next number and is put in the queue.
Send(e) ==
  /\ sent[e] < MaxFrames[e] /\ ~error[e]
  /\ sent' = [sent EXCEPT ![e] = @ + 1]
  /\ oseqno' = [oseqno EXCEPT ![e] = (@ + 1) % SeqMod]
  /\ aseqno' = [aseqno EXCEPT ![e] = iseqno[e]]
  /\ queue' = [queue EXCEPT ![e] =
       @ \cup {[n |-> sent[e] + 1, iseqno |-> iseqno[e], retries |-> 0, sentyet |-> FALSE]}]
  /\ UNCHANGED <<iseqno, rseqno, net, error, got>>

\* network_thread sends it, and schedules its retransmission unless it has been
\* acknowledged already.
FirstTransmit(e, f) ==
  /\ f \in queue[e] /\ ~f.sentyet
  /\ net' = [net EXCEPT ![Peer[e]] = @ \cup {Full(f)}]
  /\ queue' = [queue EXCEPT ![e] = (@ \ {f}) \cup
       {[g EXCEPT !.sentyet = TRUE, !.retries = @ + 1] : g \in {h \in {f} : h.retries >= 0}}]
  /\ UNCHANGED <<oseqno, iseqno, rseqno, aseqno, error, sent, got>>

\* __attempt_transmit, run by the scheduler
Due(e, f) == f \in queue[e] /\ f.sentyet

Retransmit(e, f) ==
  /\ Due(e, f) /\ f.retries \in 0 .. MaxRetries - 1
  /\ LET g == [f EXCEPT !.iseqno = iseqno[e], !.retries = @ + 1]   \* update_packet
     IN  /\ net' = [net EXCEPT ![Peer[e]] = @ \cup {Full(g)}]
         /\ queue' = [queue EXCEPT ![e] = (@ \ {f}) \cup {g}]
  /\ UNCHANGED <<oseqno, iseqno, rseqno, aseqno, error, sent, got>>

Acknowledged(e, f) ==
  /\ Due(e, f) /\ f.retries < 0
  /\ queue' = [queue EXCEPT ![e] = @ \ {f}]
  /\ UNCHANGED <<oseqno, iseqno, rseqno, aseqno, net, error, sent, got>>

\* Mutant: the owner is not told.
GiveUpSilently(e, f) ==
  /\ Due(e, f) /\ f.retries >= MaxRetries
  /\ queue' = [queue EXCEPT ![e] = @ \ {f}]
  /\ UNCHANGED <<oseqno, iseqno, rseqno, aseqno, net, error, sent, got>>

\* Too many attempts: the owner is told to hang up.
GiveUp(e, f) ==
  /\ Due(e, f) /\ f.retries >= MaxRetries
  /\ queue' = [queue EXCEPT ![e] = @ \ {f}]
  /\ error' = [error EXCEPT ![e] = TRUE]
  /\ UNCHANGED <<oseqno, iseqno, rseqno, aseqno, net, sent, got>>
-----------------------------------------------------------------------------
(***************************************************************************)
(* socket_process                                                          *)
(***************************************************************************)
Reply(e, ds) == net' = [net EXCEPT ![Peer[e]] = @ \cup ds]

\* "First we have to qualify that the ACKed value is within our window"
InWindow(e, q) ==
  \/ rseqno[e] >= oseqno[e]
  \/ q >= rseqno[e] /\ q < oseqno[e]
  \/ q = oseqno[e]

\* Mutant: q itself is taken for acknowledged.
CancelledTo(e, q) ==
  IF ~InWindow(e, q) THEN queue[e]
  ELSE {IF (Seqno(f.n) - rseqno[e]) % SeqMod <= (q - rseqno[e]) % SeqMod
        THEN [f EXCEPT !.retries = -1] ELSE f : f \in queue[e]}

\* Implicit acknowledgement: the frames from rseqno up to q are cancelled.
Cancelled(e, q) ==
  IF ~InWindow(e, q) THEN queue[e]
  ELSE {IF (Seqno(f.n) - rseqno[e]) % SeqMod < (q - rseqno[e]) % SeqMod
        THEN [f EXCEPT !.retries = -1] ELSE f : f \in queue[e]}

AckedTo(e, q) == IF InWindow(e, q) THEN q ELSE rseqno[e]

\* Mutant: a frame that has been lost is skipped.
ReceiveNextSkips(e, d) ==
  /\ d.kind = "full" /\ ~Before(Seqno(d.n) + 1, iseqno[e])
  /\ iseqno' = [iseqno EXCEPT ![e] = (Seqno(d.n) + 1) % SeqMod]
  /\ queue' = [queue EXCEPT ![e] = Cancelled(e, d.iseqno)]
  /\ rseqno' = [rseqno EXCEPT ![e] = AckedTo(e, d.iseqno)]
  /\ got' = [got EXCEPT ![e] = d.n]
  /\ Reply(e, {Ack(iseqno'[e])})
  /\ aseqno' = [aseqno EXCEPT ![e] = iseqno'[e]]
  /\ UNCHANGED <<oseqno, error, sent>>

\* The frame that is expected: it is counted, it acknowledges, it is
\* acknowledged and it is delivered.
ReceiveNext(e, d) ==
  /\ d.kind = "full" /\ Seqno(d.n) = iseqno[e]
  /\ iseqno' = [iseqno EXCEPT ![e] = (@ + 1) % SeqMod]
  /\ queue' = [queue EXCEPT ![e] = Cancelled(e, d.iseqno)]
  /\ rseqno' = [rseqno EXCEPT ![e] = AckedTo(e, d.iseqno)]
  /\ got' = [got EXCEPT ![e] = d.n]
  /\ Reply(e, IF aseqno[e] # iseqno'[e] THEN {Ack(iseqno'[e])} ELSE {})
  /\ aseqno' = [aseqno EXCEPT ![e] = iseqno'[e]]
  /\ UNCHANGED <<oseqno, error, sent>>

\* One that is not: acknowledged again if it is old, asked for if it is new.
ReceiveOther(e, d) ==
  /\ d.kind = "full" /\ Seqno(d.n) # iseqno[e]
  /\ Reply(e, {IF Before(Seqno(d.n), iseqno[e]) THEN Ack(iseqno[e]) ELSE Vnak(iseqno[e])})
  /\ aseqno' = [aseqno EXCEPT ![e] = iseqno[e]]
  /\ UNCHANGED <<oseqno, iseqno, rseqno, queue, error, sent, got>>

ReceiveAck(e, d) ==
  /\ d.kind = "ack"
  /\ queue' = [queue EXCEPT ![e] = Cancelled(e, d.iseqno)]
  /\ rseqno' = [rseqno EXCEPT ![e] = AckedTo(e, d.iseqno)]
  /\ UNCHANGED <<oseqno, iseqno, aseqno, net, error, sent, got>>

\* vnak_retransmit sends what is outstanding once more, as it was sent last.
ReceiveVnak(e, d) ==
  /\ d.kind = "vnak"
  /\ queue' = [queue EXCEPT ![e] = Cancelled(e, d.iseqno)]
  /\ rseqno' = [rseqno EXCEPT ![e] = AckedTo(e, d.iseqno)]
  /\ Reply(e, {Full(f) : f \in
       {g \in queue'[e] : g.retries >= 0 /\ Before(d.iseqno, Seqno(g.n))}})
  /\ UNCHANGED <<oseqno, iseqno, aseqno, error, sent, got>>
-----------------------------------------------------------------------------
Transmit(e, f) ==
  FirstTransmit(e, f) \/ Retransmit(e, f) \/ Acknowledged(e, f) \/ GiveUp(e, f)

Receive(e, d) ==
  ReceiveNext(e, d) \/ ReceiveOther(e, d) \/ ReceiveAck(e, d) \/ ReceiveVnak(e, d)

Next ==
  \E e \in Ends :
    \/ Send(e)
    \/ \E f \in queue[e] : Transmit(e, f)
    \/ \E d \in net[e] : Receive(e, d)

\* The threads transmit what is queued and due; the network need not deliver anything.
Fairness == \A e \in Ends : WF_vars(\E f \in queue[e] : Transmit(e, f))

Spec == Init /\ [][Next]_vars /\ Fairness
-----------------------------------------------------------------------------
\* Types; every frame in the queue has a number of its own.
TypeOK ==
  /\ oseqno \in [Ends -> Byte] /\ iseqno \in [Ends -> Byte]
  /\ rseqno \in [Ends -> Byte] /\ aseqno \in [Ends -> Byte]
  /\ queue \in [Ends -> SUBSET Frames]
  /\ \A e \in Ends : \A f, g \in queue[e] : f.n = g.n => f = g
  /\ net \in [Ends -> SUBSET Datagrams]
  /\ sent \in [Ends -> Nat] /\ got \in [Ends -> Nat]
  /\ error \in [Ends -> BOOLEAN]

\* What an end has sent and does not retransmit any more
Outstanding(e) == {f.n : f \in {g \in queue[e] : g.retries >= 0}}
Done(e) == (1 .. sent[e]) \ Outstanding(e)

\* The implicit acknowledgement of socket_process: no frame is cancelled that
\* the peer has not received, in whatever order datagrams arrive.
CancelledReceived ==
  \A e \in Ends : ~error[e] => Done(e) \subseteq 1 .. got[Peer[e]]

\* The test for old frames with a byte that wraps: only a frame that has been
\* received is acknowledged again, and only one that has not is asked for.
AnswerTrue ==
  [][\A e \in Ends : \A d \in net[e] :
       ReceiveOther(e, d) =>
         \/ Ack(iseqno[e]) \in net'[Peer[e]] /\ d.n <= got[e]
         \/ Vnak(iseqno[e]) \in net'[Peer[e]] /\ d.n > got[e]]_vars

\* The link is reliable: the abstract specification is implemented.  A frame is
\* confirmed when it is no longer outstanding; of an end that has given up
\* nothing is known.
Confirmed == [e \in Ends |-> IF error[e] THEN {} ELSE Done(e)]

Link == INSTANCE ReliableLink WITH confirmed <- Confirmed

LinkSpec == Link!LinkSpec

\* attempt_transmit: whatever is lost, a frame that is sent arrives, or its
\* sender is told that the call is broken.
Handled ==
  \A e \in Ends : \A n \in Numbers(e) :
    n <= sent[e] ~> n <= got[Peer[e]] \/ error[e]
=============================================================================
