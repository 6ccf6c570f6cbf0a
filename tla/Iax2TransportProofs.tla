------------------------ MODULE Iax2TransportProofs ------------------------
(***************************************************************************)
(* Proofs about Iax2Transport for any two-party call, any number of        *)
(* retransmissions and any number of frames, as long as the sequence       *)
(* numbers do not wrap: then no frame is cancelled that the peer has not   *)
(* received, and the numbered full frames implement ReliableLink.  With    *)
(* numbers that wrap neither holds: with First = 254 TLC finds             *)
(* CancelledReceived violated, because the test of socket_process accepts  *)
(* any acknowledged number once oseqno is less than rseqno.                *)
(***************************************************************************)
EXTENDS Iax2Transport, TLAPS

\* The calls the theorems are about: the last number is at most 255.
NoWrap == \A e \in Ends : First + MaxFrames[e] <= 255

Counted ==
  \A e \in Ends : /\ sent[e] <= MaxFrames[e]
                  /\ oseqno[e] = First + sent[e]
                  /\ iseqno[e] = First + got[e]
                  /\ got[e] <= sent[Peer[e]]

\* What an end is told of its frames, and what it tells of the peer's, has been
\* true at some time.
DatagramOK(e, d) ==
  /\ d.iseqno >= First /\ d.iseqno <= First + got[Peer[e]]
  /\ d.kind = "full" => d.n <= sent[Peer[e]]

FrameOK(e, f) ==
  /\ f.n <= sent[e]
  /\ f.iseqno >= First /\ f.iseqno <= First + got[e]
  /\ f.sentyet \/ f.retries <= 0

Window ==
  \A e \in Ends :
    /\ rseqno[e] >= First /\ rseqno[e] <= First + got[Peer[e]]
    /\ \A d \in net[e] : DatagramOK(e, d)
    /\ \A f \in queue[e] : FrameOK(e, f)

\* What the peer has not received is still to be transmitted.
Kept ==
  \A e \in Ends : ~error[e] =>
    \A n \in 1 .. sent[e] : n > got[Peer[e]] => n \in Outstanding(e)

IInv == TypeOK /\ Counted /\ Window /\ Kept

-----------------------------------------------------------------------------
(* Arithmetic of the sequence numbers while they do not wrap.               *)

\* The number of a frame is the byte the program sees.
LEMMA SeqnoPlain ==
  ASSUME NoWrap, NEW e \in Ends, NEW n \in Int, n >= 1, n <= MaxFrames[e]
  PROVE  Seqno(n) = First + n - 1 /\ Seqno(n) >= 0 /\ Seqno(n) <= 254
<1>1. First \in 0 .. 255 /\ MaxFrames[e] \in Nat
  BY TransportConstants
<1>2. First + MaxFrames[e] <= 255
  BY DEF NoWrap
<1> QED  BY <1>1, <1>2 DEF Seqno, SeqMod

\* Counting one frame more does not wrap either.
LEMMA NextPlain ==
  ASSUME NoWrap, NEW e \in Ends, NEW n \in Int, n >= 0, n < MaxFrames[e]
  PROVE  (First + n + 1) % SeqMod = First + n + 1 /\ First + n + 1 <= 255
<1>1. First \in 0 .. 255 /\ MaxFrames[e] \in Nat
  BY TransportConstants
<1>2. First + MaxFrames[e] <= 255
  BY DEF NoWrap
<1> QED  BY <1>1, <1>2 DEF SeqMod

\* A frame between the acknowledged number r and the number q of a datagram is
\* one of those that come before a number the peer has reached.
LEMMA DistancePlain ==
  ASSUME NEW s \in 0 .. 255, NEW r \in 0 .. 255, NEW q \in 0 .. 255,
         q >= r, (s - r) % SeqMod < (q - r) % SeqMod
  PROVE  s < q
<1>1. q - r \in 0 .. 255 /\ (q - r) % SeqMod = q - r
  BY DEF SeqMod
<1>2. CASE s >= r
  <2>1. (s - r) % SeqMod = s - r
    BY <1>2 DEF SeqMod
  <2> QED  BY <1>1, <2>1
<1>3. CASE s < r
  BY <1>3
<1> QED  BY <1>2, <1>3

-----------------------------------------------------------------------------
(* What the invariant says of one end.                                      *)

\* The numbers of an end are bytes, its counts natural numbers.
LEMMA EndFacts ==
  ASSUME TypeOK, NEW e \in Ends
  PROVE  /\ Peer[e] \in Ends /\ Peer[e] # e /\ Peer[Peer[e]] = e
         /\ MaxFrames[e] \in Nat /\ First \in 0 .. 255
         /\ oseqno[e] \in 0 .. 255 /\ iseqno[e] \in 0 .. 255
         /\ rseqno[e] \in 0 .. 255 /\ aseqno[e] \in 0 .. 255
         /\ sent[e] \in Nat /\ got[e] \in Nat
         /\ error[e] \in BOOLEAN
         /\ queue[e] \subseteq Frames /\ net[e] \subseteq Datagrams
<1>1. Peer[e] \in Ends /\ Peer[e] # e /\ Peer[Peer[e]] = e
  BY TransportConstants
<1>2. MaxFrames[e] \in Nat /\ First \in 0 .. 255
  BY TransportConstants
<1>3. /\ oseqno[e] \in Byte /\ iseqno[e] \in Byte /\ rseqno[e] \in Byte /\ aseqno[e] \in Byte
      /\ sent[e] \in Nat /\ got[e] \in Nat
      /\ error[e] \in BOOLEAN
      /\ queue[e] \subseteq Frames /\ net[e] \subseteq Datagrams
  BY DEF TypeOK
<1> QED  BY <1>1, <1>2, <1>3 DEF Byte, SeqMod

\* The fields of a frame.
LEMMA FrameFacts ==
  ASSUME NEW f \in Frames
  PROVE  /\ f.n \in Int /\ f.n >= 1
         /\ f.iseqno \in 0 .. 255
         /\ f.retries \in -1 .. MaxRetries /\ f.sentyet \in BOOLEAN
         /\ f = [n |-> f.n, iseqno |-> f.iseqno, retries |-> f.retries, sentyet |-> f.sentyet]
BY DEF Frames, Byte, SeqMod

\* A frame is made of its fields.
LEMMA FrameIntro ==
  ASSUME NEW n \in Int, n >= 1, NEW q \in 0 .. 255, NEW r \in -1 .. MaxRetries, NEW b \in BOOLEAN
  PROVE  [n |-> n, iseqno |-> q, retries |-> r, sentyet |-> b] \in Frames
BY DEF Frames, Byte, SeqMod

\* A frame that is sent, or sent again: two of its fields change.
LEMMA FrameChanged ==
  ASSUME NEW f \in Frames, NEW q, NEW r
  PROVE  /\ [f EXCEPT !.iseqno = q, !.retries = r] =
              [n |-> f.n, iseqno |-> q, retries |-> r, sentyet |-> f.sentyet]
         /\ [f EXCEPT !.sentyet = TRUE, !.retries = r] =
              [n |-> f.n, iseqno |-> f.iseqno, retries |-> r, sentyet |-> TRUE]
<1>1. PICK a, b, c, d : f = [n |-> a, iseqno |-> b, retries |-> c, sentyet |-> d]
  BY FrameFacts
<1>2. f.n = a /\ f.iseqno = b /\ f.sentyet = d
  BY <1>1
<1>3. PICK g : g = [f EXCEPT !.iseqno = q]
  OBVIOUS
<1>4. g = [n |-> a, iseqno |-> q, retries |-> c, sentyet |-> d]
  BY <1>1, <1>3
<1>5. [f EXCEPT !.iseqno = q, !.retries = r] = [g EXCEPT !.retries = r]
  BY <1>3
<1>6. PICK h : h = [f EXCEPT !.sentyet = TRUE]
  OBVIOUS
<1>7. PICK t : t = TRUE /\ h = [n |-> a, iseqno |-> b, retries |-> c, sentyet |-> t]
  BY <1>1, <1>6
<1>8. [f EXCEPT !.sentyet = TRUE, !.retries = r] = [h EXCEPT !.retries = r]
  BY <1>6
<1>9. [g EXCEPT !.retries = r] = [n |-> a, iseqno |-> q, retries |-> r, sentyet |-> d]
  BY <1>4
<1>10. [h EXCEPT !.retries = r] = [n |-> a, iseqno |-> b, retries |-> r, sentyet |-> TRUE]
  <2>1. [h EXCEPT !.retries = r] = [n |-> a, iseqno |-> b, retries |-> r, sentyet |-> t]
    <3>1. h = [n |-> a, iseqno |-> b, retries |-> c, sentyet |-> t]
      BY <1>7
    <3> QED  BY <3>1
  <2> QED  BY <2>1, <1>7
<1> QED  BY <1>2, <1>5, <1>8, <1>9, <1>10

\* The fields of a datagram.
LEMMA DatagramFacts ==
  ASSUME NEW d \in Datagrams
  PROVE  /\ d.kind \in {"full", "ack", "vnak"}
         /\ d.iseqno \in 0 .. 255
         /\ d.kind = "full" => d.n \in Int /\ d.n >= 1
BY DEF Datagrams, Byte, SeqMod

\* The test by which socket_process cancels frame number n.
Nearer(e, n, q) == (Seqno(n) - rseqno[e]) % SeqMod < (q - rseqno[e]) % SeqMod

\* A datagram that has been sent to an end cancels only frames that the peer has
\* received.
LEMMA CancelledTrue ==
  ASSUME NoWrap, TypeOK, Counted, Window,
         NEW e \in Ends, NEW d \in net[e], NEW f \in queue[e],
         InWindow(e, d.iseqno), Nearer(e, f.n, d.iseqno)
  PROVE  f.n <= got[Peer[e]]
<1> DEFINE p == Peer[e]
           q == d.iseqno
           r == rseqno[e]
<1>1. /\ p \in Ends /\ Peer[p] = e /\ r \in 0 .. 255 /\ First \in 0 .. 255
      /\ sent[e] \in Nat /\ got[p] \in Nat
      /\ queue[e] \subseteq Frames /\ net[e] \subseteq Datagrams
  BY EndFacts
<1>2. f.n \in Int /\ f.n >= 1 /\ f.n <= sent[e] /\ sent[e] <= MaxFrames[e]
  BY <1>1, FrameFacts DEF Window, FrameOK, Counted
<1>a. MaxFrames[e] \in Nat
  BY EndFacts
<1>3. q \in 0 .. 255
  BY <1>1, DatagramFacts
<1>4. Seqno(f.n) = First + f.n - 1 /\ Seqno(f.n) \in 0 .. 255
  <2>1. Seqno(f.n) = First + f.n - 1 /\ Seqno(f.n) >= 0 /\ Seqno(f.n) <= 254
    <3>1. f.n <= MaxFrames[e]
      BY <1>1, <1>2, <1>a
    <3> QED  BY <1>2, <3>1, SeqnoPlain
  <2>2. First + f.n - 1 \in Int
    BY <1>1, <1>2
  <2> QED  BY <2>1, <2>2
<1>5. /\ f.n <= sent[e] /\ q <= First + got[p]
      /\ r <= First + got[p] /\ oseqno[e] = First + sent[e] /\ got[p] <= sent[e]
  BY <1>1 DEF Window, FrameOK, DatagramOK, Counted
<1>6. CASE r >= oseqno[e]
  <2>1. r >= First + sent[e] /\ r <= First + got[p] /\ r \in Int
    BY <1>1, <1>5, <1>6
  <2>2. First \in Int /\ sent[e] \in Int /\ got[p] \in Int
    BY <1>1
  <2> HIDE DEF r, p
  <2>3. sent[e] <= got[p]
    BY <2>1, <2>2
  <2> QED  BY <2>2, <2>3, <1>2 DEF p
<1>7. CASE q >= r
  <2>1. Seqno(f.n) < q
    BY <1>1, <1>3, <1>4, <1>7, DistancePlain DEF Nearer
  <2>2. First + f.n - 1 < q
    BY <2>1, <1>4
  <2>3. q <= First + got[p] /\ q \in Int /\ First \in Int /\ got[p] \in Int
    BY <1>1, <1>3, <1>5
  <2> HIDE DEF q
  <2> QED  BY <2>2, <2>3, <1>2
<1>8. CASE q = oseqno[e]
  BY <1>1, <1>2, <1>3, <1>5, <1>6, <1>7, <1>8
<1> QED  BY <1>6, <1>7, <1>8 DEF InWindow

\* What an acknowledgement leaves of the queue: every frame is still there, some
\* of those the peer has received cancelled.
LEMMA CancelledFacts ==
  ASSUME NoWrap, TypeOK, Counted, Window, NEW e \in Ends, NEW d \in net[e],
         NEW Q, Q = Cancelled(e, d.iseqno)
  PROVE  /\ Q \subseteq Frames
         /\ \A g \in Q : \E f \in queue[e] :
              /\ g.n = f.n /\ g.iseqno = f.iseqno
              /\ g = f \/ (g.retries = -1 /\ f.n <= got[Peer[e]])
         /\ \A f \in queue[e] : \E g \in Q :
              g.n = f.n /\ (g = f \/ f.n <= got[Peer[e]])
         /\ \A g, h \in Q : g.n = h.n => g = h
<1> DEFINE C(f) == Nearer(e, f.n, d.iseqno)
           R(f) == [f EXCEPT !.retries = -1]
<1>1. queue[e] \subseteq Frames
  BY EndFacts
<1>2. CASE ~InWindow(e, d.iseqno)
  <2>1. Q = queue[e]
    BY <1>2 DEF Cancelled
  <2> QED  BY <2>1, <1>1 DEF TypeOK
<1>3. CASE InWindow(e, d.iseqno)
  <2>1. Q = {IF C(f) THEN R(f) ELSE f : f \in queue[e]}
    BY <1>3 DEF Cancelled, Nearer
  <2>2. \A f \in queue[e] : C(f) => f.n <= got[Peer[e]]
    BY <1>3, CancelledTrue
  <2>3. ASSUME NEW f \in queue[e]
        PROVE  R(f) \in Frames /\ R(f).n = f.n /\ R(f).iseqno = f.iseqno /\ R(f).retries = -1
    <3>1. f \in Frames
      BY <1>1
    <3>2. R(f) = [n |-> f.n, iseqno |-> f.iseqno, retries |-> -1, sentyet |-> f.sentyet]
      BY <3>1, FrameFacts
    <3>3. -1 \in -1 .. MaxRetries
      BY TransportConstants
    <3> QED  BY <3>1, <3>2, <3>3 DEF Frames
  <2> HIDE DEF C, R
  <2>4. Q \subseteq Frames
    BY <2>1, <2>3, <1>1
  <2>5. \A g \in Q : \E f \in queue[e] :
              /\ g.n = f.n /\ g.iseqno = f.iseqno
              /\ g = f \/ (g.retries = -1 /\ f.n <= got[Peer[e]])
    BY <2>1, <2>2, <2>3
  <2>6. \A f \in queue[e] : \E g \in Q : g.n = f.n /\ (g = f \/ f.n <= got[Peer[e]])
    BY <2>1, <2>2, <2>3
  <2>7. ASSUME NEW g \in Q, NEW h \in Q, g.n = h.n
        PROVE  g = h
    <3>1. PICK f1 \in queue[e] : g = IF C(f1) THEN R(f1) ELSE f1
      BY <2>1
    <3>2. PICK f2 \in queue[e] : h = IF C(f2) THEN R(f2) ELSE f2
      BY <2>1
    <3>3. f1.n = f2.n
      BY <3>1, <3>2, <2>3, <2>7
    <3>4. f1 = f2
      BY <3>3 DEF TypeOK
    <3> QED  BY <3>1, <3>2, <3>4
  <2> QED  BY <2>4, <2>5, <2>6, <2>7
<1> QED  BY <1>2, <1>3

-----------------------------------------------------------------------------
(* What a step needs to show.  Frames sent and frames delivered only grow,  *)
(* so what is in the queue of an end or under way to it stays good.         *)

Grown ==
  /\ sent' \in [Ends -> Nat] /\ got' \in [Ends -> Nat]
  /\ \A x \in Ends : sent[x] <= sent'[x] /\ got[x] <= got'[x]

NetGood ==
  /\ net \in [Ends -> SUBSET Datagrams]
  /\ \A x \in Ends : \A d \in net[x] : DatagramOK(x, d)

QueueGood ==
  /\ queue \in [Ends -> SUBSET Frames]
  /\ \A x \in Ends : \A f, g \in queue[x] : f.n = g.n => f = g
  /\ \A x \in Ends : \A f \in queue[x] : FrameOK(x, f)

\* The numbers of the ends: types, and what they say of the counts
NumbersGood ==
  /\ oseqno \in [Ends -> Byte] /\ iseqno \in [Ends -> Byte]
  /\ rseqno \in [Ends -> Byte] /\ aseqno \in [Ends -> Byte]
  /\ sent \in [Ends -> Nat] /\ got \in [Ends -> Nat]
  /\ error \in [Ends -> BOOLEAN]
  /\ Counted
  /\ \A x \in Ends : rseqno[x] >= First /\ rseqno[x] <= First + got[Peer[x]]

\* The invariant, sorted by what a step changes.
LEMMA IInvParts == IInv <=> NumbersGood /\ QueueGood /\ NetGood /\ Kept
BY DEF IInv, TypeOK, Window, NumbersGood, QueueGood, NetGood

LEMMA IInvNext == NumbersGood' /\ QueueGood' /\ NetGood' /\ Kept' => IInv'
BY IInvParts, PTL

\* The counts are integers that grow.
LEMMA GrownFacts ==
  ASSUME Grown, NumbersGood, NEW x \in Ends
  PROVE  /\ sent[x] \in Int /\ sent'[x] \in Int /\ sent[x] <= sent'[x]
         /\ got[x] \in Int /\ got'[x] \in Int /\ got[x] <= got'[x]
<1>1. sent[x] \in Nat /\ got[x] \in Nat
  BY DEF NumbersGood
<1>2. sent'[x] \in Nat /\ got'[x] \in Nat
  BY DEF Grown
<1> QED  BY <1>1, <1>2 DEF Grown

\* A frame or datagram that was good stays good.
LEMMA FrameStays ==
  ASSUME Grown, NumbersGood, NEW x \in Ends, NEW f \in Frames, FrameOK(x, f)
  PROVE  FrameOK(x, f)'
<1>1. /\ sent[x] \in Int /\ sent'[x] \in Int /\ sent[x] <= sent'[x]
      /\ got[x] \in Int /\ got'[x] \in Int /\ got[x] <= got'[x]
  BY GrownFacts
<1>3. First \in Int /\ f.n \in Int /\ f.iseqno \in Int
  <2>1. f.n \in Int /\ f.iseqno \in 0 .. 255
    BY FrameFacts
  <2> QED  BY <2>1, TransportConstants
<1>2. /\ f.n <= sent[x] /\ f.iseqno >= First /\ f.iseqno <= First + got[x]
      /\ f.sentyet \/ f.retries <= 0
  BY DEF FrameOK
<1> QED  BY <1>1, <1>2, <1>3 DEF FrameOK

LEMMA DatagramStays ==
  ASSUME Grown, NumbersGood, NEW x \in Ends, NEW d \in Datagrams, DatagramOK(x, d)
  PROVE  DatagramOK(x, d)'
<1> DEFINE p == Peer[x]
<1>0. p \in Ends
  BY TransportConstants
<1>1. /\ sent[p] \in Int /\ sent'[p] \in Int /\ sent[p] <= sent'[p]
      /\ got[p] \in Int /\ got'[p] \in Int /\ got[p] <= got'[p]
  BY <1>0, GrownFacts
<1>3. First \in Int /\ d.iseqno \in Int /\ (d.kind = "full" => d.n \in Int)
  <2>1. d.iseqno \in 0 .. 255 /\ (d.kind = "full" => d.n \in Int)
    BY DatagramFacts
  <2> QED  BY <2>1, TransportConstants
<1>2. /\ d.iseqno >= First /\ d.iseqno <= First + got[p]
      /\ d.kind = "full" => d.n <= sent[p]
  BY DEF DatagramOK
<1> QED  BY <1>1, <1>2, <1>3 DEF DatagramOK

\* Datagrams sent to an end.
LEMMA NetStep ==
  ASSUME Grown, NumbersGood, NetGood, NEW p \in Ends,
         NEW D \in SUBSET Datagrams, \A d \in D : DatagramOK(p, d)',
         net' = [net EXCEPT ![p] = net[p] \cup D]
  PROVE  NetGood'
<1>1. net' \in [Ends -> SUBSET Datagrams]
  BY DEF NetGood
<1>2. ASSUME NEW x \in Ends, NEW d \in net'[x]
      PROVE  DatagramOK(x, d)'
  <2>1. d \in net[x] \/ (x = p /\ d \in D)
    BY <1>2 DEF NetGood
  <2>2. CASE d \in net[x]
    <3>1. d \in Datagrams /\ DatagramOK(x, d)
      BY <2>2 DEF NetGood
    <3> QED  BY <3>1, DatagramStays
  <2> QED  BY <2>1, <2>2
<1> QED  BY <1>1, <1>2 DEF NetGood

\* The queue of one end replaced.
LEMMA QueueStep ==
  ASSUME Grown, NumbersGood, QueueGood, NEW e \in Ends,
         NEW Q \in SUBSET Frames,
         \A f, g \in Q : f.n = g.n => f = g,
         \A f \in Q : FrameOK(e, f)',
         queue' = [queue EXCEPT ![e] = Q]
  PROVE  QueueGood'
<1>1. queue' \in [Ends -> SUBSET Frames]
  BY DEF QueueGood
<1>2. queue'[e] = Q /\ \A x \in Ends : x # e => queue'[x] = queue[x]
  BY DEF QueueGood
<1>3. ASSUME NEW x \in Ends
      PROVE  /\ \A f, g \in queue'[x] : f.n = g.n => f = g
             /\ \A f \in queue'[x] : FrameOK(x, f)'
  <2>1. CASE x = e
    BY <1>2, <2>1
  <2>2. CASE x # e
    <3>1. queue'[x] = queue[x]
      BY <1>2, <2>2
    <3>2. \A f \in queue[x] : f \in Frames /\ FrameOK(x, f)
      BY DEF QueueGood
    <3>3. \A f \in queue[x] : FrameOK(x, f)'
      BY <3>2, FrameStays
    <3> QED  BY <3>1, <3>3 DEF QueueGood
  <2> QED  BY <2>1, <2>2
<1> QED  BY <1>1, <1>3 DEF QueueGood

LEMMA QueueSame ==
  ASSUME Grown, NumbersGood, QueueGood, queue' = queue
  PROVE  QueueGood'
<1>1. \A x \in Ends : \A f \in queue[x] : f \in Frames /\ FrameOK(x, f)
  BY DEF QueueGood
<1>2. \A x \in Ends : \A f \in queue[x] : FrameOK(x, f)'
  BY <1>1, FrameStays
<1> QED  BY <1>2 DEF QueueGood

LEMMA NetSame ==
  ASSUME Grown, NumbersGood, NetGood, net' = net
  PROVE  NetGood'
<1>1. \A x \in Ends : \A d \in net[x] : d \in Datagrams /\ DatagramOK(x, d)
  BY DEF NetGood
<1>2. \A x \in Ends : \A d \in net[x] : DatagramOK(x, d)'
  BY <1>1, DatagramStays
<1> QED  BY <1>2 DEF NetGood

\* Nothing new is sent; what leaves the frames outstanding has been received.
LEMMA KeptStep ==
  ASSUME Grown, NumbersGood, Kept, sent' = sent,
         \A x \in Ends : error'[x] = FALSE => error[x] = FALSE,
         \A x \in Ends : error'[x] = FALSE =>
           \A n \in Outstanding(x) : n \in Outstanding(x)' \/ n <= got[Peer[x]],
         error' \in [Ends -> BOOLEAN]
  PROVE  Kept'
<1> SUFFICES ASSUME NEW x \in Ends, ~error'[x],
                    NEW n \in 1 .. sent[x], n > got'[Peer[x]]
             PROVE  n \in Outstanding(x)'
  BY DEF Kept
<1>1. error'[x] = FALSE /\ ~error[x]
  OBVIOUS
<1>2. /\ got[Peer[x]] \in Int /\ got'[Peer[x]] \in Int /\ got[Peer[x]] <= got'[Peer[x]]
      /\ n \in Int
  BY TransportConstants, GrownFacts
<1>3. n > got[Peer[x]] /\ ~(n <= got[Peer[x]])
  BY <1>2
<1>4. n \in Outstanding(x)
  BY <1>1, <1>3 DEF Kept
<1> QED  BY <1>1, <1>3, <1>4

-----------------------------------------------------------------------------
(* Every step preserves the invariant.                                      *)

LEMMA InitHolds ==
  ASSUME Init
  PROVE  IInv
<1>1. First \in Byte /\ First \in Int /\ MaxFrames \in [Ends -> Nat]
  BY TransportConstants DEF Byte, SeqMod
<1>2. \A x \in Ends : Peer[x] \in Ends /\ MaxFrames[x] \in Nat
  BY TransportConstants
<1>3. Counted
  BY <1>1, <1>2 DEF Init, Counted
<1>4. NumbersGood
  BY <1>1, <1>2, <1>3 DEF Init, NumbersGood
<1>5. QueueGood /\ NetGood
  BY DEF Init, QueueGood, NetGood
<1>6. Kept
  BY <1>2 DEF Init, Kept
<1> QED  BY <1>4, <1>5, <1>6, IInvParts

\* The numbers are left alone.
LEMMA NumbersSame ==
  ASSUME NumbersGood, UNCHANGED <<oseqno, iseqno, rseqno, aseqno, sent, got>>,
         error' \in [Ends -> BOOLEAN]
  PROVE  NumbersGood' /\ Grown
<1>1. \A x \in Ends : sent[x] \in Nat /\ got[x] \in Nat
  BY DEF NumbersGood
<1>2. Grown
  BY <1>1 DEF NumbersGood, Grown
<1> QED  BY <1>2 DEF NumbersGood, Counted

LEMMA SendKeeps ==
  ASSUME NoWrap, IInv, NEW e \in Ends, Send(e)
  PROVE  IInv'
<1>0. PICK new : new = [n |-> sent[e] + 1, iseqno |-> iseqno[e], retries |-> 0, sentyet |-> FALSE]
  OBVIOUS
<1>1. TypeOK /\ NumbersGood /\ QueueGood /\ NetGood /\ Kept
  BY IInvParts DEF IInv
<1>2. /\ sent' = [sent EXCEPT ![e] = sent[e] + 1] /\ sent[e] < MaxFrames[e]
      /\ oseqno' = [oseqno EXCEPT ![e] = (oseqno[e] + 1) % SeqMod]
      /\ aseqno' = [aseqno EXCEPT ![e] = iseqno[e]]
      /\ queue' = [queue EXCEPT ![e] = queue[e] \cup {new}]
      /\ iseqno' = iseqno /\ rseqno' = rseqno /\ net' = net /\ error' = error /\ got' = got
  BY <1>0 DEF Send
<1>3. /\ sent[e] \in Nat /\ MaxFrames[e] \in Nat /\ First \in 0 .. 255
      /\ iseqno[e] \in 0 .. 255 /\ queue[e] \subseteq Frames
  BY <1>1, EndFacts
<1>4. \A x \in Ends : sent[x] \in Nat /\ got[x] \in Nat /\ Peer[x] \in Ends
  BY <1>1, TransportConstants DEF NumbersGood
<1>5. sent'[e] = sent[e] + 1 /\ \A x \in Ends : x # e => sent'[x] = sent[x]
  BY <1>1, <1>2 DEF NumbersGood
<1>6. Grown
  <2>1. sent' \in [Ends -> Nat]
    BY <1>1, <1>2, <1>3 DEF NumbersGood
  <2>2. \A x \in Ends : sent[x] <= sent'[x] /\ got[x] <= got'[x]
    BY <1>2, <1>4, <1>5
  <2> QED  BY <2>1, <2>2, <1>1, <1>2 DEF Grown, NumbersGood
<1>7. oseqno'[e] = First + sent'[e] /\ oseqno'[e] \in Byte
  <2>1. oseqno[e] = First + sent[e]
    BY <1>1 DEF NumbersGood, Counted
  <2>2. (First + sent[e] + 1) % SeqMod = First + sent[e] + 1 /\ First + sent[e] + 1 <= 255
    BY <1>2, <1>3, NextPlain
  <2>3. oseqno'[e] = (oseqno[e] + 1) % SeqMod
    BY <1>1, <1>2 DEF NumbersGood
  <2>4. oseqno'[e] = First + sent[e] + 1
    BY <2>1, <2>2, <2>3
  <2>5. First + sent[e] + 1 <= 255
    BY <2>2
  <2>6. oseqno'[e] = First + sent'[e]
    BY <2>4, <1>3, <1>5
  <2>7. oseqno'[e] \in 0 .. 255
    <3>1. First + sent[e] + 1 \in Int /\ First + sent[e] + 1 >= 0
      BY <1>3
    <3>2. First + sent[e] + 1 \in 0 .. 255
      BY <2>5, <3>1
    <3> QED  BY <2>4, <3>2
  <2> QED  BY <2>6, <2>7 DEF Byte, SeqMod
<1>8. Counted'
  <2> SUFFICES ASSUME NEW x \in Ends
               PROVE  /\ sent'[x] <= MaxFrames[x]
                      /\ oseqno'[x] = First + sent'[x]
                      /\ iseqno'[x] = First + got'[x]
                      /\ got'[x] <= sent'[Peer[x]]
    BY DEF Counted
  <2>1. /\ sent[x] <= MaxFrames[x] /\ oseqno[x] = First + sent[x]
        /\ iseqno[x] = First + got[x] /\ got[x] <= sent[Peer[x]]
    BY <1>1 DEF NumbersGood, Counted
  <2>2. sent'[x] <= MaxFrames[x]
    BY <2>1, <1>2, <1>3, <1>5
  <2>3. oseqno'[x] = First + sent'[x]
    <3>1. CASE x = e
      BY <3>1, <1>7
    <3>2. CASE x # e
      BY <3>2, <2>1, <1>1, <1>2, <1>5 DEF NumbersGood
    <3> QED  BY <3>1, <3>2
  <2>4. got'[x] <= sent'[Peer[x]]
    <3>1. Peer[x] \in Ends /\ got[x] \in Nat
      BY <1>4
    <3>2. sent[Peer[x]] \in Nat /\ sent'[Peer[x]] \in Int /\ sent[Peer[x]] <= sent'[Peer[x]]
      BY <3>1, <1>1, <1>6, GrownFacts, <1>4
    <3> QED  BY <3>1, <3>2, <2>1, <1>2
  <2> QED  BY <2>1, <2>2, <2>3, <2>4, <1>2
<1>9. NumbersGood'
  <2>1. oseqno' \in [Ends -> Byte]
    BY <1>1, <1>2, <1>7 DEF NumbersGood
  <2>2. aseqno' \in [Ends -> Byte]
    BY <1>1, <1>2 DEF NumbersGood
  <2> QED  BY <2>1, <2>2, <1>1, <1>2, <1>6, <1>8 DEF NumbersGood, Grown
<1>10. QueueGood'
  <2>1. sent[e] + 1 \in Int /\ sent[e] + 1 >= 1
    BY <1>3
  <2>2. 0 \in -1 .. MaxRetries
    BY TransportConstants
  <2>3. new \in Frames
    BY <2>1, <2>2, <1>0, <1>3, FrameIntro
  <2>4. \A f \in queue[e] : FrameOK(e, f) /\ f.n \in Int
    BY <1>1, <1>3, FrameFacts DEF QueueGood
  <2>5. \A f \in queue[e] : f.n # new.n
    BY <2>4, <1>0, <1>3 DEF FrameOK
  <2>6. \A f, g \in queue[e] \cup {new} : f.n = g.n => f = g
    <3> QED  BY <2>5, <1>1 DEF QueueGood
  <2>7. FrameOK(e, new)'
    <3>1. iseqno[e] = First + got[e] /\ got[e] \in Nat
      BY <1>1 DEF NumbersGood, Counted
    <3>2. new.n = sent[e] + 1 /\ new.iseqno = iseqno[e] /\ new.retries = 0
      BY <1>0
    <3> QED  BY <3>1, <3>2, <1>2, <1>3, <1>5 DEF FrameOK
  <2>8. \A f \in queue[e] : FrameOK(e, f)'
    BY <2>4, <1>1, <1>3, <1>6, FrameStays
  <2>9. (queue[e] \cup {new}) \in SUBSET Frames
    BY <2>3, <1>3
  <2>10. \A f \in queue[e] \cup {new} : FrameOK(e, f)'
    BY <2>7, <2>8
  <2> QED  BY <2>6, <2>9, <2>10, <1>1, <1>2, <1>6, QueueStep
<1>11. NetGood'
  BY <1>1, <1>2, <1>6, NetSame
<1>12. Kept'
  <2> SUFFICES ASSUME NEW x \in Ends, ~error'[x],
                      NEW n \in 1 .. sent'[x], n > got'[Peer[x]]
               PROVE  n \in Outstanding(x)'
    BY DEF Kept
  <2>1. ~error[x] /\ n > got[Peer[x]]
    BY <1>2
  <2>2. CASE n \in 1 .. sent[x]
    <3>1. n \in Outstanding(x)
      BY <2>1, <2>2, <1>1 DEF Kept
    <3>2. queue[x] \subseteq queue'[x]
      <4> QED  BY <1>1, <1>2 DEF QueueGood
    <3> QED  BY <3>1, <3>2 DEF Outstanding
  <2>3. CASE ~(n \in 1 .. sent[x])
    <3>1. x = e /\ n = sent[e] + 1
      BY <2>3, <1>3, <1>4, <1>5
    <3>2. new \in queue'[e] /\ new.retries >= 0 /\ new.n = n
      BY <3>1, <1>0, <1>1, <1>2 DEF QueueGood
    <3> QED  BY <3>1, <3>2 DEF Outstanding
  <2> QED  BY <2>2, <2>3
<1> QED  BY <1>9, <1>10, <1>11, <1>12, IInvNext

\* A step that replaces the queue of e by Q and sends D to its peer.
StepOK(e, Q, D) ==
  /\ NumbersGood' /\ Grown /\ sent' = sent
  /\ Q \in SUBSET Frames /\ D \in SUBSET Datagrams
  /\ \A f, g \in Q : f.n = g.n => f = g
  /\ \A g \in Q : FrameOK(e, g)'
  /\ \A d \in D : DatagramOK(Peer[e], d)'
  /\ queue' = [queue EXCEPT ![e] = Q]
  /\ net' = [net EXCEPT ![Peer[e]] = net[Peer[e]] \cup D]
  /\ \A x \in Ends : error'[x] = FALSE => error[x] = FALSE
  /\ \A n \in Outstanding(e) :
       \/ error'[e] = TRUE
       \/ n <= got[Peer[e]]
       \/ \E g \in Q : g.n = n /\ g.retries >= 0

LEMMA StepKeeps ==
  ASSUME IInv, NEW e \in Ends, NEW Q, NEW D, StepOK(e, Q, D)
  PROVE  IInv'
<1>1. NumbersGood /\ QueueGood /\ NetGood /\ Kept
  BY IInvParts
<1>2. Peer[e] \in Ends
  BY TransportConstants
<1>3. QueueGood'
  BY <1>1, QueueStep DEF StepOK
<1>4. NetGood'
  BY <1>1, <1>2, NetStep DEF StepOK
<1>5. \A x \in Ends : error'[x] = FALSE =>
        \A n \in Outstanding(x) : n \in Outstanding(x)' \/ n <= got[Peer[x]]
  <2> SUFFICES ASSUME NEW x \in Ends, error'[x] = FALSE,
                      NEW n \in Outstanding(x), ~(n <= got[Peer[x]])
               PROVE  n \in Outstanding(x)'
    OBVIOUS
  <2>1. CASE x = e
    <3>1. PICK g \in Q : g.n = n /\ g.retries >= 0
      BY <2>1 DEF StepOK
    <3>2. queue'[e] = Q
      BY <1>1 DEF QueueGood, StepOK
    <3> QED  BY <3>1, <3>2, <2>1 DEF Outstanding
  <2>2. CASE x # e
    <3>1. queue'[x] = queue[x]
      BY <2>2, <1>1 DEF QueueGood, StepOK
    <3> QED  BY <3>1 DEF Outstanding
  <2> QED  BY <2>1, <2>2
<1>6. error' \in [Ends -> BOOLEAN]
  BY DEF NumbersGood, StepOK
<1>7. Kept'
  <2>1. \A x \in Ends : error'[x] = FALSE => error[x] = FALSE
    BY DEF StepOK
  <2>2. Grown /\ sent' = sent
    BY DEF StepOK
  <2> QED  BY <1>1, <1>5, <1>6, <2>1, <2>2, KeptStep
<1> QED  BY <1>3, <1>4, <1>7, IInvNext DEF StepOK

\* What an end sends says of it what is true.
LEMMA FullOK ==
  ASSUME NEW e \in Ends, NEW f \in Frames, FrameOK(e, f)
  PROVE  Full(f) \in Datagrams /\ DatagramOK(Peer[e], Full(f))
<1>1. Peer[Peer[e]] = e
  BY TransportConstants
<1>2. /\ Full(f).kind = "full" /\ Full(f).n = f.n /\ Full(f).iseqno = f.iseqno
      /\ Full(f) \in Datagrams
  BY DEF Full, Frames, Datagrams
<1> QED  BY <1>1, <1>2 DEF FrameOK, DatagramOK

LEMMA AckOK ==
  ASSUME NEW e \in Ends, NEW q \in Byte, q >= First, q <= First + got[e]
  PROVE  /\ Ack(q) \in Datagrams /\ DatagramOK(Peer[e], Ack(q))
         /\ Vnak(q) \in Datagrams /\ DatagramOK(Peer[e], Vnak(q))
<1>1. Peer[Peer[e]] = e
  BY TransportConstants
<1>2. /\ Ack(q).kind = "ack" /\ Ack(q).iseqno = q
      /\ Vnak(q).kind = "vnak" /\ Vnak(q).iseqno = q
      /\ Ack(q) \in Datagrams /\ Vnak(q) \in Datagrams
  BY DEF Ack, Vnak, Datagrams
<1> QED  BY <1>1, <1>2 DEF DatagramOK

\* The number expected next is one that may be sent.
LEMMA ExpectedOK ==
  ASSUME NumbersGood, NEW e \in Ends
  PROVE  iseqno[e] \in Byte /\ iseqno[e] >= First /\ iseqno[e] <= First + got[e]
<1>1. iseqno[e] = First + got[e] /\ got[e] \in Nat /\ iseqno[e] \in Byte
  BY DEF NumbersGood, Counted
<1> QED  BY <1>1, TransportConstants

-----------------------------------------------------------------------------
LEMMA FirstTransmitKeeps ==
  ASSUME IInv, NEW e \in Ends, NEW f, FirstTransmit(e, f)
  PROVE  IInv'
<1>1. NumbersGood /\ QueueGood /\ f \in queue[e] /\ ~f.sentyet
  BY IInvParts DEF FirstTransmit
<1>2. NumbersGood' /\ Grown /\ sent' = sent /\ got' = got /\ error' = error
  BY <1>1, NumbersSame DEF FirstTransmit, NumbersGood
<1>3. f \in Frames /\ FrameOK(e, f)
  BY <1>1 DEF QueueGood
<1>4. PICK g : g = [n |-> f.n, iseqno |-> f.iseqno, retries |-> f.retries + 1, sentyet |-> TRUE]
  OBVIOUS
<1>5. /\ f.retries \in -1 .. MaxRetries /\ f.n \in Int /\ f.n >= 1 /\ f.iseqno \in 0 .. 255
      /\ f = [n |-> f.n, iseqno |-> f.iseqno, retries |-> f.retries, sentyet |-> f.sentyet]
  BY <1>3, FrameFacts
<1>6. g = [f EXCEPT !.sentyet = TRUE, !.retries = f.retries + 1] /\ f.retries <= 0
  <2>1. f.retries <= 0
    BY <1>1, <1>3 DEF FrameOK
  <2>2. g = [f EXCEPT !.sentyet = TRUE, !.retries = f.retries + 1]
    BY <1>3, <1>4, FrameChanged
  <2> QED  BY <2>1, <2>2
<1>7. g \in Frames
  <2>1. f.retries + 1 \in -1 .. MaxRetries
    BY <1>5, <1>6, TransportConstants
  <2> QED  BY <1>4, <1>5, <2>1, FrameIntro
<1>8. PICK Q : Q = (queue[e] \ {f}) \cup (IF f.retries >= 0 THEN {g} ELSE {})
  OBVIOUS
<1>9. queue' = [queue EXCEPT ![e] = Q]
  BY <1>6, <1>8 DEF FirstTransmit
<1>10. Q \in SUBSET Frames
  BY <1>1, <1>7, <1>8 DEF QueueGood
<1>11. \A h, k \in Q : h.n = k.n => h = k
  <2>1. \A h, k \in queue[e] : h.n = k.n => h = k
    BY <1>1 DEF QueueGood
  <2>2. g.n = f.n
    BY <1>4
  <2> QED  BY <1>1, <1>8, <2>1, <2>2
<1>12. \A h \in Q : FrameOK(e, h)'
  <2>1. FrameOK(e, g)
    BY <1>3, <1>4 DEF FrameOK
  <2>2. \A h \in Q : FrameOK(e, h) /\ h \in Frames
    BY <1>1, <1>8, <1>10, <2>1 DEF QueueGood
  <2> QED  BY <1>1, <1>2, <2>2, FrameStays
<1>13. PICK d : d = Full(f)
  OBVIOUS
<1>14. {d} \in SUBSET Datagrams /\ DatagramOK(Peer[e], d)
  BY <1>3, <1>13, FullOK
<1>15. DatagramOK(Peer[e], d)'
  BY <1>2, <1>14 DEF DatagramOK
<1>16. net' = [net EXCEPT ![Peer[e]] = net[Peer[e]] \cup {d}]
  BY <1>13 DEF FirstTransmit
<1>17. \A n \in Outstanding(e) : \E h \in Q : h.n = n /\ h.retries >= 0
  <2> SUFFICES ASSUME NEW h \in queue[e], h.retries >= 0
               PROVE  \E k \in Q : k.n = h.n /\ k.retries >= 0
    BY DEF Outstanding
  <2>1. CASE h = f
    <3>1. g \in Q /\ g.n = h.n /\ g.retries >= 0
      BY <2>1, <1>4, <1>5, <1>8
    <3> QED  BY <3>1
  <2>2. CASE h # f
    BY <2>2, <1>8
  <2> QED  BY <2>1, <2>2
<1>18. StepOK(e, Q, {d})
  BY <1>2, <1>9, <1>10, <1>11, <1>12, <1>14, <1>15, <1>16, <1>17 DEF StepOK
<1> QED  BY <1>18, StepKeeps

LEMMA RetransmitKeeps ==
  ASSUME IInv, NEW e \in Ends, NEW f, Retransmit(e, f)
  PROVE  IInv'
<1>1. NumbersGood /\ QueueGood /\ f \in queue[e] /\ f.sentyet /\ f.retries \in 0 .. MaxRetries - 1
  BY IInvParts DEF Retransmit, Due
<1>2. NumbersGood' /\ Grown /\ sent' = sent /\ got' = got /\ error' = error
  BY <1>1, NumbersSame DEF Retransmit, NumbersGood
<1>3. f \in Frames /\ FrameOK(e, f)
  BY <1>1 DEF QueueGood
<1>4. PICK g : g = [n |-> f.n, iseqno |-> iseqno[e], retries |-> f.retries + 1, sentyet |-> f.sentyet]
  OBVIOUS
<1>5. /\ f.n \in Int /\ f.n >= 1 /\ f.sentyet \in BOOLEAN
      /\ f = [n |-> f.n, iseqno |-> f.iseqno, retries |-> f.retries, sentyet |-> f.sentyet]
  BY <1>3, FrameFacts
<1>6. g = [f EXCEPT !.iseqno = iseqno[e], !.retries = f.retries + 1]
  BY <1>3, <1>4, FrameChanged
<1>7. iseqno[e] \in 0 .. 255 /\ iseqno[e] >= First /\ iseqno[e] <= First + got[e]
  BY <1>1, ExpectedOK DEF Byte, SeqMod
<1>8. g \in Frames
  <2>1. f.retries + 1 \in -1 .. MaxRetries
    BY <1>1, TransportConstants
  <2> QED  BY <1>4, <1>5, <1>7, <2>1, FrameIntro
<1>9. PICK Q : Q = (queue[e] \ {f}) \cup {g}
  OBVIOUS
<1>10. /\ queue' = [queue EXCEPT ![e] = Q]
       /\ net' = [net EXCEPT ![Peer[e]] = net[Peer[e]] \cup {Full(g)}]
  BY <1>6, <1>9 DEF Retransmit
<1>11. Q \in SUBSET Frames
  BY <1>1, <1>8, <1>9 DEF QueueGood
<1>12. \A h, k \in Q : h.n = k.n => h = k
  <2>1. \A h, k \in queue[e] : h.n = k.n => h = k
    BY <1>1 DEF QueueGood
  <2>2. g.n = f.n
    BY <1>4
  <2> QED  BY <1>1, <1>9, <2>1, <2>2
<1>13. FrameOK(e, g)
  BY <1>1, <1>3, <1>4, <1>7 DEF FrameOK
<1>14. \A h \in Q : FrameOK(e, h)'
  <2>1. \A h \in Q : FrameOK(e, h) /\ h \in Frames
    BY <1>1, <1>9, <1>11, <1>13 DEF QueueGood
  <2> QED  BY <1>1, <1>2, <2>1, FrameStays
<1>15. PICK d : d = Full(g)
  OBVIOUS
<1>16. {d} \in SUBSET Datagrams /\ DatagramOK(Peer[e], d)
  BY <1>8, <1>13, <1>15, FullOK
<1>17. DatagramOK(Peer[e], d)'
  BY <1>2, <1>16 DEF DatagramOK
<1>18. \A n \in Outstanding(e) : \E h \in Q : h.n = n /\ h.retries >= 0
  <2> SUFFICES ASSUME NEW h \in queue[e], h.retries >= 0
               PROVE  \E k \in Q : k.n = h.n /\ k.retries >= 0
    BY DEF Outstanding
  <2>1. CASE h = f
    <3>1. g \in Q /\ g.n = h.n /\ g.retries >= 0
      BY <2>1, <1>1, <1>4, <1>9
    <3> QED  BY <3>1
  <2>2. CASE h # f
    BY <2>2, <1>9
  <2> QED  BY <2>1, <2>2
<1>19. StepOK(e, Q, {d})
  BY <1>2, <1>10, <1>11, <1>12, <1>14, <1>15, <1>16, <1>17, <1>18 DEF StepOK
<1> QED  BY <1>19, StepKeeps

\* A frame leaves the queue because it is acknowledged or the call is broken.
LEMMA DropKeeps ==
  ASSUME IInv, NEW e \in Ends, NEW f, Acknowledged(e, f) \/ GiveUp(e, f)
  PROVE  IInv'
<1>1. NumbersGood /\ QueueGood /\ f \in queue[e]
  BY IInvParts DEF Acknowledged, GiveUp, Due
<1>2. UNCHANGED <<oseqno, iseqno, rseqno, aseqno, net, sent, got>>
  BY DEF Acknowledged, GiveUp
<1>3. error' = error \/ error' = [error EXCEPT ![e] = TRUE]
  BY DEF Acknowledged, GiveUp
<1>4. error' \in [Ends -> BOOLEAN] /\ \A x \in Ends : error'[x] = FALSE => error[x] = FALSE
  BY <1>1, <1>3 DEF NumbersGood
<1>5. NumbersGood' /\ Grown /\ sent' = sent
  BY <1>1, <1>2, <1>4, NumbersSame
<1>6. PICK Q : Q = queue[e] \ {f}
  OBVIOUS
<1>7. queue' = [queue EXCEPT ![e] = Q]
  BY <1>6 DEF Acknowledged, GiveUp
<1>8. Q \in SUBSET Frames /\ \A h, k \in Q : h.n = k.n => h = k
  BY <1>1, <1>6 DEF QueueGood
<1>9. \A h \in Q : FrameOK(e, h)'
  <2>1. \A h \in Q : FrameOK(e, h) /\ h \in Frames
    BY <1>1, <1>6 DEF QueueGood
  <2> QED  BY <1>1, <1>5, <2>1, FrameStays
<1>10. net' = [net EXCEPT ![Peer[e]] = net[Peer[e]] \cup {}]
  <2>1. net \in [Ends -> SUBSET Datagrams]
    BY IInvParts DEF NetGood
  <2> QED  BY <1>2, <2>1
<1>11. \A n \in Outstanding(e) : error'[e] = TRUE \/ \E h \in Q : h.n = n /\ h.retries >= 0
  <2>1. CASE GiveUp(e, f)
    BY <2>1, <1>1 DEF GiveUp, NumbersGood
  <2>2. CASE Acknowledged(e, f)
    <3>1. f.retries < 0 /\ f.retries \in Int
      BY <2>2, <1>1, FrameFacts DEF Acknowledged, QueueGood
    <3>2. ~(f.retries >= 0)
      BY <3>1
    <3> QED  BY <3>2, <1>6 DEF Outstanding
  <2> QED  BY <2>1, <2>2
<1>12. StepOK(e, Q, {})
  BY <1>4, <1>5, <1>7, <1>8, <1>9, <1>10, <1>11 DEF StepOK
<1> QED  BY <1>12, StepKeeps

-----------------------------------------------------------------------------
(* socket_process                                                           *)

\* The number up to which frames are acknowledged stays one that the peer has
\* reached.
LEMMA AckedFacts ==
  ASSUME IInv, NEW e \in Ends, NEW d \in net[e], NEW r, r = AckedTo(e, d.iseqno)
  PROVE  r \in Byte /\ r >= First /\ r <= First + got[Peer[e]]
<1>1. NumbersGood /\ NetGood
  BY IInvParts
<1>2. r = rseqno[e] \/ r = d.iseqno
  BY DEF AckedTo
<1>3. CASE r = rseqno[e]
  BY <1>1, <1>3 DEF NumbersGood
<1>4. CASE r = d.iseqno
  <2>1. d \in Datagrams /\ DatagramOK(e, d)
    BY <1>1 DEF NetGood
  <2>2. d.iseqno \in Byte
    BY <2>1, DatagramFacts DEF Byte, SeqMod
  <2> QED  BY <1>4, <2>1, <2>2 DEF DatagramOK
<1> QED  BY <1>2, <1>3, <1>4

\* What is left of the queue is good, and keeps what the peer has not received.
LEMMA CancelledGood ==
  ASSUME NoWrap, IInv, NEW e \in Ends, NEW d \in net[e], NEW Q, Q = Cancelled(e, d.iseqno)
  PROVE  /\ Q \in SUBSET Frames
         /\ \A g, h \in Q : g.n = h.n => g = h
         /\ \A g \in Q : FrameOK(e, g)
         /\ \A n \in Outstanding(e) :
              n <= got[Peer[e]] \/ \E g \in Q : g.n = n /\ g.retries >= 0
<1>1. TypeOK /\ Counted /\ Window
  BY DEF IInv
<1>2. /\ Q \subseteq Frames
      /\ \A g \in Q : \E f \in queue[e] :
           /\ g.n = f.n /\ g.iseqno = f.iseqno
           /\ g = f \/ (g.retries = -1 /\ f.n <= got[Peer[e]])
      /\ \A f \in queue[e] : \E g \in Q : g.n = f.n /\ (g = f \/ f.n <= got[Peer[e]])
      /\ \A g, h \in Q : g.n = h.n => g = h
  BY <1>1, CancelledFacts
<1>3. ASSUME NEW g \in Q
      PROVE  FrameOK(e, g)
  <2>1. PICK f \in queue[e] : g.n = f.n /\ g.iseqno = f.iseqno /\ (g = f \/ g.retries = -1)
    BY <1>2
  <2>2. FrameOK(e, f)
    BY <1>1 DEF Window
  <2> QED  BY <2>1, <2>2 DEF FrameOK
<1>4. ASSUME NEW n \in Outstanding(e), ~(n <= got[Peer[e]])
      PROVE  \E g \in Q : g.n = n /\ g.retries >= 0
  <2>1. PICK f \in queue[e] : f.n = n /\ f.retries >= 0
    BY DEF Outstanding
  <2>2. f \in Q
    BY <1>2, <1>4, <2>1
  <2> QED  BY <2>1, <2>2
<1> QED  BY <1>2, <1>3, <1>4

LEMMA ReceiveOtherKeeps ==
  ASSUME IInv, NEW e \in Ends, NEW d, ReceiveOther(e, d)
  PROVE  IInv'
<1>1. NumbersGood /\ QueueGood /\ NetGood
  BY IInvParts
<1>2. /\ oseqno' = oseqno /\ iseqno' = iseqno /\ rseqno' = rseqno /\ queue' = queue
      /\ error' = error /\ sent' = sent /\ got' = got
      /\ aseqno' = [aseqno EXCEPT ![e] = iseqno[e]]
  BY DEF ReceiveOther
<1>3. iseqno[e] \in Byte /\ iseqno[e] >= First /\ iseqno[e] <= First + got[e]
  BY <1>1, ExpectedOK
<1>4. Grown
  <2>1. \A x \in Ends : sent[x] \in Nat /\ got[x] \in Nat
    BY <1>1 DEF NumbersGood
  <2> QED  BY <1>1, <1>2, <2>1 DEF NumbersGood, Grown
<1>5. NumbersGood'
  <2>1. aseqno' \in [Ends -> Byte]
    BY <1>1, <1>2, <1>3 DEF NumbersGood
  <2> QED  BY <1>1, <1>2, <2>1 DEF NumbersGood, Counted
<1>6. PICK a : a = IF Before(Seqno(d.n), iseqno[e]) THEN Ack(iseqno[e]) ELSE Vnak(iseqno[e])
  OBVIOUS
<1>7. net' = [net EXCEPT ![Peer[e]] = net[Peer[e]] \cup {a}]
  BY <1>6 DEF ReceiveOther, Reply
<1>8. a \in Datagrams /\ DatagramOK(Peer[e], a)
  <2>1. a = Ack(iseqno[e]) \/ a = Vnak(iseqno[e])
    BY <1>6
  <2> QED  BY <1>3, <2>1, AckOK
<1>9. DatagramOK(Peer[e], a)'
  BY <1>2, <1>8 DEF DatagramOK
<1>10. PICK Q : Q = queue[e]
  OBVIOUS
<1>11. /\ Q \in SUBSET Frames
       /\ \A g, h \in Q : g.n = h.n => g = h
       /\ \A g \in Q : FrameOK(e, g) /\ g \in Frames
       /\ queue' = [queue EXCEPT ![e] = Q]
  BY <1>1, <1>2, <1>10 DEF QueueGood
<1>12. \A g \in Q : FrameOK(e, g)'
  BY <1>1, <1>4, <1>11, FrameStays
<1>13. \A n \in Outstanding(e) : \E g \in Q : g.n = n /\ g.retries >= 0
  BY <1>10 DEF Outstanding
<1>14. StepOK(e, Q, {a})
  BY <1>2, <1>4, <1>5, <1>7, <1>8, <1>9, <1>11, <1>12, <1>13 DEF StepOK
<1> QED  BY <1>14, StepKeeps

\* A datagram that only acknowledges.
LEMMA ReceiveAckKeeps ==
  ASSUME NoWrap, IInv, NEW e \in Ends, NEW d \in net[e], ReceiveAck(e, d) \/ ReceiveVnak(e, d)
  PROVE  IInv'
<1>1. NumbersGood /\ QueueGood /\ NetGood
  BY IInvParts
<1>2. /\ oseqno' = oseqno /\ iseqno' = iseqno /\ aseqno' = aseqno
      /\ error' = error /\ sent' = sent /\ got' = got
      /\ rseqno' = [rseqno EXCEPT ![e] = AckedTo(e, d.iseqno)]
  BY DEF ReceiveAck, ReceiveVnak
<1>3. Grown
  <2>1. \A x \in Ends : sent[x] \in Nat /\ got[x] \in Nat
    BY <1>1 DEF NumbersGood
  <2> QED  BY <1>1, <1>2, <2>1 DEF NumbersGood, Grown
<1>4. NumbersGood'
  <2>1. PICK r : r = AckedTo(e, d.iseqno)
    OBVIOUS
  <2>2. r \in Byte /\ r >= First /\ r <= First + got[Peer[e]]
    BY <2>1, AckedFacts
  <2>3. rseqno' = [rseqno EXCEPT ![e] = r]
    BY <1>2, <2>1
  <2>4. rseqno' \in [Ends -> Byte]
    BY <1>1, <2>2, <2>3 DEF NumbersGood
  <2>5. \A x \in Ends : rseqno'[x] >= First /\ rseqno'[x] <= First + got'[Peer[x]]
    BY <1>1, <1>2, <2>2, <2>3 DEF NumbersGood
  <2> QED  BY <1>1, <1>2, <2>4, <2>5 DEF NumbersGood, Counted
<1>5. PICK Q : Q = Cancelled(e, d.iseqno)
  OBVIOUS
<1>6. /\ Q \in SUBSET Frames
      /\ \A g, h \in Q : g.n = h.n => g = h
      /\ \A g \in Q : FrameOK(e, g)
      /\ \A n \in Outstanding(e) :
           n <= got[Peer[e]] \/ \E g \in Q : g.n = n /\ g.retries >= 0
  BY <1>5, CancelledGood
<1>7. queue' = [queue EXCEPT ![e] = Q]
  BY <1>5 DEF ReceiveAck, ReceiveVnak
<1>8. \A g \in Q : FrameOK(e, g)'
  <2>1. \A g \in Q : FrameOK(e, g) /\ g \in Frames
    BY <1>6
  <2> QED  BY <1>1, <1>3, <2>1, FrameStays
<1>9. PICK D \in SUBSET Datagrams :
        /\ \A a \in D : DatagramOK(Peer[e], a)
        /\ net' = [net EXCEPT ![Peer[e]] = net[Peer[e]] \cup D]
  <2>1. CASE ReceiveAck(e, d)
    <3>1. net' = [net EXCEPT ![Peer[e]] = net[Peer[e]] \cup {}]
      BY <2>1, <1>1 DEF ReceiveAck, NetGood
    <3> QED  BY <3>1
  <2>2. CASE ReceiveVnak(e, d)
    <3>1. queue'[e] = Q
      BY <1>1, <1>7 DEF QueueGood
    <3>2. PICK G : G = {g \in Q : g.retries >= 0 /\ Before(d.iseqno, Seqno(g.n))}
      OBVIOUS
    <3>3. PICK D : D = {Full(f) : f \in G}
      OBVIOUS
    <3>4. net' = [net EXCEPT ![Peer[e]] = net[Peer[e]] \cup D]
      BY <2>2, <3>1, <3>2, <3>3 DEF ReceiveVnak, Reply
    <3>5. \A f \in G : Full(f) \in Datagrams /\ DatagramOK(Peer[e], Full(f))
      <4>1. \A f \in G : f \in Frames /\ FrameOK(e, f)
        BY <1>6, <3>2
      <4> QED  BY <4>1, FullOK
    <3>6. D \in SUBSET Datagrams /\ \A a \in D : DatagramOK(Peer[e], a)
      BY <3>3, <3>5
    <3> QED  BY <3>4, <3>6
  <2> QED  BY <2>1, <2>2
<1>10. \A a \in D : DatagramOK(Peer[e], a)'
  BY <1>2, <1>9 DEF DatagramOK
<1>11. StepOK(e, Q, D)
  BY <1>2, <1>3, <1>4, <1>6, <1>7, <1>8, <1>9, <1>10 DEF StepOK
<1> QED  BY <1>11, StepKeeps

\* The frame that is taken for the next one is the next one.
LEMMA NextFrame ==
  ASSUME NoWrap, IInv, NEW e \in Ends, NEW d \in net[e], ReceiveNext(e, d)
  PROVE  /\ d.n = got[e] + 1 /\ d.n <= sent[Peer[e]]
         /\ (iseqno[e] + 1) % SeqMod = First + got[e] + 1
         /\ First + got[e] + 1 <= 255
<1>1. TypeOK /\ Counted /\ Window
  BY DEF IInv
<1>2. d.kind = "full" /\ Seqno(d.n) = iseqno[e]
  BY DEF ReceiveNext
<1>3. Peer[e] \in Ends /\ MaxFrames[Peer[e]] \in Nat /\ First \in 0 .. 255
  BY TransportConstants
<1>4. got[e] \in Nat /\ sent[Peer[e]] \in Nat /\ d \in Datagrams
  BY <1>1, <1>3, EndFacts
<1>5. d.n \in Int /\ d.n >= 1
  BY <1>2, <1>4, DatagramFacts
<1>6. d.n <= sent[Peer[e]] /\ sent[Peer[e]] <= MaxFrames[Peer[e]] /\ iseqno[e] = First + got[e]
  BY <1>1, <1>2, <1>3 DEF Window, DatagramOK, Counted
<1>7. d.n <= MaxFrames[Peer[e]]
  BY <1>3, <1>4, <1>5, <1>6
<1>8. Seqno(d.n) = First + d.n - 1
  BY <1>3, <1>5, <1>7, SeqnoPlain
<1>9. d.n = got[e] + 1
  BY <1>2, <1>3, <1>4, <1>5, <1>6, <1>8
<1>10. got[e] \in Int /\ got[e] >= 0 /\ got[e] < MaxFrames[Peer[e]]
  BY <1>3, <1>4, <1>7, <1>9
<1>11. (First + got[e] + 1) % SeqMod = First + got[e] + 1 /\ First + got[e] + 1 <= 255
  BY <1>3, <1>10, NextPlain
<1> QED  BY <1>6, <1>9, <1>11

LEMMA ReceiveNextKeeps ==
  ASSUME NoWrap, IInv, NEW e \in Ends, NEW d \in net[e], ReceiveNext(e, d)
  PROVE  IInv'
<1>1. NumbersGood /\ QueueGood /\ NetGood
  BY IInvParts
<1>2. PICK k, i : k = got[e] + 1 /\ i = First + got[e] + 1
  OBVIOUS
<1>3. /\ d.n = k /\ k <= sent[Peer[e]] /\ i <= 255
      /\ (iseqno[e] + 1) % SeqMod = i
  BY <1>2, NextFrame
<1>4. /\ got[e] \in Nat /\ sent[e] \in Nat /\ First \in 0 .. 255
      /\ Peer[e] \in Ends /\ Peer[e] # e /\ Peer[Peer[e]] = e
  BY <1>1, TransportConstants DEF NumbersGood
<1>5. k \in Nat /\ i \in Byte /\ i = First + k /\ i >= First
  <2>1. k \in Nat /\ i = First + k /\ i >= First /\ i \in Int /\ i >= 0
    BY <1>2, <1>4
  <2>2. i \in 0 .. 255
    <3>1. i <= 255
      BY <1>3
    <3> QED  BY <2>1, <3>1
  <2> QED  BY <2>1, <2>2 DEF Byte, SeqMod
<1>6. /\ oseqno' = oseqno /\ error' = error /\ sent' = sent
      /\ rseqno' = [rseqno EXCEPT ![e] = AckedTo(e, d.iseqno)]
      /\ iseqno' = [iseqno EXCEPT ![e] = (iseqno[e] + 1) % SeqMod]
      /\ got' = [got EXCEPT ![e] = d.n]
      /\ aseqno' = [aseqno EXCEPT ![e] = iseqno'[e]]
  BY DEF ReceiveNext
<1>7. got' = [got EXCEPT ![e] = k] /\ iseqno' = [iseqno EXCEPT ![e] = i]
  BY <1>3, <1>6
<1>8. iseqno'[e] = i /\ got'[e] = k /\ aseqno' = [aseqno EXCEPT ![e] = i]
  BY <1>1, <1>6, <1>7 DEF NumbersGood
<1>9. \A x \in Ends : /\ got[x] \in Nat /\ sent[x] \in Nat /\ Peer[x] \in Ends
                      /\ x # e => got'[x] = got[x] /\ iseqno'[x] = iseqno[x]
  BY <1>1, <1>7, TransportConstants DEF NumbersGood
<1>10. Grown
  <2>1. got' \in [Ends -> Nat]
    BY <1>1, <1>5, <1>7 DEF NumbersGood
  <2>2. \A x \in Ends : sent[x] <= sent'[x] /\ got[x] <= got'[x]
    BY <1>2, <1>4, <1>6, <1>8, <1>9
  <2> QED  BY <1>1, <1>6, <2>1, <2>2 DEF NumbersGood, Grown
<1>11. Counted'
  <2> SUFFICES ASSUME NEW x \in Ends
               PROVE  /\ iseqno'[x] = First + got'[x]
                      /\ got'[x] <= sent[Peer[x]]
    BY <1>1, <1>6 DEF NumbersGood, Counted
  <2>1. iseqno[x] = First + got[x] /\ got[x] <= sent[Peer[x]]
    BY <1>1 DEF NumbersGood, Counted
  <2>2. CASE x = e
    BY <2>2, <1>3, <1>5, <1>8
  <2>3. CASE x # e
    BY <2>1, <2>3, <1>9
  <2> QED  BY <2>2, <2>3
<1>12. NumbersGood'
  <2>1. PICK r : r = AckedTo(e, d.iseqno)
    OBVIOUS
  <2>2. r \in Byte /\ r >= First /\ r <= First + got[Peer[e]]
    BY <2>1, AckedFacts
  <2>3. rseqno' = [rseqno EXCEPT ![e] = r]
    BY <1>6, <2>1
  <2>4. rseqno' \in [Ends -> Byte] /\ iseqno' \in [Ends -> Byte] /\ aseqno' \in [Ends -> Byte]
    BY <1>1, <1>5, <1>7, <1>8, <2>2, <2>3 DEF NumbersGood
  <2>5. ASSUME NEW x \in Ends
        PROVE  rseqno'[x] >= First /\ rseqno'[x] <= First + got'[Peer[x]]
    <3>1. rseqno'[x] >= First /\ rseqno'[x] <= First + got[Peer[x]] /\ rseqno'[x] \in Int
      <4>1. rseqno'[x] \in Byte
        BY <2>4
      <4>2. rseqno'[x] = IF x = e THEN r ELSE rseqno[x]
        BY <1>1, <2>3 DEF NumbersGood
      <4>3. rseqno[x] >= First /\ rseqno[x] <= First + got[Peer[x]]
        BY <1>1 DEF NumbersGood
      <4> QED  BY <2>2, <4>1, <4>2, <4>3 DEF Byte, SeqMod
    <3>2. Peer[x] \in Ends /\ First \in Int
      BY <1>4, <1>9
    <3>3. got[Peer[x]] \in Int /\ got'[Peer[x]] \in Int /\ got[Peer[x]] <= got'[Peer[x]]
      BY <3>2, <1>1, <1>10, GrownFacts
    <3> QED  BY <3>1, <3>2, <3>3
  <2> QED  BY <1>1, <1>6, <1>10, <1>11, <2>4, <2>5 DEF NumbersGood, Grown
<1>13. PICK Q : Q = Cancelled(e, d.iseqno)
  OBVIOUS
<1>14. /\ Q \in SUBSET Frames
       /\ \A g, h \in Q : g.n = h.n => g = h
       /\ \A g \in Q : FrameOK(e, g)
       /\ \A n \in Outstanding(e) :
            n <= got[Peer[e]] \/ \E g \in Q : g.n = n /\ g.retries >= 0
  BY <1>13, CancelledGood
<1>15. queue' = [queue EXCEPT ![e] = Q]
  BY <1>13 DEF ReceiveNext
<1>16. \A g \in Q : FrameOK(e, g)'
  <2>1. \A g \in Q : FrameOK(e, g) /\ g \in Frames
    BY <1>14
  <2> QED  BY <1>1, <1>10, <2>1, FrameStays
<1>17. PICK a : a = Ack(i)
  OBVIOUS
<1>18. a \in Datagrams /\ DatagramOK(Peer[e], a)'
  <2>1. a.iseqno = i /\ a.kind = "ack" /\ a \in Datagrams
    BY <1>5, <1>17 DEF Ack, Datagrams
  <2> QED  BY <2>1, <1>4, <1>5, <1>8 DEF DatagramOK
<1>19. PICK D : D = IF aseqno[e] # i THEN {a} ELSE {}
  OBVIOUS
<1>20. net' = [net EXCEPT ![Peer[e]] = net[Peer[e]] \cup D]
  BY <1>8, <1>17, <1>19 DEF ReceiveNext, Reply
<1>21. D \in SUBSET Datagrams /\ \A b \in D : DatagramOK(Peer[e], b)'
  BY <1>18, <1>19
<1>22. StepOK(e, Q, D)
  BY <1>6, <1>10, <1>12, <1>14, <1>15, <1>16, <1>20, <1>21 DEF StepOK
<1> QED  BY <1>22, StepKeeps

LEMMA NextKeeps ==
  ASSUME NoWrap, IInv, [Next]_vars
  PROVE  IInv'
<1>1. CASE UNCHANGED vars
  BY <1>1 DEF vars, IInv, TypeOK, Counted, Window, FrameOK, DatagramOK, Kept, Outstanding
<1>2. CASE Next
  <2>1. PICK e \in Ends : \/ Send(e)
                          \/ \E f \in queue[e] : Transmit(e, f)
                          \/ \E d \in net[e] : Receive(e, d)
    BY <1>2 DEF Next
  <2>2. CASE Send(e)
    BY <2>2, SendKeeps
  <2>3. ASSUME NEW f \in queue[e], Transmit(e, f)
        PROVE  IInv'
    BY <2>3, FirstTransmitKeeps, RetransmitKeeps, DropKeeps DEF Transmit
  <2>4. ASSUME NEW d \in net[e], Receive(e, d)
        PROVE  IInv'
    BY <2>4, ReceiveNextKeeps, ReceiveOtherKeeps, ReceiveAckKeeps DEF Receive
  <2> QED  BY <2>1, <2>2, <2>3, <2>4
<1> QED  BY <1>1, <1>2

LEMMA Invariant ==
  ASSUME NoWrap
  PROVE  Spec => []IInv
<1>1. Init => IInv
  BY InitHolds
<1>2. NoWrap /\ IInv /\ [Next]_vars => IInv'
  BY NextKeeps
<1> QED  BY <1>1, <1>2, PTL DEF Spec

\* Types and one queue entry for each frame, in every call whose numbers do not
\* wrap.
THEOREM TypesHold ==
  ASSUME NoWrap
  PROVE  Spec => []TypeOK
<1>1. IInv => TypeOK
  BY DEF IInv
<1> QED  BY <1>1, Invariant, PTL

\* The implicit acknowledgement of socket_process cancels no frame that the peer
\* has not received, in every call whose numbers do not wrap.
THEOREM CancelledHasArrived ==
  ASSUME NoWrap
  PROVE  Spec => []CancelledReceived
<1>1. IInv => CancelledReceived
  <2> SUFFICES ASSUME IInv, NEW e \in Ends, ~error[e], NEW n \in Done(e)
               PROVE  n \in 1 .. got[Peer[e]]
    BY DEF CancelledReceived
  <2>1. Kept /\ got[Peer[e]] \in Nat /\ sent[e] \in Nat
    BY TransportConstants DEF IInv, TypeOK
  <2>2. n \in 1 .. sent[e] /\ n \notin Outstanding(e)
    BY DEF Done
  <2>3. ~(n > got[Peer[e]])
    BY <2>1, <2>2 DEF Kept
  <2> QED  BY <2>1, <2>2, <2>3
<1> QED  BY <1>1, Invariant, PTL

-----------------------------------------------------------------------------
(* The link is the one ReliableLink describes.                              *)

\* What an end takes for received
LEMMA ConfirmedFacts ==
  ASSUME NEW e \in Ends
  PROVE  Confirmed[e] = IF error[e] THEN {} ELSE Done(e)
BY DEF Confirmed

LEMMA ConfirmedNext ==
  ASSUME NEW e \in Ends
  PROVE  Confirmed'[e] = IF error'[e] THEN {} ELSE Done(e)'
BY DEF Confirmed

\* A step of e after which its outstanding frames are among those it had.
LEMMA ConfirmStep ==
  ASSUME IInv, IInv', NEW e \in Ends, sent' = sent, error' = error,
         got'[Peer[e]] = got[Peer[e]],
         Outstanding(e)' \subseteq Outstanding(e),
         \A x \in Ends : x # e => queue'[x] = queue[x]
  PROVE  Link!Confirm(e)
<1>1. \A x \in Ends : x # e => Confirmed'[x] = Confirmed[x]
  <2> SUFFICES ASSUME NEW x \in Ends, x # e
               PROVE  Confirmed'[x] = Confirmed[x]
    OBVIOUS
  <2>1. Done(x)' = Done(x)
    BY DEF Done, Outstanding
  <2> QED  BY <2>1, ConfirmedFacts, ConfirmedNext
<1>2. DOMAIN Confirmed = Ends /\ DOMAIN Confirmed' = Ends
  BY DEF Confirmed
<1>3. CASE error[e]
  <2>1. Confirmed'[e] = Confirmed[e]
    BY <1>3, ConfirmedFacts, ConfirmedNext
  <2>2. Confirmed' = Confirmed
    BY <1>1, <2>1 DEF Confirmed
  <2> QED  BY <2>2 DEF Link!Confirm
<1>4. CASE ~error[e]
  <2>1. Confirmed[e] = Done(e) /\ Confirmed'[e] = Done(e)'
    BY <1>4, ConfirmedFacts, ConfirmedNext
  <2>2. Done(e) \subseteq Done(e)'
    BY DEF Done
  <2>3. Done(e)' \subseteq 1 .. got[Peer[e]]
    <3>1. Kept' /\ ~error'[e]
      BY <1>4 DEF IInv
    <3>2. got[Peer[e]] \in Nat /\ sent[e] \in Nat
      BY TransportConstants DEF IInv, TypeOK
    <3> SUFFICES ASSUME NEW n \in Done(e)'
                 PROVE  n \in 1 .. got[Peer[e]]
      OBVIOUS
    <3>3. n \in 1 .. sent'[e] /\ n \notin Outstanding(e)'
      BY DEF Done
    <3>4. ~(n > got'[Peer[e]])
      BY <3>1, <3>3 DEF Kept
    <3> QED  BY <3>2, <3>3, <3>4
  <2>4. PICK more : more = Done(e)'
    OBVIOUS
  <2>5. Confirmed' = [Confirmed EXCEPT ![e] = Confirmed[e] \cup more]
    <3>1. Confirmed'[e] = Confirmed[e] \cup more
      BY <2>1, <2>2, <2>4
    <3> QED  BY <1>1, <3>1 DEF Confirmed
  <2>6. more \in SUBSET (1 .. got[Peer[e]])
    BY <2>3, <2>4
  <2> QED  BY <1>4, <2>5, <2>6 DEF Link!Confirm
<1> QED  BY <1>3, <1>4

\* Nothing that the properties see happens.
LEMMA StutterStep ==
  ASSUME sent' = sent, got' = got, error' = error,
         \A x \in Ends : Outstanding(x)' = Outstanding(x)
  PROVE  UNCHANGED <<sent, got, Confirmed, error>>
<1>1. \A x \in Ends : Done(x)' = Done(x)
  BY DEF Done
<1> QED  BY <1>1 DEF Confirmed

\* The frames that an acknowledgement leaves outstanding were outstanding.
LEMMA CancelledLess ==
  ASSUME NoWrap, IInv, NEW e \in Ends, NEW d \in net[e],
         queue' = [queue EXCEPT ![e] = Cancelled(e, d.iseqno)]
  PROVE  /\ Outstanding(e)' \subseteq Outstanding(e)
         /\ \A x \in Ends : x # e => queue'[x] = queue[x]
<1>1. PICK Q : Q = Cancelled(e, d.iseqno)
  OBVIOUS
<1>2. \A g \in Q : \E f \in queue[e] : g.n = f.n /\ (g = f \/ g.retries = -1)
  BY <1>1, CancelledFacts DEF IInv
<1>3. QueueGood
  BY IInvParts
<1>4. queue'[e] = Q /\ \A x \in Ends : x # e => queue'[x] = queue[x]
  BY <1>1, <1>3 DEF QueueGood
<1>5. Outstanding(e)' \subseteq Outstanding(e)
  <2> SUFFICES ASSUME NEW g \in Q, g.retries >= 0
               PROVE  g.n \in Outstanding(e)
    BY <1>4 DEF Outstanding
  <2>1. PICK f \in queue[e] : g.n = f.n /\ (g = f \/ g.retries = -1)
    BY <1>2
  <2>2. g = f
    BY <2>1
  <2> QED  BY <2>2 DEF Outstanding
<1> QED  BY <1>4, <1>5

\* A frame that is transmitted, or leaves the queue acknowledged, is outstanding
\* after that if it was before.
LEMMA TransmitSame ==
  ASSUME IInv, NEW e \in Ends, NEW f \in queue[e],
         FirstTransmit(e, f) \/ Retransmit(e, f) \/ Acknowledged(e, f)
  PROVE  \A x \in Ends : Outstanding(x)' = Outstanding(x)
<1>1. QueueGood /\ f \in Frames
  BY IInvParts DEF QueueGood
<1>2. f.retries \in -1 .. MaxRetries /\ f.retries \in Int
  BY <1>1, FrameFacts, TransportConstants
<1> DEFINE Becomes(G) == /\ queue' = [queue EXCEPT ![e] = (queue[e] \ {f}) \cup G]
                         /\ \A g \in G : g.n = f.n /\ g.retries >= 0 /\ f.retries >= 0
                         /\ f.retries >= 0 => G # {}
<1>3. \E G : Becomes(G)
  <2>1. CASE FirstTransmit(e, f)
    <3>1. PICK g : g = [f EXCEPT !.sentyet = TRUE, !.retries = f.retries + 1]
      OBVIOUS
    <3>2. g.n = f.n /\ g.retries = f.retries + 1
      BY <1>1, <3>1, FrameChanged
    <3>3. PICK G : G = IF f.retries >= 0 THEN {g} ELSE {}
      OBVIOUS
    <3>4. queue' = [queue EXCEPT ![e] = (queue[e] \ {f}) \cup G]
      BY <2>1, <3>1, <3>3 DEF FirstTransmit
    <3>5. f.retries >= 0 => g.retries >= 0
      BY <1>2, <3>2
    <3>6. Becomes(G)
      BY <3>2, <3>3, <3>4, <3>5
    <3> HIDE DEF Becomes
    <3> QED  BY <3>6
  <2>2. CASE Retransmit(e, f)
    <3>1. PICK g : g = [f EXCEPT !.iseqno = iseqno[e], !.retries = f.retries + 1]
      OBVIOUS
    <3>2. g.n = f.n /\ g.retries = f.retries + 1
      BY <1>1, <3>1, FrameChanged
    <3>3. queue' = [queue EXCEPT ![e] = (queue[e] \ {f}) \cup {g}]
      BY <2>2, <3>1 DEF Retransmit
    <3>4. f.retries >= 0 /\ g.retries >= 0
      BY <2>2, <1>2, <3>2 DEF Retransmit
    <3>5. Becomes({g})
      BY <3>2, <3>3, <3>4
    <3> HIDE DEF Becomes
    <3> QED  BY <3>5
  <2>3. CASE Acknowledged(e, f)
    <3>1. queue' = [queue EXCEPT ![e] = (queue[e] \ {f}) \cup {}]
      BY <2>3 DEF Acknowledged
    <3>2. ~(f.retries >= 0)
      BY <2>3, <1>2 DEF Acknowledged
    <3>3. Becomes({})
      BY <3>1, <3>2
    <3> HIDE DEF Becomes
    <3> QED  BY <3>3
  <2> QED  BY <2>1, <2>2, <2>3
<1>4. PICK G : Becomes(G)
  BY <1>3
<1>5. /\ queue'[e] = (queue[e] \ {f}) \cup G
      /\ \A x \in Ends : x # e => queue'[x] = queue[x]
  BY <1>1, <1>4 DEF QueueGood
<1>6. Outstanding(e)' = Outstanding(e)
  <2>1. ASSUME NEW n \in Outstanding(e)
        PROVE  n \in Outstanding(e)'
    <3>1. PICK h \in queue[e] : h.n = n /\ h.retries >= 0
      BY DEF Outstanding
    <3>2. CASE h = f
      <4>1. PICK g \in G : g.n = f.n /\ g.retries >= 0
        BY <1>4, <3>1, <3>2
      <4>2. g \in queue'[e] /\ g.n = n
        BY <1>5, <3>1, <3>2, <4>1
      <4> QED  BY <4>1, <4>2 DEF Outstanding
    <3>3. CASE h # f
      <4>1. h \in queue'[e]
        BY <1>5, <3>3
      <4> QED  BY <3>1, <4>1 DEF Outstanding
    <3> QED  BY <3>2, <3>3
  <2>2. ASSUME NEW n \in Outstanding(e)'
        PROVE  n \in Outstanding(e)
    <3>1. PICK h \in queue'[e] : h.n = n /\ h.retries >= 0
      BY DEF Outstanding
    <3>2. CASE h \in G
      <4>1. n = f.n /\ f.retries >= 0
        BY <1>4, <3>1, <3>2
      <4> QED  BY <4>1 DEF Outstanding
    <3>3. CASE h \in queue[e]
      BY <3>1, <3>3 DEF Outstanding
    <3> QED  BY <1>5, <3>2, <3>3
  <2> QED  BY <2>1, <2>2
<1> QED  BY <1>5, <1>6 DEF Outstanding

LEMMA LinkSendStep ==
  ASSUME IInv, IInv', NEW e \in Ends, Send(e)
  PROVE  Link!LinkSend(e)
<1>1. /\ sent' = [sent EXCEPT ![e] = sent[e] + 1] /\ ~error[e]
      /\ got' = got /\ error' = error
  BY DEF Send
<1>2. QueueGood /\ Kept' /\ sent \in [Ends -> Nat] /\ \A f \in queue[e] : FrameOK(e, f)
  BY IInvParts DEF IInv, TypeOK, Window
<1>3. PICK new : new = [n |-> sent[e] + 1, iseqno |-> iseqno[e], retries |-> 0, sentyet |-> FALSE]
  OBVIOUS
<1>4. queue' = [queue EXCEPT ![e] = queue[e] \cup {new}]
  BY <1>3 DEF Send
<1>5. /\ queue'[e] = queue[e] \cup {new} /\ sent'[e] = sent[e] + 1
      /\ \A x \in Ends : x # e => queue'[x] = queue[x] /\ sent'[x] = sent[x]
  BY <1>1, <1>2, <1>4 DEF QueueGood
<1>6. Outstanding(e)' = Outstanding(e) \cup {sent[e] + 1}
  <2>1. new.n = sent[e] + 1 /\ new.retries >= 0
    BY <1>3
  <2> QED  BY <1>5, <2>1 DEF Outstanding
<1>7. Done(e)' = Done(e)
  <2>1. sent[e] \in Nat
    BY <1>2
  <2>2. 1 .. sent'[e] = (1 .. sent[e]) \cup {sent[e] + 1} /\ sent[e] + 1 \notin 1 .. sent[e]
    BY <1>5, <2>1
  <2> QED  BY <1>6, <2>2 DEF Done
<1>8. \A x \in Ends : Done(x)' = Done(x)
  BY <1>5, <1>7 DEF Done, Outstanding
<1>9. Confirmed' = Confirmed
  BY <1>1, <1>8 DEF Confirmed
<1> QED  BY <1>1, <1>9 DEF Link!LinkSend

LEMMA LinkGiveUpStep ==
  ASSUME IInv, NEW e \in Ends, NEW f \in queue[e], GiveUp(e, f)
  PROVE  Link!LinkGiveUp(e)
<1>1. /\ sent' = sent /\ got' = got /\ error' = [error EXCEPT ![e] = TRUE]
      /\ queue' = [queue EXCEPT ![e] = queue[e] \ {f}]
  BY DEF GiveUp
<1>2. QueueGood /\ error \in [Ends -> BOOLEAN]
  BY IInvParts DEF IInv, TypeOK
<1>3. /\ error'[e] = TRUE
      /\ \A x \in Ends : x # e => queue'[x] = queue[x] /\ error'[x] = error[x]
  BY <1>1, <1>2 DEF QueueGood
<1>4. Confirmed'[e] = {}
  BY <1>3, ConfirmedNext
<1>5. ASSUME NEW x \in Ends, x # e
      PROVE  Confirmed'[x] = Confirmed[x]
  <2>1. Done(x)' = Done(x)
    BY <1>1, <1>3, <1>5 DEF Done, Outstanding
  <2> QED  BY <1>3, <1>5, <2>1, ConfirmedFacts, ConfirmedNext
<1>6. Confirmed' = [Confirmed EXCEPT ![e] = {}]
  BY <1>4, <1>5 DEF Confirmed
<1> QED  BY <1>1, <1>6 DEF Link!LinkGiveUp

LEMMA LinkReceiveStep ==
  ASSUME NoWrap, IInv, IInv', NEW e \in Ends, NEW d \in net[e], ReceiveNext(e, d)
  PROVE  Link!LinkReceive(e)
<1>1. /\ sent' = sent /\ error' = error /\ got' = [got EXCEPT ![e] = d.n]
      /\ queue' = [queue EXCEPT ![e] = Cancelled(e, d.iseqno)]
  BY DEF ReceiveNext
<1>2. d.n = got[e] + 1 /\ d.n <= sent[Peer[e]]
  BY NextFrame
<1>3. /\ got \in [Ends -> Nat] /\ sent \in [Ends -> Nat]
      /\ Peer[e] \in Ends /\ Peer[e] # e
  BY TransportConstants DEF IInv, TypeOK
<1>4. got[e] < sent[Peer[e]]
  <2>1. got[e] \in Nat /\ sent[Peer[e]] \in Nat
    BY <1>3
  <2> QED  BY <1>2, <2>1
<1>5. got' = [got EXCEPT ![e] = got[e] + 1]
  BY <1>1, <1>2
<1>6. got'[Peer[e]] = got[Peer[e]]
  BY <1>1, <1>3
<1>7. Link!Confirm(e)
  BY <1>1, <1>6, CancelledLess, ConfirmStep
<1> QED  BY <1>1, <1>4, <1>5, <1>7 DEF Link!LinkReceive

\* Every step is a step of the reliable link, or none.
LEMMA LinkStep ==
  ASSUME NoWrap, IInv, IInv', [Next]_vars
  PROVE  [Link!LinkNext]_(Link!linkVars)
<1>1. CASE UNCHANGED vars
  <2>1. \A x \in Ends : Outstanding(x)' = Outstanding(x)
    BY <1>1 DEF vars, Outstanding
  <2> QED  BY <1>1, <2>1, StutterStep DEF vars, Link!linkVars
<1>2. CASE Next
  <2>1. PICK e \in Ends : \/ Send(e)
                          \/ \E f \in queue[e] : Transmit(e, f)
                          \/ \E d \in net[e] : Receive(e, d)
    BY <1>2 DEF Next
  <2>2. Peer[e] \in Ends /\ Peer[e] # e
    BY TransportConstants
  <2>3. CASE Send(e)
    BY <2>3, LinkSendStep DEF Link!LinkNext
  <2>4. ASSUME NEW f \in queue[e], Transmit(e, f)
        PROVE  [Link!LinkNext]_(Link!linkVars)
    <3>1. CASE FirstTransmit(e, f) \/ Retransmit(e, f) \/ Acknowledged(e, f)
      <4>1. \A x \in Ends : Outstanding(x)' = Outstanding(x)
        BY <3>1, TransmitSame
      <4>2. sent' = sent /\ got' = got /\ error' = error
        BY <3>1 DEF FirstTransmit, Retransmit, Acknowledged
      <4> QED  BY <4>1, <4>2, StutterStep DEF Link!linkVars
    <3>2. CASE GiveUp(e, f)
      BY <3>2, LinkGiveUpStep DEF Link!LinkNext
    <3> QED  BY <2>4, <3>1, <3>2 DEF Transmit
  <2>5. ASSUME NEW d \in net[e], Receive(e, d)
        PROVE  [Link!LinkNext]_(Link!linkVars)
    <3>1. CASE ReceiveNext(e, d)
      BY <3>1, LinkReceiveStep DEF Link!LinkNext
    <3>2. CASE ReceiveOther(e, d)
      <4>1. sent' = sent /\ got' = got /\ error' = error /\ queue' = queue
        BY <3>2 DEF ReceiveOther
      <4>2. \A x \in Ends : Outstanding(x)' = Outstanding(x)
        BY <4>1 DEF Outstanding
      <4> QED  BY <4>1, <4>2, StutterStep DEF Link!linkVars
    <3>3. CASE ReceiveAck(e, d) \/ ReceiveVnak(e, d)
      <4>1. /\ sent' = sent /\ got' = got /\ error' = error
            /\ queue' = [queue EXCEPT ![e] = Cancelled(e, d.iseqno)]
        BY <3>3 DEF ReceiveAck, ReceiveVnak
      <4>2. Link!Confirm(e)
        BY <4>1, CancelledLess, ConfirmStep
      <4>3. Link!LinkConfirm(e)
        BY <4>1, <4>2 DEF Link!LinkConfirm
      <4> QED  BY <4>3 DEF Link!LinkNext
    <3> QED  BY <2>5, <3>1, <3>2, <3>3 DEF Receive
  <2> QED  BY <2>1, <2>3, <2>4, <2>5
<1> QED  BY <1>1, <1>2

\* The numbered full frames are a reliable link, in every call whose numbers do
\* not wrap: what is lost, doubled or overtaken on the way does not show.
THEOREM LinkImplemented ==
  ASSUME NoWrap
  PROVE  Spec => LinkSpec
<1>1. Init => Link!LinkInit
  <2> SUFFICES ASSUME Init PROVE Link!LinkInit
    OBVIOUS
  <2>1. \A x \in Ends : sent[x] = 0 /\ error[x] = FALSE
    BY DEF Init
  <2>2. \A x \in Ends : Confirmed[x] = {}
    BY <2>1, ConfirmedFacts DEF Done
  <2>3. Confirmed = [x \in Ends |-> {}]
    BY <2>2 DEF Confirmed
  <2> QED  BY <2>3 DEF Init, Link!LinkInit
<1>2. NoWrap /\ IInv /\ IInv' /\ [Next]_vars => [Link!LinkNext]_(Link!linkVars)
  BY LinkStep
<1> QED  BY <1>1, <1>2, Invariant, PTL DEF Spec, LinkSpec, Link!LinkSpec

-----------------------------------------------------------------------------
(* The answer to a frame that is not expected.  The test takes numbers less *)
(* than half the byte apart: over more frames a late duplicate is taken for *)
(* a new one.                                                               *)

\* The test in plain numbers: s comes before i, less than half a byte apart.
LEMMA BeforePlain ==
  ASSUME NEW s \in Int, NEW i \in Int, s # i, i - s <= 127, s - i <= 127
  PROVE  Before(s, i) <=> s < i
<1>1. CASE s < i
  BY <1>1 DEF Before, SeqMod
<1>2. CASE ~(s < i)
  <2>1. (i - s) % 256 = i - s + 256
    BY <1>2
  <2>2. i - s + 256 >= 128
    OBVIOUS
  <2> QED  BY <1>2, <2>1, <2>2 DEF Before, SeqMod
<1> QED  BY <1>1, <1>2

\* The test for old frames in socket_process, in every call of at most 127
\* frames each way: what has been received is acknowledged again, what is
\* missing is asked for.
THEOREM AnswersAreTrue ==
  ASSUME NoWrap, \A e \in Ends : MaxFrames[e] <= 127
  PROVE  Spec => AnswerTrue
<1> DEFINE Answer(e, d) ==
      \/ Ack(iseqno[e]) \in net'[Peer[e]] /\ d.n <= got[e]
      \/ Vnak(iseqno[e]) \in net'[Peer[e]] /\ d.n > got[e]
<1>1. ASSUME IInv, NEW e \in Ends, NEW d \in net[e], ReceiveOther(e, d)
      PROVE  Answer(e, d)
  <2>1. /\ Peer[e] \in Ends /\ MaxFrames[Peer[e]] \in Nat /\ MaxFrames[Peer[e]] <= 127
        /\ First \in Nat
    BY TransportConstants
  <2>2. TypeOK /\ Counted /\ Window
    BY <1>1 DEF IInv
  <2>3. d.kind = "full" /\ Seqno(d.n) # iseqno[e]
    BY <1>1 DEF ReceiveOther
  <2>4. got[e] \in Nat /\ sent[Peer[e]] \in Nat /\ d \in Datagrams
    BY <2>1, <2>2, EndFacts
  <2>5. d.n \in Int /\ d.n >= 1
    BY <2>3, <2>4, DatagramFacts
  <2>6. /\ d.n <= sent[Peer[e]] /\ got[e] <= sent[Peer[e]] /\ sent[Peer[e]] <= MaxFrames[Peer[e]]
        /\ iseqno[e] = First + got[e]
    BY <2>1, <2>2, <2>3 DEF Window, DatagramOK, Counted
  <2>7. d.n <= MaxFrames[Peer[e]] /\ got[e] <= 127 /\ d.n <= 127
    BY <2>1, <2>4, <2>5, <2>6
  <2>8. Seqno(d.n) = First + d.n - 1
    BY <2>1, <2>5, <2>7, SeqnoPlain
  <2>9. PICK s, i : s = Seqno(d.n) /\ i = iseqno[e]
    OBVIOUS
  <2>10. s = First + d.n - 1 /\ i = First + got[e] /\ s # i
    BY <2>3, <2>6, <2>8, <2>9
  <2>11. s \in Int /\ i \in Int /\ i - s <= 127 /\ s - i <= 127
    BY <2>1, <2>4, <2>5, <2>7, <2>10
  <2>12. Before(s, i) <=> s < i
    BY <2>10, <2>11, BeforePlain
  <2>13. s < i <=> d.n <= got[e]
    BY <2>1, <2>4, <2>5, <2>10
  <2>14. d.n <= got[e] \/ d.n > got[e]
    BY <2>4, <2>5
  <2>15. PICK a : a = IF Before(s, i) THEN Ack(iseqno[e]) ELSE Vnak(iseqno[e])
    OBVIOUS
  <2>16. a \in net'[Peer[e]]
    <3>1. net' = [net EXCEPT ![Peer[e]] = net[Peer[e]] \cup {a}]
      BY <1>1, <2>9, <2>15 DEF ReceiveOther, Reply
    <3> QED  BY <3>1, <2>1, <2>2 DEF TypeOK
  <2>17. CASE d.n <= got[e]
    BY <2>12, <2>13, <2>15, <2>16, <2>17
  <2>18. CASE d.n > got[e]
    <3>1. ~(d.n <= got[e])
      BY <2>4, <2>5, <2>18
    <3> QED  BY <3>1, <2>12, <2>13, <2>15, <2>16, <2>18
  <2> QED  BY <2>14, <2>17, <2>18
<1>2. IInv => (\A e \in Ends : \A d \in net[e] : ReceiveOther(e, d) => Answer(e, d))
  BY <1>1
<1> QED  BY <1>2, Invariant, PTL DEF AnswerTrue
=============================================================================
