---------------------------- MODULE ReliableLink ----------------------------
(***************************************************************************)
(* What the numbered full frames of channels/chan_iax2.c promise to the    *)
(* two ends of a call: what one end sends arrives at the other once and in *)
(* order, and what an end takes for received has been received.  An end    *)
(* may give up, of which it is told.                                       *)
(***************************************************************************)
EXTENDS Naturals

CONSTANTS
  Ends,    \* the ends of the call
  Peer     \* the other end

VARIABLES
  sent,      \* number of frames that each end has sent
  got,       \* number of frames that have been handed to it
  confirmed, \* the frames it has sent and has seen acknowledged
  error      \* whether it has given up

linkVars == <<sent, got, confirmed, error>>

LinkInit ==
  /\ sent = [e \in Ends |-> 0]
  /\ got = [e \in Ends |-> 0]
  /\ confirmed = [e \in Ends |-> {}]
  /\ error = [e \in Ends |-> FALSE]

LinkSend(e) ==
  /\ ~error[e]
  /\ sent' = [sent EXCEPT ![e] = @ + 1]
  /\ UNCHANGED <<got, confirmed, error>>

\* The next frame of the peer arrives, and some of the frames that the peer has
\* received may be confirmed by it.
Confirm(e) ==
  \/ UNCHANGED confirmed
  \/ /\ ~error[e]
     /\ \E more \in SUBSET (1 .. got[Peer[e]]) :
          confirmed' = [confirmed EXCEPT ![e] = @ \cup more]

LinkReceive(e) ==
  /\ got[e] < sent[Peer[e]]
  /\ got' = [got EXCEPT ![e] = @ + 1]
  /\ Confirm(e)
  /\ UNCHANGED <<sent, error>>

LinkConfirm(e) ==
  /\ Confirm(e)
  /\ UNCHANGED <<sent, got, error>>

\* It does not know any more what has been received.
LinkGiveUp(e) ==
  /\ error' = [error EXCEPT ![e] = TRUE]
  /\ confirmed' = [confirmed EXCEPT ![e] = {}]
  /\ UNCHANGED <<sent, got>>

LinkNext ==
  \E e \in Ends : LinkSend(e) \/ LinkReceive(e) \/ LinkConfirm(e) \/ LinkGiveUp(e)

LinkSpec == LinkInit /\ [][LinkNext]_linkVars
=============================================================================
