-------------------------- MODULE MCIax2Transport --------------------------
\* A call in which one end sends more than the other.
EXTENDS Iax2Transport, TLC

Other == [e \in Ends |-> IF e = "caller" THEN "callee" ELSE "caller"]
TwoAndOne == [e \in Ends |-> IF e = "caller" THEN 2 ELSE 1]
=============================================================================
