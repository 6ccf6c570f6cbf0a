--------------------------- MODULE MCDialplanLock ---------------------------
(* Instances of DialplanLock for TLC. *)
EXTENDS DialplanLock, TLC

(* Channels are interchangeable, and so are locks. *)
Symmetry == Permutations(Chans) \cup Permutations(Locks)
=============================================================================
