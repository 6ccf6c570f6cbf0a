------------------------------ MODULE MCSched ------------------------------
(* Instances of Sched for TLC. *)
EXTENDS Sched

(* The macros that only delete an event *)
Deleting == {"del", "unref"}

(* Those that put another in its place *)
Replacing == {"replace"}
=============================================================================
