-------------------------- MODULE MCTaskProcessor --------------------------
(* Instances of TaskProcessor for TLC. *)
EXTENDS TaskProcessor, TLC

(* Module threads are interchangeable, and so are CLI threads. *)
Symmetry == Permutations(Users) \cup Permutations(CliThreads)
=============================================================================
