----------------------------- MODULE MCCdrBatch -----------------------------
(* Instances of CdrBatch for TLC. *)
EXTENDS CdrBatch

BatchMode == [enabled |-> TRUE, batchmode |-> TRUE, size |-> 2,
              scheduleronly |-> FALSE, safe |-> TRUE]

(* A batch that detached threads post, one that the thread posts itself    *)
(* and that a shutdown need not wait for, records but no batch, no records *)
EveryMode == {BatchMode,
              [BatchMode EXCEPT !.scheduleronly = TRUE, !.safe = FALSE],
              [BatchMode EXCEPT !.batchmode = FALSE],
              [BatchMode EXCEPT !.enabled = FALSE]}
=============================================================================
