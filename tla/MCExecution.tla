----------------------------- MODULE MCExecution -----------------------------
(* Values of the constants of Execution for model checking.                *)
EXTENDS Execution, TLC

CONSTANTS j1, j2, t1, d1, d2, c1, c2

MCJobs == {j1, j2}
MCBatches == Tasks

(* The batch id the runtime contract recommends, derived from the task id. *)
OwnBatchId == [k \in Tasks |-> k]

(* A crawler that reuses one batch id for the tasks of a job.              *)
SharedBatchId == [k \in Tasks |-> <<k[1], 1>>]

ConsumerSymmetry == Permutations(Consumers)
==============================================================================
