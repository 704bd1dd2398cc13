--------------------------- MODULE BatchLifecycle ---------------------------
(***************************************************************************)
(* What the UAP pipeline promises about a raw batch to whoever reads the   *)
(* table raw_batches and the Kafka topic of UAP records: a batch is taken  *)
(* once, its records reach the topic only between then and its verdict and *)
(* none of them twice, "published" means that all of them did, and a       *)
(* failed batch stays failed.  RawBatchPipeline implements it.             *)
(***************************************************************************)
EXTENDS Naturals

CONSTANTS
  Batches,      \* raw batches
  Size          \* the number of UAP records a batch holds

VARIABLES
  state,        \* what the row of a batch says
  topic         \* how often a record is in the topic

vars == <<state, topic>>

RecordsOf(b) == {b} \X (1..Size[b])
Records == UNION {RecordsOf(b) : b \in Batches}

Settled == {"published", "unpublished"}
States == {"received", "claimed", "failed"} \cup Settled

Init ==
  /\ state = [b \in Batches |-> "received"]
  /\ topic = [k \in Records |-> 0]

Claim(b) ==
  /\ state[b] = "received"
  /\ state' = [state EXCEPT ![b] = "claimed"]
  /\ UNCHANGED topic

Emit(b) ==
  /\ state[b] = "claimed"
  /\ \E k \in RecordsOf(b) : /\ topic[k] = 0
                             /\ topic' = [topic EXCEPT ![k] = 1]
  /\ UNCHANGED state

Settle(b) ==
  /\ state[b] = "claimed"
  /\ \E verdict \in Settled :
        /\ verdict = "published" => \A k \in RecordsOf(b) : topic[k] = 1
        /\ state' = [state EXCEPT ![b] = verdict]
  /\ UNCHANGED topic

(* A verdict may still be taken back: the pipeline fails a batch whose     *)
(* settling update was reported as failed though it had taken effect.      *)
Fail(b) ==
  /\ state[b] \in {"claimed"} \cup Settled
  /\ state' = [state EXCEPT ![b] = "failed"]
  /\ UNCHANGED topic

Next == \E b \in Batches : Claim(b) \/ Emit(b) \/ Settle(b) \/ Fail(b)

Spec == Init /\ [][Next]_vars
=============================================================================
