------------------------- MODULE MCRawBatchPipeline -------------------------
(* Instances of RawBatchPipeline for TLC.                                  *)
EXTENDS RawBatchPipeline

CONSTANTS b1, b2, w1, w2

(* One batch with a full and an incomplete chunk of two, and one of which  *)
(* the parser makes no record.                                             *)
MCSize == [b \in Batches |-> IF b = b1 THEN 3 ELSE 0]
=============================================================================
