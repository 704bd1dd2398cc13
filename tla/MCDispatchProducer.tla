-------------------------- MODULE MCDispatchProducer --------------------------
(* Values of the constants of DispatchProducer for model checking.         *)
EXTENDS DispatchProducer, TLC

CONSTANTS tiktok, facebook, manual, other, trial

MCQueues == <<tiktok, facebook>>
MCProducerOf == (manual :> "http") @@ (trial :> "dryrun") @@ (other :> "http")
==============================================================================
