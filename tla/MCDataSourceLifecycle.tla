------------------------ MODULE MCDataSourceLifecycle ------------------------
(* Values of the constants of DataSourceLifecycle for model checking.      *)
EXTENDS DataSourceLifecycle, TLC

CONSTANTS t1, t2, q1, q2, c1

MCSymmetry == Permutations(Targets) \cup Permutations(Requests)

(* What happens to a source that stays: archive, delete and dry runs are   *)
(* in source_dryruns.                                                      *)
EditsAndCommands == ControlKinds \ {"Trigger", "Archive", "Delete"}
(* Bound: a history in which a write overtook another is followed to the   *)
(* end of the handlers in progress, and takes no new requests.             *)
NoRequestsOnceTorn ==
  torn => \A w \in Requests : work[w] = Idle => work'[w] = Idle
==============================================================================
