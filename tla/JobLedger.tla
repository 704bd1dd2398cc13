------------------------------ MODULE JobLedger ------------------------------
(***************************************************************************)
(* What the scheduler sees of the scheduled jobs of a target: which        *)
(* statuses they have, the terminal ones as "CLOSED".  Execution           *)
(* implements it, and DueTargets takes its actions for what happens to     *)
(* jobs there.                                                             *)
(***************************************************************************)
CONSTANTS Targets

VARIABLE jobs

(* The statuses that CancelProjectRuntime looks for.                       *)
Open == {"RUNNING", "PARTIAL"}
Statuses == Open \cup {"CLOSED"}

(* CreateScheduledJob inserts a job unless a RUNNING one exists, under the *)
(* lock of the target's row.                                               *)
Created(t) ==
  /\ "RUNNING" \notin jobs[t]
  /\ jobs' = [jobs EXCEPT ![t] = @ \cup {"RUNNING"}]

(* Completions and FinalizeScheduledJob write the status of one job,       *)
(* whatever it is by now: a closed one may be open again.  Other jobs may  *)
(* have the status it had.                                                 *)
Written(t, status) ==
  \E was \in jobs[t] : \E rest \in {jobs[t], jobs[t] \ {was}} :
    jobs' = [jobs EXCEPT ![t] = rest \cup {status}]

(* CancelProjectRuntime closes what is open.                               *)
HasOpen(t) == jobs[t] \cap Open # {}
Cancelled(S) ==
  jobs' = [t \in Targets |-> IF t \in S /\ HasOpen(t)
                             THEN (jobs[t] \ Open) \cup {"CLOSED"} ELSE jobs[t]]

Init == jobs = [t \in Targets |-> {}]

Next ==
  \/ \E t \in Targets : Created(t) \/ \E status \in Statuses : Written(t, status)
  \/ \E S \in SUBSET Targets : Cancelled(S)

Spec == Init /\ [][Next]_jobs
==============================================================================
