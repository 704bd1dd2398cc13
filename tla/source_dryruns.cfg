SPECIFICATION FairSpec
CONSTANTS
  t1 = t1
  t2 = t2
  q1 = q1
  q2 = q2
  c1 = c1
  None = None
  Targets = {t1, t2}
  MaxRuns = 2
  Requests = {q1}
  Consumers = {c1}
  Modes = {"NORMAL"}
  Controls = {"Trigger", "CreateTarget", "DeactivateTarget", "Archive", "Delete"}
  Faults = {"abort", "publish", "object", "malformed"}
  MaxAnswers = 1
INVARIANTS
  RunningIsWaitedFor
  DryrunStatusAgrees
  ReadyIsEarned
  ArchivedHasNoDryrun
PROPERTIES
  TerminalResultIsKept
  DryrunsEnd
CHECK_DEADLOCK FALSE
