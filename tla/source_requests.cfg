SPECIFICATION Spec
CONSTANTS
  t1 = t1
  t2 = t2
  q1 = q1
  q2 = q2
  c1 = c1
  None = None
  Targets = {t1, t2}
  MaxRuns = 0
  Requests = {q1, q2}
  Consumers = {}
  Modes = {"NORMAL", "CRISIS"}
  Controls <- EditsAndCommands
  Faults = {}
  MaxAnswers = 0
SYMMETRY MCSymmetry
ACTION_CONSTRAINT NoRequestsOnceTorn
INVARIANTS
  ActiveSourceHasTarget
  ModeChangesAreLogged
  PausedAtMatchesStatus
CHECK_DEADLOCK FALSE
