SPECIFICATION Spec
CONSTANTS
  p1 = p1
  p2 = p2
  t1 = t1
  t2 = t2
  t3 = t3
  t4 = t4
  h1 = h1
  h2 = h2
  None = None
  Projects = {p1}
  Targets = {t1}
  ProjectOf <- TwoEach
  ProjectRank <- MCProjectRank
  TargetRank <- MCTargetRank
  Minutes <- EachMinute
  Modes = {"NORMAL", "CRISIS"}
  Broken = {}
  Ticks = {h1, h2}
  Limit = 2
  Unit = 1
  MaxAge = 1
  Overdue = 1
  Controls = {"edit", "mode", "pause", "project"}
  Faults = {"db", "publish", "project", "crash"}
SYMMETRY TickSymmetry
INVARIANTS
  KeptClaimIsExclusive
  ClaimsAreGivenBack
CHECK_DEADLOCK FALSE
