SPECIFICATION FairSpec
CONSTANTS
  p1 = p1
  p2 = p2
  t1 = t1
  t2 = t2
  t3 = t3
  t4 = t4
  h1 = h1
  h2 = h2
  None = None
  Projects = {p1, p2}
  Targets = {t1, t2, t3}
  ProjectOf <- TwoEach
  ProjectRank <- MCProjectRank
  TargetRank <- MCTargetRank
  Minutes <- EachMinute
  Modes = {"NORMAL"}
  Broken = {t3}
  Ticks = {h1}
  Limit = 2
  Unit = 2
  MaxAge = 1
  Overdue = 4
  Controls = {"manual"}
  Faults = {}
INVARIANTS
  ListIsFair
PROPERTIES
  DueTargetsAreServed
CHECK_DEADLOCK FALSE
