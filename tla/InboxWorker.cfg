SPECIFICATION ScenarioSpec
CONSTANTS
  Targets = {t1, t2}
  NoTarget = NoTarget
  Unroutable = {1}
  MaxItems = 3
  PageLimit = 2
  PendingLimit = 2
  FailureLimit = 1
  MaxShift = 1
  MaxFaults = 2
  MaxRestores = 2
INVARIANT AckedIsKept
PROPERTIES HandedOverOnce RoutableAcknowledged
