\* Polls, appends, acknowledgments, disconnects and a drain.
SPECIFICATION ScenarioSpec
CONSTANTS
  p1 = p1
  Handlers = {h1, h2, h3}
  Principals = {p1, p2}
  Slots = {s1, s2}
  Nobody = Nobody
  MaxMail = 1
  MaxDisconnects = 2
INVARIANTS NoMissedWakeup NormalizesAlone
PROPERTY DrainIsNotHeld
CHECK_DEADLOCK FALSE
