\* A recoverable database is served again.
SPECIFICATION FairSpec
CONSTANTS
  Procs = {p1}
  Paths = {f1, f2}
  Homes = {f1}
  Creds = {c1}
  UsedKinds = {"post", "receipt"}
  MaxRev = 1
  MaxCrashes = 2
  MaxRecoveries = 2
  None = None
  Torn = Torn
PROPERTIES
  RestartSucceeds
CHECK_DEADLOCK FALSE
