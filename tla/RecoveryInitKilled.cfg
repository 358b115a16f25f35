\* A killed audit initialization that no start resumes.
SPECIFICATION Spec
CONSTANTS
  Procs = {p1}
  Paths = {f1}
  Homes = {f1}
  Creds = {c1}
  UsedKinds = {"post"}
  MaxRev = 1
  MaxCrashes = 1
  MaxRecoveries = 1
  None = None
  Torn = Torn
INVARIANTS
  InitializationResumes
CHECK_DEADLOCK FALSE
