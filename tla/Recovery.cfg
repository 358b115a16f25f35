\* The bounds that matter are those of the scenarios.
SPECIFICATION ScenarioSpec
CONSTANTS
  Procs = {p1, p2}
  Paths = {f1, f2, f3}
  Homes = {f1}
  Creds = {c1}
  UsedKinds = {"issue", "revoke", "grant", "post"}
  MaxRev = 3
  MaxCrashes = 2
  MaxRecoveries = 2
  None = None
  Torn = Torn
SYMMETRY Symmetry
INVARIANTS ServedIsAudited ConfirmedSurvives NoRegression OneHistory AuditIsSound
PROPERTY IntentResolution
CHECK_DEADLOCK FALSE
