SPECIFICATION ScenarioSpec
CONSTANTS
  Files = {f1}
  Runs = {r1, r2}
  Tokens = {t1, t2}
  Asked = {1, 2}
  NoFile = NoFile
  NoRun = NoRun
  Keys = {}
  Handlers = {}
  Selectors = {}
  MaxName = 2
  MaxPrincipals = 2
  MaxCreds = 2
  MaxRevision = 1
  MaxKills = 1
  MaxOutages = 1
INVARIANTS OneIdentityPerFile SecretIsKept
PROPERTIES RegistrationFinishes
