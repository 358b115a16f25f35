\* Names, credentials, receipts, profiles, grants, backups and restores.
SPECIFICATION ScenarioSpec
CONSTANTS
  h1 = h1
  Tokens = {t1, t2}
  Keys = {k1, k2}
  Handlers = {h1, h2}
  Selectors = {2}
  MaxName = 3
  MaxPrincipals = 2
  MaxCreds = 2
  MaxRevision = 3
SYMMETRY Symmetry
INVARIANTS RegisteredOnce NoLostUpdate BackupsAreRestorable
PROPERTIES NamesArePermanent RevocationIsFinal
