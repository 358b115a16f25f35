\* Appends and traversals, resent, lost and interleaved, with restores.
SPECIFICATION ScenarioSpec
CONSTANTS
  alice = alice
  bob = bob
  Principals = {alice, bob}
  Spaces = {s1}
  Keys = {1, 2, 3}
  Bodies <- AllBodies
  Handlers = {h1, h2}
  Readers = {r1}
  Score <- Scores
  Place <- Places
  PageLimit = 1
  MaxId = 3
  MaxTokens = 2
  MaxEpoch = 1
SYMMETRY Symmetry
INVARIANTS AppendedOnce InboxFollowsRecords NumbersNeverReused RelationsPointBack SecretBeforeRecords
PROPERTY PassesAreComplete
