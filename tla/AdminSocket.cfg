SPECIFICATION Spec
CONSTANTS
  d1 = d1
  d2 = d2
  d3 = d3
  Daemons = {d1, d2, d3}
  Nobody = Nobody
  Names <- PendingNames
  MaxSockets = 3
  MaxForeign = 1
  MaxLocks = 3
SYMMETRY Symmetry
INVARIANTS ServesAtItsPath KilledStartsRecover
PROPERTY ForeignIsPreserved
