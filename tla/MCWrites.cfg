SPECIFICATION Spec
CONSTANTS
  Handles = {"h1", "h2"}
  MaxRowWrites = 2
  MaxClock = 2
  Disciplines = {"plain", "revision", "optimistic"}
  Callers = {c1}
  MaxWrites = 4
  MaxDepth = 2
  Zones = {0, 1}
  Range16 = 3
  Range64 = 8
  Safe = 5
  MaxWall = 6
  Width = 4
  Clients = {c1, c2}
  Keys = {"k1", "k2"}
  Vals = {1, 2}
  MaxOps = 2
  MaxOther = 1
  RowLimits = {1, 2, 3}
  ByteLimits = {2, 4}
  FracBits = 2
  MaxExp = 2
INVARIANTS
  RowsDescribed
  ValuesKept
  CatalogTrue

  
CHECK_DEADLOCK FALSE
