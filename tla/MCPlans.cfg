CONSTANTS
  c1 = c1
  c2 = c2
  c3 = c3
  s1 = s1
  s2 = s2
  s3 = s3
  NoOwner = NoOwner
  Clients = {c1, c2, c3}
  Sessions = {s1, s2, s3}
  Home <- HomeOf
  Pooled = FALSE
  MaxHeld = 2
  Connections = {}
  Found = {}
  MaxRounds = 1
  Procs = {p1, p2}
  MaxByHand = 1
  MaxCalls = 2
SPECIFICATION SpecOfPart
INVARIANTS
  OneCommand
  
PROPERTIES
  CommandGivesBack
  
CHECK_DEADLOCK FALSE
