CONSTANTS
  Calls = {c1, c2}
  Size = 3
  Drivers = {"mysql", "postgres"}
SPECIFICATION FairSpec
INVARIANTS
  HitsOwnStatement

  
