CONSTANTS
  Worlds <- Lawful
  Flows = {1, 2}
  Retry = 1
  MaxCalls = 4
SPECIFICATION FairSpec
INVARIANTS
  CleanOrDiscarded
  AllOrNothing
  NestedSound
PROPERTIES
  EveryCallEnds
