SPECIFICATION Spec
CONSTANTS
  Atoms = {"p", "q"}
  MaxCalls = 4
  Dialects = {"mysql", "postgres", "sqlite"}
  Calls = {1, 2}
  CacheSize = 2
  Dialect = "postgres"
  Limit = 4
  Values = {1, 2, 3}
  MaxList = 5
  MaxWrites = 2
INVARIANT ReadsExcludeDeleted
CHECK_DEADLOCK FALSE
