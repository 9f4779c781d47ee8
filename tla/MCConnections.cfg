CONSTANTS
  Calls = {t1, t2, t3, t4}
  Size = 2
  IdleSize = 1
  Sqls = {s1, s2, s3}
  CacheSize = 2
  MaxSchema = 1
  Receives = {r1, r2, r3}
  Notifications = 3
  Rows = {1, 2}
  Declared = {1, 2}
  Current = 2
  Plaintexts = {"a", "b"}
  Batch = 1
  MaxWrites = 2
SPECIFICATION SpecOfPart
INVARIANTS
  Accounted
  NoLostWaiter
  
PROPERTIES
  RotationKeeps
  
CHECK_DEADLOCK FALSE
