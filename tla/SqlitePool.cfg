CONSTANT Calls = {t1, t2, t3, t4}
SPECIFICATION FairSpec
INVARIANTS
  NoLostWaiter
  AbortedNeverRuns
PROPERTIES
  EveryWaiterServed
