SPECIFICATION SpecOfPart
CONSTANTS
  Connections = {k1, k2}
  Found <- Callers
  NoOwner = NoOwner
  Clients = {}
  Sessions = {}
  Home <- NoHome
  Pooled = FALSE
  MaxHeld = 1
  MaxKeyColumns = 2
  MaxKeyChars = 10
  MaxTables = 3
  MaxTableColumns = 3
  MaxColumns = 5
  MaxForeignKeys = 2
  MaxCount = 9
  Dialects = {"mysql", "postgres", "sqlite"}
  MaxPasses = 8
INVARIANTS
  Alone
  DocumentsSound
  ReadsBack
PROPERTIES
  GivesBack
  PassRemoves
CHECK_DEADLOCK FALSE
