CONSTANTS
  None = None
  Shapes <- TwoPlans
  Exclusive = FALSE
  Chain <- MCChain
  MaxSteps <- MCMaxSteps
  Databases <- MCDatabases
  EmptyDb <- MCEmptyDb
  Exec <- MCExec
  Accepts <- MCAccepts
  Holds <- MCHolds
  SchemaHash <- MCSchemaHash
  HasNulls <- MCHasNulls
  FillNulls <- MCFillNulls
  Writes <- MCWrites
  InEffect <- MCInEffect
SPECIFICATION FairSpec
INVARIANTS
  StepsInEffect
  SettledMatches
PROPERTIES
  NoStepFails
  MovesOnePlan
  RecoverCompletes
