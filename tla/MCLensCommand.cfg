SPECIFICATION Spec
CONSTANTS
  Registry <- MCRegistry
  Commands <- MCCommands
INVARIANTS
  StatusTellsDelivery
  TargetOldOrWhole
  StatusTellsAnswer
  ReportsAccounted
PROPERTY
  CommandExits
