SPECIFICATION RawSpec
CONSTANTS
  HalfRadix = 8
  TextUnits = {2, 3, 4, 5, 6, 7}
  SpaceUnits = {1, 2, 3}
  Newline = 2
  CarriageReturn = 3
  Enc <- MCEnc
  RawUnits = {0, 1, 2, 3, 4, 8}
  RawLen = 5
  Limits = {1, 2}
INVARIANTS
  TypeOK
  RecordWithinLimit
  CleanDrainConsumesAll
  ReadErrorSurfaces
PROPERTY FramingStable
