SPECIFICATION CutSpec
CONSTANTS
  HalfRadix = 8
  TextUnits = {4, 5, 6, 7}
  SpaceUnits = {4, 5}
  Newline = 4
  CarriageReturn = 5
  Enc <- MCEnc
  RecordUnits = {0, 15}
  MaxRecords = 2
  MaxUnits = 2
  Fragments = {0, 1, 2}
  Limits = {4}
INVARIANT TruncationSurfaces
