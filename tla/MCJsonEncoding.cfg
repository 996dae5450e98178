SPECIFICATION Spec
CONSTANTS
  MaxInt64 = 31
  MaxUint64 = 63
  MaxInt32 = 7
  MaxUint32 = 15
  FloatExact = 16
  Stroops = 10
  RealScale = 20
  HashLen = 4
  MaxByte = 63
  Denominators <- MCDenominators
  LowerCase <- MCLowerCase
  LastDenominator = 4
  FieldOrder <- MCFieldOrder
  DigitZero = 40
  DigitBase = 8
  Printable = {40, 41, 42, 43, 44, 45, 46, 47, 48, 49}
  MaxDepth = 3
  LedgerUpgrades <- MCUpgrades
  Callers <- MCCallers
  Families <- MCFamilies
  Registry <- MCRegistry
INVARIANTS
  CoercionsExact
  EnvelopeAsTemplate
  ValidatedTemplatesBuild
  RoundTripsExact
  CachesConsistent
