SPECIFICATION Spec
CONSTANTS
  CoefMax = 5788
  PackMax = 13
  ExpMax = 40
  PackExpMax = 4
  D = 3
  PackD = 1
  Jump = 2
  Pow10 <- MCPow10
  Coefficients <- MCCoefficients
  Exponents <- MCExponents
  Values <- MCValues
  Decimals <- MCDecimals
INVARIANT TypeOK
INVARIANT NoSilentZero
INVARIANT LosslessMeansExact
INVARIANT TruncatesOnce
PROPERTY CallReturns
PROPERTY ImplementsContract
