SPECIFICATION Spec
CONSTANTS
  CoefMax = 57896044
  PackMax = 134
  ExpMax = 30
  PackExpMax = 2
  D = 7
  PackD = 2
  Jump = 2
  Pow10 <- MCPow10
  Stages <- MCStages
  Coefficients <- MCCoefficients
  Exponents <- MCExponents
INVARIANT ReachesMaximum
PROPERTY CallReturns
