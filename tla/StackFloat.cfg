SPECIFICATION Spec
CONSTANTS
  CoefMax = 5788
  PackMax = 13
  ExpMax = 40
  PackExpMax = 3
  D = 3
  PackD = 1
  Jump = 2
  Pow10 <- MCPow10
  DigitSteps <- MCDigitSteps
  DivRungs = {1}
  Coefficients <- MCCoefficients
  Exponents <- MCExponents
INVARIANT StackProductIsTruncated
INVARIANT StackQuotientIsTruncated
INVARIANT StackSumIsClose
INVARIANT StackComparisonIsExact
