SPECIFICATION Spec
CONSTANTS
  CoefMax = 5788
  PackMax = 13
  ExpMax = 40
  PackExpMax = 3
  D = 3
  PackD = 1
  Jump = 2
  Pow10 <- MCPow10
  DigitSteps <- MCDigitSteps
  DivRungs = {1}
  Floats <- AllFloats
  Values <- MCValues
  Decimals <- MCDecimals
  Texts <- NoTexts
  DefaultLimits <- MCDefaultLimits
  Limits <- NoLimits
  MaxPlain = 2
  Calls <- AllCalls
INVARIANT ResultsAreTruncated
INVARIANT SumIsWithinOneUnit
INVARIANT OnlyDocumentedErrors
INVARIANT RangeErrorsAreReal
INVARIANT ComparisonIsExact
INVARIANT RoundsToNextInteger
INVARIANT FixedDecimalIsTruncated
INVARIANT FixedDecimalRoundTrip
