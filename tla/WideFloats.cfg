SPECIFICATION Spec
CONSTANTS
  CoefMax = 57896
  PackMax = 1347
  ExpMax = 60
  PackExpMax = 3
  D = 4
  PackD = 3
  Jump = 1
  Pow10 <- MCPow10
  DigitSteps <- MCDigitSteps
  DivRungs = {1}
  Floats <- WideFloats
  Values <- NoValues
  Decimals <- NoValues
  Texts <- MCTexts
  DefaultLimits <- MCDefaultLimits
  Limits <- MCLimits
  MaxPlain = 3
  Calls <- WideCalls
INVARIANT ProductIsTruncated
INVARIANT EqualArgumentsEqualResults
INVARIANT ParseIsExact
INVARIANT ParseRefusesWhatItMust
INVARIANT FormatParsesBack
