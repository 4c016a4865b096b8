SPECIFICATION Spec
CONSTANTS
  CoefMax = 57896
  PackMax = 1347
  ExpMax = 57896
  PackExpMax = 6
  D = 4
  PackD = 3
  Jump = 1
  M = 2
  LastAntilog = 97
  Pow10 <- MCPow10
  DigitSteps <- MCDigitSteps
  DivRungs = {1}
  LogOf <- TwoDigitLogOf
  AntilogOf <- TwoDigitAntilogOf
  Floats <- MCFloats
INVARIANT LogIsInterpolatedEverywhere
