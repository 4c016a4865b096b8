SPECIFICATION JsSpec
CONSTANTS
  CoefMax = 5788
  PackMax = 15
  ExpMax = 40
  PackExpMax = 3
  D = 3
  PackD = 1
  Jump = 2
  Pow10 <- MCPow10
  DigitSteps <- MCDigitSteps
  DivRungs = {1}
  Floats <- MCFloats
  Values <- MCValues
  Decimals <- MCDecimals
  Texts <- MCTexts
  Limits <- MCLimits
  DefaultLimits <- MCDefaultLimits
  MaxPlain = 2
  Calls <- MCCalls
  worker = worker
  browser = browser
  Threads = {worker, browser}
  Natives = {worker}
  Realms = {browser}
  Watched = browser
  Methods <- MCMethods
  TooLong <- MCTooLong
  Radix = 4
  FloatBytes = 2
  Bigints <- MCBigints
  Hexes <- MCHexes
INVARIANT ConversionFailsWithAnError
