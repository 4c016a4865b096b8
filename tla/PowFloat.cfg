SPECIFICATION Spec
CONSTANTS
  CoefMax = 5788
  PackMax = 134
  ExpMax = 5788
  PackExpMax = 6
  D = 3
  PackD = 2
  Jump = 1
  M = 2
  LastAntilog = 97
  Pow10 <- MCPow10
  DigitSteps <- MCDigitSteps
  DivRungs = {1}
  LogOf <- TwoDigitLogOf
  AntilogOf <- TwoDigitAntilogOf
  Bases <- MCBases
  Powers <- MCPowers
INVARIANT StaysOnItsSideOfOne
INVARIANT IntegerPowerIsClose
INVARIANT FractionOnlyAdds
INVARIANT PowErrorsAreReal
