CONSTANTS
  Width <- MCWidth
  GasLimitBoundDivisor <- MCDivisor
  MinGasLimit <- MCMinGasLimit
  GasFloors <- MCGasFloors
  GasCeils <- MCLowGasCeils
  InitialGasLimits <- MCInitialGasLimits
SPECIFICATION Spec
PROPERTY RespectsSpecBounds
