CONSTANTS
  Width <- MCWidth
  GasLimitBoundDivisor <- MCDivisor
  MinGasLimit <- MCMinGasLimit
  GasFloors <- MCGasFloors
  GasCeils <- MCGasCeils
  InitialGasLimits <- MCInitialGasLimits
SPECIFICATION Spec
PROPERTY StaysInTargetRange
PROPERTY ConvergesToTargetRange
PROPERTY RespectsSpecBounds
