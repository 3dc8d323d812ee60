CONSTANTS
  Width <- MCWidth
  GasLimitBoundDivisor <- MCDivisor
  MinGasLimit <- MCMinGasLimit
  GasFloors <- MCGasFloors
  GasCeils <- MCGasCeils
  InitialGasLimits <- MCLowInitialGasLimits
SPECIFICATION Spec
PROPERTY SpecBoundsForAllParents



