CONSTANTS
  c1 = c1
  c2 = c2
  s1 = s1
  None = None
  Clients <- MCClients
  SolverIds <- MCSolverIds
  Rates <- MCRates
  MaxWork <- MCMaxWork
SPECIFICATION Spec
PROPERTY TrueMeansApplied
PROPERTY CallsReturn
