CONSTANTS
  MAX_BW = 7
  COEFF_ONE = 4
  WORD = 16
  RRES_U_LUB = 95
  NumServers = 2
  NumUsers = 1
  Gids = {1}
  Constraints <- AnyRules
  Params <- AnyParams
  Credentials <- AnyCredentials
  Requests = {1, 7}
  LevelCaps = {7}
  Spares = {3, 7}
  None = None
  Callers = {0, 1}
  Root = 0
SPECIFICATION SpecGw
CHECK_DEADLOCK FALSE
INVARIANTS TypeOK GuaranteesSchedulable TotalsAreSums LevelsWithinBound
PROPERTY ImplementsAdmission
