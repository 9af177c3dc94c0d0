CONSTANTS
  MAX_BW = 2000
  COEFF_ONE = 8192
  WORD = 131072
  RRES_U_LUB = 95
  NumServers = 3
  NumUsers = 2
  Gids = {"g"}
  Constraints <- WellRules
  Params <- WellParams
  Credentials <- WellCredentials
  Requests = {2000}
  LevelCaps = {900}
  Spares = {}
  None = None
  TestGid = "g"
  Tolerance = 2
SPECIFICATION SpecTests
CHECK_DEADLOCK FALSE
INVARIANTS NothingWraps RequestsCurrent ApprovedSound TestsPass
PROPERTY PriorityIsolation
