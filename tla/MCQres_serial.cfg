CONSTANTS
  MAX_BW = 20
  COEFF_ONE = 16
  WORD = 64
  RRES_U_LUB = 95
  NumServers = 3
  NumUsers = 2
  Gids = {"g"}
  Constraints <- NoParams
  Params <- CreateParams
  Credentials <- MCCredentials
  Requests = {}
  LevelCaps = {}
  Spares = {}
  None = None
  Threads = {"a"}
  Root = 0
  RootGroup = "root"
  Cred <- OneUser
  Operations = {"create", "destroy", "attach", "detach"}
  GroupFailure = TRUE
  SchedBw = 19
  MIN_SRV_PERIOD = 1
SPECIFICATION SpecQres
CHECK_DEADLOCK FALSE
INVARIANTS BudgetsAsApproved SettingFits
