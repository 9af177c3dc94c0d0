CONSTANTS
  MAX_BW = 20
  COEFF_ONE = 16
  WORD = 64
  RRES_U_LUB = 95
  NumServers = 2
  NumUsers = 2
  Gids = {"g"}
  Constraints <- MCRules
  Params <- GuaranteeParams
  Credentials <- MCCredentials
  Requests = {}
  LevelCaps = {}
  Spares = {}
  None = None
  Threads = {"a", "b"}
  Root = 2
  RootGroup = "root"
  Cred <- EachItsUser
  Operations = {"create", "set_params", "add_rule"}
  GroupFailure = TRUE
  SchedBw = 19
  MIN_SRV_PERIOD = 1
SPECIFICATION SpecQres
CHECK_DEADLOCK FALSE
INVARIANTS QresTypeOK UniqueIds SupervisorAgrees RequestsInForce
PROPERTY HandlersReturn
