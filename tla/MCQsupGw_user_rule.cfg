CONSTANTS
  MAX_BW = 7
  COEFF_ONE = 4
  WORD = 16
  RRES_U_LUB = 95
  NumServers = 1
  NumUsers = 2
  Gids = {1, 3}
  Constraints <- AnyRules
  Params <- AnyParams
  Credentials <- RuleCredentials
  Requests = {1, 7}
  LevelCaps = {7}
  Spares = {3, 7}
  None = None
  Callers = {0, 1}
  Root = 0
SPECIFICATION SpecGw
CHECK_DEADLOCK FALSE
PROPERTY UserRuleInForce
