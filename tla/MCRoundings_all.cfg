CONSTANTS
  MAX_BW = 16
  COEFF_ONE = 4
  WORD = 256
  RRES_U_LUB = 95
  Periods <- MCPeriods
SPECIFICATION Spec
INVARIANTS RoundedUp RoundingLoss CeilingsAgree AbovePeriodRefused
PROPERTY ResendIsIdle
