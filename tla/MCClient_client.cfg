SPECIFICATION Spec
CONSTANTS
    MAX_BW = 4096
    COEFF_ONE = 16
    WORD = 67108864
    RRES_U_LUB = 95
    Root = 0
    MIN_SRV_PERIOD = 200
    Weights = {0, 1, 2}
    Faults = {"refused", "group", "device"}
    Jobs <- MCJobs
INVARIANTS PeriodKept GroupsOwned FailuresExplained OneDescriptor
PROPERTIES ProgramsEnd
CHECK_DEADLOCK FALSE
