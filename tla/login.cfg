SPECIFICATION Spec
CONSTANTS
    Requests = {r1, r2}
    Limit = 2
    MaxFailures = 2
    LastStep = 3
    MaxSecrets = 2
    MaxSheets = 2
    MaxPasswords = 1
INVARIANTS TypeOK GuessesBounded CodeOnce EnabledIsProved NoDeadlock
PROPERTIES BothFactors
SYMMETRY Symmetry
CHECK_DEADLOCK FALSE
