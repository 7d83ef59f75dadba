SPECIFICATION Spec
CONSTANTS
    Tabs = {t1, t2}
    Others = {o1}
    MaxTokens = 5
    MaxPasswords = 2
    MaxRequests = 3
INVARIANT AlarmIsReuse
CHECK_DEADLOCK FALSE
