SPECIFICATION FairSpec
CONSTANTS
    Tabs = {t1, t2}
    Others = {o1}
    MaxTokens = 5
    MaxPasswords = 2
    MaxRequests = 3
INVARIANTS TypeOK OldPasswordsAreOut HonestTabsStay NoDeadlock
PROPERTIES KeepsRules EndedStaysEnded RequestsEnd
CHECK_DEADLOCK FALSE
