SPECIFICATION FairSpec
CONSTANTS
    MaxCases = 3
    Faults = {"load_error", "case_error", "overrun", "hang", "crash", "garbled", "unreadable", "partial", "bad_value", "probe_error", "validator_load", "validator_fault", "validator_overrun", "wall_clock", "oom", "flood"}
INVARIANTS TypeOK AcceptedIsEarned RowsMatchAnswers EveryCaseReported VerdictExplained OneHiddenCaseShown
PROPERTIES RunConcludes
