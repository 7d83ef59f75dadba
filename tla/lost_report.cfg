SPECIFICATION Spec
CONSTANTS
    MaxCases = 2
    Faults = {"idle_crash"}
INVARIANTS CrashIsItsCase
