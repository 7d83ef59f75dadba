SPECIFICATION Spec
CONSTANTS
    JUDGE_JOB_TIMEOUT = 300
    WALL_CLOCK_SLACK = 10
    KILL_AND_WRITE_MARGIN = 10
    ORPHAN_SLOP = 60
    MAX_PROBE_CALLS = 2
    MaxEncoded = 9
    NodeMax = 5
    Raised = Raised
    Absent = Absent
    Seeds <- MCSeeds
    Slugs <- MCSlugs
    Setups <- MCSetups
    Objects <- MCObjects
    Harness <- PythonAnswers
    RustMethodName <- MCRustMethodName
INVARIANTS TypeOK LikeOneAfterAnother ReadsMoveForward JudgedAsSeeded PassesIffRight NextReachesAll
CHECK_DEADLOCK FALSE
