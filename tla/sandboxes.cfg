SPECIFICATION FairSpec
CONSTANTS
    NoWorker = NoWorker
    Subs = {s1}
    Workers = {w1, w2}
    Backends = {"docker", "k8s"}
    CaseCounts = {1, 2}
    TimeLimits = {1}
    StartupSlacks = {0}
    MaxCrashes = 1
    JUDGE_JOB_TIMEOUT = 4
    WALL_CLOCK_SLACK = 1
    KILL_AND_WRITE_MARGIN = 1
    ORPHAN_SLOP = 1
INVARIANTS TypeOK SweptIsOver OwnKillFirst CleanedUp
PROPERTIES OrphansReaped
