SPECIFICATION FairSpec
CONSTANTS
    k1 = k1
    NoSub = NoSub
    Subs = {s1}
    Runs = {}
    Keys = {k1}
    KeyOf <- MCKeyOf
    Workers = {w1, w2}
    Verdicts = {"accepted"}
    Events = {"api_crash", "worker_crash", "sweeper_crash", "shutdown", "redis_error", "enqueue_error", "redis_restart", "db_error", "double_fault", "lost_commit", "delete", "slow_request", "sweep_late"}
    REENQUEUE_AFTER = 1
    INFLIGHT_TTL = 2
    JUDGE_JOB_TIMEOUT = 3
    STALE_AFTER = 3
    SWEEP_EVERY = 1
INVARIANTS JudgedByOne
PROPERTIES Settles
