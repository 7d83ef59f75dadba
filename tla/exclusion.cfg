SPECIFICATION Spec
CONSTANTS
    k1 = k1
    NoSub = NoSub
    Subs = {s1, s2}
    Runs = {}
    Keys = {k1}
    KeyOf <- MCKeyOf
    Workers = {w1, w2}
    Verdicts = {"accepted"}
    Events = {"api_crash", "worker_crash", "sweeper_crash", "shutdown", "redis_error", "enqueue_error", "delete", "slow_request", "sweep_late"}
    REENQUEUE_AFTER = 1
    INFLIGHT_TTL = 2
    JUDGE_JOB_TIMEOUT = 2
    STALE_AFTER = 2
    SWEEP_EVERY = 1
SYMMETRY Interchangeable
INVARIANTS TypeOK LockHeldWhileJudging StaleRowUnlocked
PROPERTIES KeepsLifecycle
