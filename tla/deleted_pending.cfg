SPECIFICATION Spec
CONSTANTS
    k1 = k1
    NoSub = NoSub
    Subs = {s1, s2}
    Runs = {s2}
    Keys = {k1}
    KeyOf <- MCKeyOf
    Workers = {w1}
    Verdicts = {"accepted"}
    Events = {"delete"}
    REENQUEUE_AFTER = 1
    INFLIGHT_TTL = 2
    JUDGE_JOB_TIMEOUT = 3
    STALE_AFTER = 3
    SWEEP_EVERY = 1
INVARIANTS NoStuckLock
