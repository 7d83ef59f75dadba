---------------------------- MODULE LoginLockout ----------------------------
(***************************************************************************)
(* The counters that hold back guessing, all in Redis (app/queue.py): the  *)
(* per-minute cap of one IP address on the auth routes, and the failed     *)
(* logins of one account with the lock they lead to.  Each operator is one *)
(* command or script, which Redis runs as one step.  The clock counts the  *)
(* 30-second steps of app/totp.py; a minute is two of them.                *)
(***************************************************************************)
EXTENDS Naturals

CONSTANTS
    Limit,         \* auth_rate_limit_per_minute
    MaxFailures,   \* login_max_failures
    LastStep       \* bound: the clock stops here

ASSUME LockoutAssumption == Limit \in Nat /\ MaxFailures \in Nat \ {0} /\ LastStep \in Nat \ {0}

VARIABLES
    now,     \* the time step
    hits,    \* ratelimit:auth:<ip>:<bucket> of this minute
    fails,   \* authfail:<email> (0: no key)
    lock     \* whether authlock:<email> exists

lockout == <<now, hits, fails, lock>>

Bucket(step) == step \div 2

\* Mutant of WithinRateLimit: one request too many.
WithinLimitPlusOne(count) == count <= Limit + 1

WithinRateLimit(count) == count <= Limit

\* The key of a later minute is another one.
Tick ==
    /\ now < LastStep
    /\ now' = now + 1
    /\ hits' = IF Bucket(now + 1) = Bucket(now) THEN hits ELSE 0
    /\ UNCHANGED <<fails, lock>>

IncrLoginFailures == fails' = fails + 1 /\ UNCHANGED <<now, hits, lock>>

SetLoginLock == lock' = TRUE /\ UNCHANGED <<now, hits, fails>>

ClearLoginFailures == fails' = 0 /\ lock' = FALSE /\ UNCHANGED <<now, hits>>

\* The window was armed by the first failure, or the lock has run its time.
FailuresAgeOut == fails > 0 /\ fails' = 0 /\ UNCHANGED <<now, hits, lock>>

LockAgesOut == lock /\ lock' = FALSE /\ UNCHANGED <<now, hits, fails>>
=============================================================================
