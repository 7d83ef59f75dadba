---------------------------- MODULE JudgeBudget ----------------------------
(***************************************************************************)
(* How long a judge run may take (app/judge_budget.py): the numbers that    *)
(* the runners' wall clock, arq's job timeout, the rule of the seed file    *)
(* and the orphan sweep share.  Durations are natural numbers of one unit;  *)
(* the code's are milliseconds and whole seconds, which milliseconds hold   *)
(* exactly.                                                                *)
(***************************************************************************)
EXTENDS Integers

CONSTANTS
    JUDGE_JOB_TIMEOUT,       \* when arq cancels a job
    WALL_CLOCK_SLACK,        \* on top of the cases' own limits
    KILL_AND_WRITE_MARGIN,   \* for what a job does outside its wall clock
    ORPHAN_SLOP              \* how far past the job timeout a sandbox is an orphan

ASSUME BudgetAssumption ==
    /\ JUDGE_JOB_TIMEOUT \in Nat
    /\ WALL_CLOCK_SLACK \in Nat
    /\ KILL_AND_WRITE_MARGIN \in Nat
    /\ ORPHAN_SLOP \in Nat

MAX_LIVE_SANDBOX_AGE == JUDGE_JOB_TIMEOUT + ORPHAN_SLOP

\* A run of n cases of at most t each; startup is what the language's sandbox profile reserves.
WallBudget(n, t, startup) == n * t + WALL_CLOCK_SLACK + startup

\* Mutant of FitsJobTimeout: the margin for the kill and the write is forgotten.
FitsWithoutMargin(n, t, startup) == WallBudget(n, t, startup) <= JUDGE_JOB_TIMEOUT

FitsJobTimeout(n, t, startup) ==
    WallBudget(n, t, startup) + KILL_AND_WRITE_MARGIN < JUDGE_JOB_TIMEOUT

CeilDiv(a, b) == (a + b - 1) \div b

\* The most cases a problem may have, for the error message of the seed command.
MaxCasesWithinJobTimeout(t, startup) ==
    LET headroom == JUDGE_JOB_TIMEOUT - KILL_AND_WRITE_MARGIN - WALL_CLOCK_SLACK - startup
        most == CeilDiv(headroom, t) - 1
    IN  IF most > 0 THEN most ELSE 0
=============================================================================
