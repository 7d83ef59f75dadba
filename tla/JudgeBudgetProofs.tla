------------------------- MODULE JudgeBudgetProofs -------------------------
(* Theorems about JudgeBudget, for all values of its constants. *)
EXTENDS JudgeBudget, TLAPS

LEMMA CeilDivBounds ==
    ASSUME NEW a \in Int, NEW b \in Nat \ {0}
    PROVE  /\ CeilDiv(a, b) \in Int
           /\ CeilDiv(a, b) * b >= a
           /\ (CeilDiv(a, b) - 1) * b < a
  BY SMT DEF CeilDiv

LEMMA TimesMonotone ==
    ASSUME NEW i \in Int, NEW j \in Int, NEW b \in Nat, i <= j
    PROVE  i * b <= j * b
  <1>1. (j - i) * b >= 0
    BY SMT
  <1>2. (j - i) * b = j * b - i * b
    BY SMT
  <1> QED
    BY <1>1, <1>2, SMT

\* The number of cases the seed command names in its error is exact: a run of n cases fits the
\* job timeout if and only if n is at most that number, at the strict boundary too.
THEOREM MaxCasesIsExact ==
    ASSUME NEW n \in Nat \ {0}, NEW t \in Nat \ {0}, NEW startup \in Nat
    PROVE  FitsJobTimeout(n, t, startup) <=> n <= MaxCasesWithinJobTimeout(t, startup)
  <1> DEFINE h == JUDGE_JOB_TIMEOUT - KILL_AND_WRITE_MARGIN - WALL_CLOCK_SLACK - startup
             q == CeilDiv(h, t)
  <1>1. h \in Int
    BY BudgetAssumption
  <1>2. q \in Int /\ q * t >= h /\ (q - 1) * t < h
    BY <1>1, CeilDivBounds
  <1>3. n * t \in Int
    BY SMT
  <1>4. FitsJobTimeout(n, t, startup) <=> n * t < h
    BY <1>3, BudgetAssumption DEF FitsJobTimeout, WallBudget
  <1>5. n <= MaxCasesWithinJobTimeout(t, startup) <=> n <= q - 1
    BY <1>2 DEF MaxCasesWithinJobTimeout
  <1> HIDE DEF h, q
  <1>6. ASSUME n <= q - 1 PROVE n * t < h
    <2>1. n * t <= (q - 1) * t
      BY <1>2, <1>6, TimesMonotone
    <2>2. (q - 1) * t \in Int
      BY <1>2, SMT
    <2> QED
      BY <1>1, <1>2, <1>3, <2>1, <2>2
  <1>7. ASSUME ~(n <= q - 1) PROVE ~(n * t < h)
    <2>1. q * t <= n * t
      BY <1>2, <1>7, TimesMonotone
    <2>2. q * t \in Int
      BY <1>2, SMT
    <2> QED
      BY <1>1, <1>2, <1>3, <2>1, <2>2
  <1> QED
    BY <1>4, <1>5, <1>6, <1>7

\* A run of a problem the seed command accepted ends by its own wall clock: whatever its job
\* does besides, as long as that takes no longer than the margin, arq's timeout is not reached.
THEOREM WallClockBeforeJobTimeout ==
    ASSUME NEW n \in Nat, NEW t \in Nat, NEW startup \in Nat,
           NEW waited \in Nat, NEW spent \in Nat,
           FitsJobTimeout(n, t, startup),
           waited <= WallBudget(n, t, startup), spent <= KILL_AND_WRITE_MARGIN
    PROVE  waited + spent < JUDGE_JOB_TIMEOUT
  <1>1. n * t \in Int
    BY SMT
  <1> QED
    BY <1>1, BudgetAssumption DEF FitsJobTimeout, WallBudget
=============================================================================
