------------------------ MODULE JudgePipelineProofs ------------------------
(***************************************************************************)
(* What holds of JudgePipeline for every set of submissions, keys and job   *)
(* slots and all values of its timers.                                     *)
(***************************************************************************)
EXTENDS JudgePipeline, TLAPS

(***************************************************************************)
(* Type correctness.  It needs both assumptions: an age never passes its    *)
(* cap, and a job is claimed at an age within the stale budget.             *)
(***************************************************************************)
LEMMA InitTypeOK == Init => TypeOK
  BY StaticAssumption, TimingAssumption DEF Init, TypeOK, Status

LEMMA RequestTypeOK ==
  ASSUME NEW s \in Subs, TypeOK, Request(s)
  PROVE  TypeOK'
<1> USE StaticAssumption, TimingAssumption
    DEF TypeOK, Status, Unfinished, Settled, rowVars, lockVars, workVars, sweepVars,
        ApiGoto, Write, FailIf, Release, TryRelease, Stored
<1>1. CASE Refuse(s)            BY <1>1 DEF Refuse
<1>2. CASE AcquireInflight(s)   BY <1>2 DEF AcquireInflight, GotoInsert
<1>3. CASE InsertRow(s)         BY <1>3 DEF InsertRow
<1>4. CASE InsertFails(s)       BY <1>4 DEF InsertFails
<1>5. CASE RefreshFails(s)      BY <1>5 DEF RefreshFails
<1>6. CASE EnqueueJudge(s)      BY <1>6 DEF EnqueueJudge
<1>7. CASE MarkFailed(s)        BY <1>7 DEF MarkFailed
<1>8. CASE UnlockFailed(s)      BY <1>8 DEF UnlockFailed
<1>9. CASE ApiCrash(s)          BY <1>9 DEF ApiCrash
<1>10. CASE DeleteSubmission(s) BY <1>10 DEF DeleteSubmission
<1> QED
  BY <1>1, <1>2, <1>3, <1>4, <1>5, <1>6, <1>7, <1>8, <1>9, <1>10 DEF Request

LEMMA EndJobType ==
  ASSUME NEW w \in Workers, TypeOK, EndJob(w)
  PROVE  /\ job'  \in [Subs -> {"none", "queued", "busy", "spent"}]
         /\ wpc'  \in [Workers -> {"idle", "load", "claim", "judge", "except", "cancelled", "release"}]
         /\ wsub' \in [Workers -> Subs \cup {NoSub}]
         /\ wAge' \in [Workers -> 0..JUDGE_JOB_TIMEOUT]
<1> USE DEF TypeOK, EndJob
<1>1. 0 \in 0..JUDGE_JOB_TIMEOUT BY TimingAssumption
<1>2. job' \in [Subs -> {"none", "queued", "busy", "spent"}] OBVIOUS
<1>3. wpc' \in [Workers -> {"idle", "load", "claim", "judge", "except", "cancelled", "release"}]
  OBVIOUS
<1>4. wsub' \in [Workers -> Subs \cup {NoSub}] OBVIOUS
<1>5. wAge' \in [Workers -> 0..JUDGE_JOB_TIMEOUT] BY <1>1
<1> QED BY <1>2, <1>3, <1>4, <1>5

LEMMA JudgeTypeOK ==
  ASSUME NEW w \in Workers, TypeOK, Judge(w)
  PROVE  TypeOK'
<1> USE StaticAssumption, TimingAssumption
    DEF TypeOK, Status, Unfinished, Settled, rowVars, lockVars, workVars, sweepVars,
        Goto, EndJob, Write, FailIf, Release, TryRelease
<1>1. ASSUME NEW s \in Subs, StartJob(w, s) PROVE TypeOK'
  BY <1>1 DEF StartJob
<1>2. CASE LoadRow(w)         BY <1>2 DEF LoadRow
<1>3. CASE ClaimRow(w)        BY <1>3 DEF ClaimRow, SetRunning
<1>4. CASE WriteVerdict(w)    BY <1>4 DEF WriteVerdict
<1>5. CASE HandleException(w) BY <1>5 DEF HandleException
<1>6. CASE CancelJob(w)       BY <1>6 DEF CancelJob
<1>7. CASE FailCancelled(w)
  <2>1. UNCHANGED rowVars \/ Write(wsub[w], "judge_error")
    BY <1>7 DEF FailCancelled
  <2>2. row' \in [Subs -> Status] /\ age' \in [Subs -> 0..STALE_AFTER + 1]
    BY <2>1
  <2>3. Goto(w, "release") /\ UNCHANGED <<lockVars, job, api, sweepVars>>
    BY <1>7 DEF FailCancelled
  <2> QED BY <2>2, <2>3
<1>8. CASE ReleaseInflight(w)
  <2>1. UNCHANGED lockVars \/ TryRelease(wsub[w])
    BY <1>8 DEF ReleaseInflight
  <2>2. /\ lock' \in [Keys -> Subs \cup {NoSub}]
        /\ lockAge' \in [Keys -> 0..INFLIGHT_TTL - 1]
        /\ lapsed' \subseteq Subs
    BY <2>1
  <2>3. EndJob(w) /\ UNCHANGED <<rowVars, api, sweepVars>>
    BY <1>8 DEF ReleaseInflight
  <2> QED BY <2>2, <2>3, EndJobType
<1>9. CASE WorkerCrash(w)     BY <1>9, EndJobType DEF WorkerCrash
<1> QED
  BY <1>1, <1>2, <1>3, <1>4, <1>5, <1>6, <1>7, <1>8, <1>9 DEF Judge

LEMMA SweepTypeOK ==
  ASSUME TypeOK, SweepStep \/ SweeperCrash
  PROVE  TypeOK'
<1> USE StaticAssumption, TimingAssumption
    DEF TypeOK, Status, Unfinished, Settled, rowVars, lockVars, workVars, sweepVars,
        Release, TryRelease, Stored, Stale
<1>1. CASE FailStale BY <1>1 DEF FailStale
<1>2. ASSUME NEW s \in Subs, UnlockStale(s) PROVE TypeOK'
  BY <1>2 DEF UnlockStale
<1>3. ASSUME NEW s \in Subs, RequeueLost(s) PROVE TypeOK'
  BY <1>3 DEF RequeueLost
<1>4. CASE SelectPending    BY <1>4 DEF SelectPending
<1>5. CASE MissingJudgeJobs BY <1>5 DEF MissingJudgeJobs
<1>6. CASE SweeperCrash     BY <1>6 DEF SweeperCrash
<1> QED
  BY <1>1, <1>2, <1>3, <1>4, <1>5, <1>6 DEF SweepStep

LEMMA TimeTypeOK ==
  ASSUME TypeOK, Tick \/ RedisRestart
  PROVE  TypeOK'
<1> USE StaticAssumption, TimingAssumption DEF TypeOK, rowVars, workVars, sweepVars
<1>1. CASE Tick
  <2> USE <1>1 DEF Tick, Older, Expiring
  <2>1. lockAge' \in [Keys -> 0..INFLIGHT_TTL - 1] OBVIOUS
  <2>2. age' \in [Subs -> 0..STALE_AFTER + 1] OBVIOUS
  <2>3. wAge' \in [Workers -> 0..JUDGE_JOB_TIMEOUT] OBVIOUS
  <2>4. lock' \in [Keys -> Subs \cup {NoSub}] /\ lapsed' \subseteq Subs OBVIOUS
  <2>5. sweepAge' \in 0..SWEEP_EVERY OBVIOUS
  <2> QED BY <2>1, <2>2, <2>3, <2>4, <2>5
<1>2. CASE RedisRestart BY <1>2 DEF RedisRestart
<1> QED BY <1>1, <1>2

\* Every variable keeps its type: no age passes its cap, no lock outlives its TTL.
THEOREM TypeCorrect == Spec => []TypeOK
<1>1. TypeOK /\ [Next]_vars => TypeOK'
  <2> SUFFICES ASSUME TypeOK, [Next]_vars PROVE TypeOK'
    OBVIOUS
  <2>1. CASE Next
    BY <2>1, RequestTypeOK, JudgeTypeOK, SweepTypeOK, TimeTypeOK DEF Next
  <2>2. CASE UNCHANGED vars
    BY <2>2 DEF vars, TypeOK
  <2> QED BY <2>1, <2>2
<1> QED BY InitTypeOK, <1>1, PTL DEF Spec

-----------------------------------------------------------------------------
(***************************************************************************)
(* The in-flight lock.  LockHeldWhileJudging is not inductive: a step may   *)
(* release a lock only because nobody can still come to judge under it, so  *)
(* the invariant says of every submission when that is the case.            *)
(***************************************************************************)
Holds(s) == lock[KeyOf[s]] = s

\* A slot is busy exactly when it has a submission, and a submission that a slot, the queue,
\* the sweep or Postgres knows has passed the insert of its request.
Bookkeeping ==
    /\ \A w \in Workers : (wpc[w] = "idle" <=> wsub[w] = NoSub) /\ (wpc[w] = "idle" => wAge[w] = 0)
    /\ \A s \in Subs :
         \/ row[s] # "none"
         \/ job[s] # "none"
         \/ s \in batch
         \/ \E w \in Workers : wsub[w] = s
         => api[s] \notin {"new", "insert"}
    /\ \A s \in Subs : api[s] = "new" => age[s] = 0
    /\ \A k \in Keys : lock[k] = NoSub => lockAge[k] = 0

\* Until Redis loses its data a submission has one job at most.
OneJob ==
    \A w \in Workers : wsub[w] \in Subs \ lapsed =>
        /\ job[wsub[w]] = "busy"
        /\ \A v \in Workers : wsub[v] = wsub[w] => v = w

\* A job may still claim the row.
Claimable(s) ==
    /\ row[s] = "pending"
    /\ \/ job[s] \in {"none", "queued"}
       \/ \E w \in Workers : wpc[w] \in {"load", "claim"} /\ wsub[w] = s

BeingJudged(s) == \E w \in Workers : Judging(w) /\ wsub[w] = s

\* What keeps the lock, for a Submit that has not lost it.
LockKept ==
    \A s \in Subs \ (Runs \cup lapsed) :
        api[s] = "insert" \/ Claimable(s) \/ BeingJudged(s) => Holds(s)

\* What entitles the request and the sweep to release it.
ReleaseDue ==
    /\ \A s \in Subs : BeingJudged(s) => row[s] \notin {"none", "pending"}
    /\ \A s \in Subs : api[s] = "unlock" => row[s] \notin Unfinished /\ ~BeingJudged(s)
    /\ \A s \in Subs : spc = "unlock" /\ s \in batch =>
         row[s] \notin Unfinished /\ (s \in Runs \cup lapsed \/ ~BeingJudged(s))

\* A job and the row it claims are never older than the lock they are covered by; nor is a
\* pending row, if no request is slow.
YoungerThanLock ==
    \A s \in Subs : Holds(s) =>
        /\ \/ row[s] = "running"
           \/ ~May("slow_request") /\ (row[s] = "pending" \/ api[s] = "insert")
           => age[s] <= lockAge[KeyOf[s]]
        /\ \A w \in Workers : wsub[w] = s => wAge[w] <= lockAge[KeyOf[s]]

LockInv ==
    TypeOK /\ Bookkeeping /\ OneJob /\ LockKept /\ ReleaseDue /\ YoungerThanLock

LEMMA RequestLockInv ==
  ASSUME NEW s \in Subs, LockInv, Request(s), ~May("lost_commit"), ~May("double_fault")
  PROVE  LockInv'
<1> USE StaticAssumption, TimingAssumption
    DEF LockInv, Bookkeeping, OneJob, LockKept, ReleaseDue, YoungerThanLock, Holds,
        Claimable, BeingJudged, Judging, TypeOK, Status, Unfinished, Settled,
        rowVars, lockVars, workVars, sweepVars,
        ApiGoto, Write, FailIf, Release, TryRelease, Stored
<1>0. TypeOK' BY RequestTypeOK
<1>1. CASE Refuse(s) BY <1>0, <1>1 DEF Refuse
<1>2. CASE AcquireInflight(s)
  <2> USE <1>2 DEF AcquireInflight, GotoInsert
  <2>1. Bookkeeping'     OBVIOUS
  <2>2. OneJob'          OBVIOUS
  <2>3. LockKept'        OBVIOUS
  <2>4. ReleaseDue'      OBVIOUS
  <2>5. YoungerThanLock' OBVIOUS
  <2> QED BY <1>0, <2>1, <2>2, <2>3, <2>4, <2>5
<1>3. CASE InsertRow(s) BY <1>0, <1>3 DEF InsertRow
<1>4. CASE InsertFails(s) BY <1>0, <1>4 DEF InsertFails
<1>5. CASE RefreshFails(s) BY <1>0, <1>5 DEF RefreshFails
<1>6. CASE EnqueueJudge(s) BY <1>0, <1>6 DEF EnqueueJudge
<1>7. CASE MarkFailed(s) BY <1>0, <1>7 DEF MarkFailed
<1>8. CASE UnlockFailed(s) BY <1>0, <1>8 DEF UnlockFailed
<1>9. CASE ApiCrash(s) BY <1>0, <1>9 DEF ApiCrash
<1>10. CASE DeleteSubmission(s) BY <1>0, <1>10 DEF DeleteSubmission
<1> QED BY <1>1, <1>2, <1>3, <1>4, <1>5, <1>6, <1>7, <1>8, <1>9, <1>10 DEF Request


LEMMA JudgeLockInv ==
  ASSUME NEW w \in Workers, LockInv, Judge(w)
  PROVE  LockInv'
<1> USE StaticAssumption, TimingAssumption
    DEF LockInv, Bookkeeping, OneJob, LockKept, ReleaseDue, YoungerThanLock, Holds,
        Claimable, BeingJudged, Judging, TypeOK, Status, Unfinished, Settled,
        rowVars, lockVars, workVars, sweepVars,
        Goto, EndJob, SetRunning, Write, FailIf, Release, TryRelease
<1>0. TypeOK' BY JudgeTypeOK
<1>1. ASSUME NEW s \in Subs, StartJob(w, s) PROVE LockInv'
  BY <1>0, <1>1 DEF StartJob
<1>2. CASE LoadRow(w)
  <2> USE <1>2 DEF LoadRow
  <2>1. Bookkeeping'     OBVIOUS
  <2>2. OneJob'          OBVIOUS
  <2>3. LockKept'        OBVIOUS
  <2>4. ReleaseDue'      OBVIOUS
  <2>5. YoungerThanLock' OBVIOUS
  <2> QED BY <1>0, <2>1, <2>2, <2>3, <2>4, <2>5
<1>3. CASE ClaimRow(w) BY <1>0, <1>3 DEF ClaimRow
<1>4. CASE WriteVerdict(w) BY <1>0, <1>4 DEF WriteVerdict
<1>5. CASE HandleException(w) BY <1>0, <1>5 DEF HandleException
<1>6. CASE CancelJob(w)
  <2> USE <1>6 DEF CancelJob
  <2>1. Bookkeeping'     OBVIOUS
  <2>2. OneJob'          OBVIOUS
  <2>3. LockKept'        OBVIOUS
  <2>4. ReleaseDue'      OBVIOUS
  <2>5. YoungerThanLock' OBVIOUS
  <2> QED BY <1>0, <2>1, <2>2, <2>3, <2>4, <2>5
<1>7. CASE FailCancelled(w) BY <1>0, <1>7 DEF FailCancelled
<1>8. CASE ReleaseInflight(w) BY <1>0, <1>8 DEF ReleaseInflight
<1>9. CASE WorkerCrash(w) BY <1>0, <1>9 DEF WorkerCrash
<1> QED BY <1>1, <1>2, <1>3, <1>4, <1>5, <1>6, <1>7, <1>8, <1>9 DEF Judge


LEMMA SweepLockInv ==
  ASSUME LockInv, SweepStep \/ SweeperCrash
  PROVE  LockInv'
<1> USE StaticAssumption, TimingAssumption
    DEF LockInv, Bookkeeping, OneJob, LockKept, ReleaseDue, YoungerThanLock, Holds,
        Claimable, BeingJudged, Judging, TypeOK, Status, Unfinished, Settled,
        rowVars, lockVars, workVars, sweepVars,
        Release, TryRelease, Stored, Stale
<1>0. TypeOK' BY SweepTypeOK
<1>1. ASSUME NEW s \in Subs, UnlockStale(s) PROVE LockInv'
  BY <1>0, <1>1 DEF UnlockStale
<1>2. ASSUME NEW s \in Subs, RequeueLost(s) PROVE LockInv'
  BY <1>0, <1>2 DEF RequeueLost
<1>3. CASE FailStale BY <1>0, <1>3 DEF FailStale
<1>4. CASE SelectPending BY <1>0, <1>4 DEF SelectPending
<1>5. CASE MissingJudgeJobs BY <1>0, <1>5 DEF MissingJudgeJobs
<1>6. CASE SweeperCrash BY <1>0, <1>6 DEF SweeperCrash
<1> QED BY <1>1, <1>2, <1>3, <1>4, <1>5, <1>6 DEF SweepStep


LEMMA TimeLockInv ==
  ASSUME LockInv, Tick \/ RedisRestart
  PROVE  LockInv'
<1> USE StaticAssumption, TimingAssumption
    DEF LockInv, Bookkeeping, OneJob, LockKept, ReleaseDue, YoungerThanLock, Holds,
        Claimable, BeingJudged, Judging, TypeOK, Status, Unfinished, Settled,
        rowVars, lockVars, workVars, sweepVars,
        Older, Expiring
<1>0. TypeOK' BY TimeTypeOK
<1>1. CASE Tick BY <1>0, <1>1 DEF Tick
<1>2. CASE RedisRestart BY <1>0, <1>2 DEF RedisRestart
<1> QED BY <1>1, <1>2

\* A commit that raises although it was applied leaves a row whose lock the request gives up,
\* and Postgres failing inside the enqueue-failure handler makes the request give it up blindly:
\* without those two the lock invariant always holds.
THEOREM LockInvariant ==
  ASSUME ~May("lost_commit"), ~May("double_fault")
  PROVE  Spec => []LockInv
<1>1. Init => LockInv
  <2> SUFFICES ASSUME Init PROVE LockInv
    OBVIOUS
  <2>1. TypeOK BY InitTypeOK
  <2>2. Bookkeeping /\ OneJob /\ LockKept /\ ReleaseDue /\ YoungerThanLock
    BY StaticAssumption, TimingAssumption
       DEF Init, Bookkeeping, OneJob, LockKept, ReleaseDue, YoungerThanLock, Holds,
           Claimable, BeingJudged, Judging, Unfinished
  <2> QED BY <2>1, <2>2 DEF LockInv
<1>2. LockInv /\ [Next]_vars => LockInv'
  <2> SUFFICES ASSUME LockInv, [Next]_vars PROVE LockInv'
    OBVIOUS
  <2>1. CASE Next
    BY <2>1, RequestLockInv, JudgeLockInv, SweepLockInv, TimeLockInv DEF Next
  <2>2. CASE UNCHANGED vars
    BY <2>2 DEF vars, LockInv, Bookkeeping, OneJob, LockKept, ReleaseDue, YoungerThanLock,
                Holds, Claimable, BeingJudged, Judging, TypeOK
  <2> QED BY <2>1, <2>2
<1> QED BY <1>1, <1>2, PTL DEF Spec

\* A Submit that is being judged holds its in-flight lock, unless it has outlived it or Redis
\* has lost it: no request, no other job and no sweep ever releases it.
THEOREM LockSafety ==
  ASSUME ~May("lost_commit"), ~May("double_fault")
  PROVE  Spec => []LockHeldWhileJudging
<1>1. LockInv => LockHeldWhileJudging
  BY DEF LockInv, Bookkeeping, LockKept, Holds, BeingJudged, LockHeldWhileJudging, Judging, TypeOK
<1> QED BY <1>1, LockInvariant, PTL

\* Hence two Submits of one user to one problem are in sandboxes at the same time only after
\* one of them has lost its lock.
THEOREM OneInFlight ==
  ASSUME ~May("lost_commit"), ~May("double_fault")
  PROVE  Spec => []OneJudgingPerKey
<1>1. LockHeldWhileJudging => OneJudgingPerKey
  BY DEF LockHeldWhileJudging, OneJudgingPerKey
<1> QED BY <1>1, LockSafety, PTL

\* A running row the sweep fails has lost its lock before, and so has a pending one if no
\* request is slow: the TTL is within the stale budget.
THEOREM StaleHoldsNoLock ==
  ASSUME ~May("lost_commit"), ~May("double_fault")
  PROVE  Spec => []StaleRowUnlocked
<1>1. LockInv => StaleRowUnlocked
  <2> SUFFICES ASSUME LockInv, NEW s \in Subs, s \in Stale, Holds(s),
                      row[s] = "running" \/ ~May("slow_request")
               PROVE  FALSE
    BY DEF StaleRowUnlocked, Stale, Holds
  <2>1. age[s] > STALE_AFTER /\ age[s] <= lockAge[KeyOf[s]]
    BY DEF LockInv, YoungerThanLock, Stale, Unfinished
  <2>2. lockAge[KeyOf[s]] \in 0..INFLIGHT_TTL - 1 /\ age[s] \in Nat
    BY StaticAssumption, TimingAssumption DEF LockInv, TypeOK
  <2> QED BY <2>1, <2>2, TimingAssumption
<1> QED BY <1>1, LockInvariant, PTL

-----------------------------------------------------------------------------
(***************************************************************************)
(* The verdict is final: the pipeline keeps the promise of                  *)
(* SubmissionLifecycle, as long as Redis keeps its data (a submission then  *)
(* has one job) and no commit raises after it was applied.                  *)
(***************************************************************************)
\* A submission has one job at most.
OneJobEver ==
    \A w \in Workers : wsub[w] \in Subs =>
        /\ job[wsub[w]] = "busy"
        /\ \A v \in Workers : wsub[v] = wsub[w] => v = w

\* The sweep cannot catch a row that is being judged: it is no older than its job, and arq
\* cancels the job within the stale budget.
JudgedIsRunning ==
    \A w \in Workers : Judging(w) =>
        /\ row[wsub[w]] \in {"running", "deleted"}
        /\ row[wsub[w]] = "running" => age[wsub[w]] <= wAge[w]

\* A verdict is written by the only job of its submission, which then writes nothing more.
VerdictEndsJob ==
    /\ \A w \in Workers : wpc[w] \in {"load", "claim", "except"} => row[wsub[w]] \notin Verdicts
    /\ \A s \in Subs : row[s] \in Verdicts => job[s] \in {"busy", "spent"}

FinalInv ==
    TypeOK /\ Bookkeeping /\ OneJobEver /\ JudgedIsRunning /\ VerdictEndsJob

LEMMA RequestFinalInv ==
  ASSUME NEW s \in Subs, FinalInv, Request(s)
  PROVE  FinalInv'
<1> USE StaticAssumption, TimingAssumption
    DEF FinalInv, Bookkeeping, OneJobEver, JudgedIsRunning, VerdictEndsJob,
        Judging, TypeOK, Status, Unfinished, Settled,
        rowVars, lockVars, workVars, sweepVars,
        ApiGoto, Write, FailIf, Release, TryRelease, Stored
<1>0. TypeOK' BY RequestTypeOK
<1>1. CASE Refuse(s) BY <1>0, <1>1 DEF Refuse
<1>2. CASE AcquireInflight(s) BY <1>0, <1>2 DEF AcquireInflight, GotoInsert
<1>3. CASE InsertRow(s) BY <1>0, <1>3 DEF InsertRow
<1>4. CASE InsertFails(s) BY <1>0, <1>4 DEF InsertFails
<1>5. CASE RefreshFails(s) BY <1>0, <1>5 DEF RefreshFails
<1>6. CASE EnqueueJudge(s) BY <1>0, <1>6 DEF EnqueueJudge
<1>7. CASE MarkFailed(s) BY <1>0, <1>7 DEF MarkFailed
<1>8. CASE UnlockFailed(s) BY <1>0, <1>8 DEF UnlockFailed
<1>9. CASE ApiCrash(s) BY <1>0, <1>9 DEF ApiCrash
<1>10. CASE DeleteSubmission(s) BY <1>0, <1>10 DEF DeleteSubmission
<1> QED BY <1>1, <1>2, <1>3, <1>4, <1>5, <1>6, <1>7, <1>8, <1>9, <1>10 DEF Request


LEMMA JudgeFinalInv ==
  ASSUME NEW w \in Workers, FinalInv, Judge(w), ~May("lost_commit")
  PROVE  FinalInv'
<1> USE StaticAssumption, TimingAssumption
    DEF FinalInv, Bookkeeping, OneJobEver, JudgedIsRunning, VerdictEndsJob,
        Judging, TypeOK, Status, Unfinished, Settled,
        rowVars, lockVars, workVars, sweepVars,
        Goto, EndJob, SetRunning, Write, FailIf, Release, TryRelease
<1>0. TypeOK' BY JudgeTypeOK
<1>1. ASSUME NEW s \in Subs, StartJob(w, s) PROVE FinalInv'
  BY <1>0, <1>1 DEF StartJob
<1>2. CASE LoadRow(w)
  <2> USE <1>2 DEF LoadRow
  <2>1. Bookkeeping'     OBVIOUS
  <2>2. OneJobEver'      OBVIOUS
  <2>3. JudgedIsRunning' OBVIOUS
  <2>4. VerdictEndsJob'  OBVIOUS
  <2> QED BY <1>0, <2>1, <2>2, <2>3, <2>4
<1>3. CASE ClaimRow(w) BY <1>0, <1>3 DEF ClaimRow
<1>4. CASE WriteVerdict(w) BY <1>0, <1>4 DEF WriteVerdict
<1>5. CASE HandleException(w) BY <1>0, <1>5 DEF HandleException
<1>6. CASE CancelJob(w) BY <1>0, <1>6 DEF CancelJob
<1>7. CASE FailCancelled(w) BY <1>0, <1>7 DEF FailCancelled
<1>8. CASE ReleaseInflight(w) BY <1>0, <1>8 DEF ReleaseInflight
<1>9. CASE WorkerCrash(w) BY <1>0, <1>9 DEF WorkerCrash
<1> QED BY <1>1, <1>2, <1>3, <1>4, <1>5, <1>6, <1>7, <1>8, <1>9 DEF Judge


LEMMA SweepFinalInv ==
  ASSUME FinalInv, SweepStep \/ SweeperCrash
  PROVE  FinalInv'
<1> USE StaticAssumption, TimingAssumption
    DEF FinalInv, Bookkeeping, OneJobEver, JudgedIsRunning, VerdictEndsJob,
        Judging, TypeOK, Status, Unfinished, Settled,
        rowVars, lockVars, workVars, sweepVars,
        Release, TryRelease, Stored, Stale
<1>0. TypeOK' BY SweepTypeOK
<1>1. ASSUME NEW s \in Subs, UnlockStale(s) PROVE FinalInv'
  BY <1>0, <1>1 DEF UnlockStale
<1>2. ASSUME NEW s \in Subs, RequeueLost(s) PROVE FinalInv'
  BY <1>0, <1>2 DEF RequeueLost
<1>3. CASE FailStale BY <1>0, <1>3 DEF FailStale
<1>4. CASE SelectPending BY <1>0, <1>4 DEF SelectPending
<1>5. CASE MissingJudgeJobs BY <1>0, <1>5 DEF MissingJudgeJobs
<1>6. CASE SweeperCrash BY <1>0, <1>6 DEF SweeperCrash
<1> QED BY <1>1, <1>2, <1>3, <1>4, <1>5, <1>6 DEF SweepStep


\* Time stops at a job's timeout until arq has cancelled it.
LEMMA JudgedIsNotDue ==
  ASSUME TypeOK, Tick, NEW w \in Workers, wpc[w] = "judge"
  PROVE  wAge[w] \in Nat /\ wAge'[w] = wAge[w] + 1
<1>1. wAge[w] \in 0..JUDGE_JOB_TIMEOUT BY DEF TypeOK
<1>2. wAge[w] # JUDGE_JOB_TIMEOUT BY DEF Tick, Due
<1>3. wAge'[w] = Older(wAge[w], JUDGE_JOB_TIMEOUT) BY DEF Tick
<1> QED BY <1>1, <1>2, <1>3, TimingAssumption DEF Older

LEMMA TickFinalInv ==
  ASSUME FinalInv, Tick
  PROVE  FinalInv'
<1> USE StaticAssumption, TimingAssumption
    DEF FinalInv, Bookkeeping, OneJobEver, JudgedIsRunning, VerdictEndsJob,
        Judging, TypeOK, Status, Unfinished, Settled,
        rowVars, lockVars, workVars, sweepVars,
        Older, Expiring, Due
<1>0. TypeOK' BY TimeTypeOK
<1> USE DEF Tick
<1>1. Bookkeeping' OBVIOUS
<1>2. OneJobEver'  OBVIOUS
<1>3. JudgedIsRunning'
  <2> SUFFICES ASSUME NEW w \in Workers, wpc[w] = "judge"
               PROVE  /\ row[wsub[w]] \in {"running", "deleted"}
                      /\ row[wsub[w]] = "running" => age'[wsub[w]] <= wAge'[w]
    OBVIOUS
  <2>1. wAge[w] \in Nat /\ wAge'[w] = wAge[w] + 1
    BY JudgedIsNotDue
  <2>2. wsub[w] \in Subs /\ age[wsub[w]] \in Nat
    OBVIOUS
  <2>3. age'[wsub[w]] <= age[wsub[w]] + 1
    BY <2>2
  <2> QED BY <2>1, <2>2, <2>3
<1>4. VerdictEndsJob' OBVIOUS
<1> QED BY <1>0, <1>1, <1>2, <1>3, <1>4

LEMMA FinalInvariant ==
  ASSUME ~May("lost_commit"), ~May("redis_restart")
  PROVE  Spec => []FinalInv
<1>1. Init => FinalInv
  <2> SUFFICES ASSUME Init PROVE FinalInv
    OBVIOUS
  <2>1. TypeOK BY InitTypeOK
  <2>2. Bookkeeping /\ OneJobEver /\ JudgedIsRunning /\ VerdictEndsJob
    BY StaticAssumption, TimingAssumption
       DEF Init, Bookkeeping, OneJobEver, JudgedIsRunning, VerdictEndsJob, Judging
  <2> QED BY <2>1, <2>2 DEF FinalInv
<1>2. FinalInv /\ [Next]_vars => FinalInv'
  <2> SUFFICES ASSUME FinalInv, [Next]_vars PROVE FinalInv'
    OBVIOUS
  <2>1. CASE Next
    BY <2>1, RequestFinalInv, JudgeFinalInv, SweepFinalInv, TickFinalInv DEF Next, RedisRestart
  <2>2. CASE UNCHANGED vars
    BY <2>2 DEF vars, FinalInv, Bookkeeping, OneJobEver, JudgedIsRunning, VerdictEndsJob,
                Judging, TypeOK
  <2> QED BY <2>1, <2>2
<1> QED BY <1>1, <1>2, PTL DEF Spec

\* A write to one row by a guarded UPDATE is a lifecycle step, or nothing.
LEMMA FailIfGivesUp ==
  ASSUME TypeOK, NEW s \in Subs, NEW from, FailIf(s, from),
         row[s] \in from => row[s] \in Unfinished \cup {"judge_error"}
  PROVE  Lifecycle!Next \/ UNCHANGED row
<1> USE DEF FailIf, Write, rowVars, TypeOK
<1>1. CASE row[s] \in from /\ row[s] \in Unfinished
  <2>1. row' = [t \in Subs |-> IF t \in {s} THEN "judge_error" ELSE row[t]]
    BY <1>1
  <2>2. Lifecycle!GiveUp({s})
    BY <1>1, <2>1 DEF Lifecycle!GiveUp, Lifecycle!Unfinished, Unfinished
  <2> QED BY <2>2 DEF Lifecycle!Next
<1>2. CASE row[s] \in from /\ row[s] = "judge_error"
  <2>1. row' = [row EXCEPT ![s] = "judge_error"] BY <1>2
  <2>2. row' \in [Subs -> Status] BY <2>1, <1>2
  <2>3. \A t \in Subs : row'[t] = row[t] BY <2>1, <1>2
  <2> QED BY <2>2, <2>3
<1>3. CASE row[s] \notin from
  BY <1>3
<1> QED BY <1>1, <1>2, <1>3

\* A worker writes its verdict over a row it has set running.
LEMMA WriteFinishes ==
  ASSUME FinalInv, NEW w \in Workers, wpc[w] = "judge", row[wsub[w]] # "deleted",
         NEW v \in Settled, Write(wsub[w], v)
  PROVE  Lifecycle!Next
<1>1. wsub[w] \in Subs
  BY StaticAssumption DEF FinalInv, TypeOK, Bookkeeping
<1>2. row[wsub[w]] = "running"
  BY DEF FinalInv, JudgedIsRunning, Judging
<1>3. Lifecycle!Finish(wsub[w], v) /\ v \in Lifecycle!Terminal
  BY <1>2 DEF Lifecycle!Finish, Lifecycle!Terminal, Write, Settled
<1> QED BY <1>1, <1>3 DEF Lifecycle!Next

LEMMA RequestRefines ==
  ASSUME NEW s \in Subs, FinalInv, Request(s), ~May("lost_commit")
  PROVE  Lifecycle!Next \/ UNCHANGED row
<1> USE DEF rowVars
<1>0. TypeOK /\ Bookkeeping BY DEF FinalInv
<1>1. CASE InsertRow(s)
  <2>1. row[s] = "none" BY <1>0, <1>1 DEF InsertRow, Bookkeeping
  <2>2. Lifecycle!Create(s) BY <1>1, <2>1 DEF InsertRow, Lifecycle!Create
  <2> QED BY <2>2 DEF Lifecycle!Next
<1>2. CASE MarkFailed(s)
  BY <1>0, <1>2, FailIfGivesUp DEF MarkFailed, Unfinished
<1>3. CASE DeleteSubmission(s)
  <2>1. Lifecycle!Remove(s) BY <1>3 DEF DeleteSubmission, Write, Lifecycle!Remove
  <2> QED BY <2>1 DEF Lifecycle!Next
<1> QED
  BY <1>1, <1>2, <1>3
     DEF Request, Refuse, AcquireInflight, InsertFails, RefreshFails, EnqueueJudge,
         UnlockFailed, ApiCrash

LEMMA JudgeRefines ==
  ASSUME NEW w \in Workers, FinalInv, Judge(w), ~May("lost_commit")
  PROVE  Lifecycle!Next \/ UNCHANGED row
<1> USE DEF rowVars
<1>0. TypeOK BY DEF FinalInv
<1>1. wpc[w] # "idle" => wsub[w] \in Subs
  BY DEF FinalInv, TypeOK, Bookkeeping
<1>2. CASE ClaimRow(w)
  <2>1. CASE row[wsub[w]] = "pending" /\ SetRunning(w)
    <3>1. Lifecycle!Begin(wsub[w])
      BY <2>1 DEF SetRunning, Lifecycle!Begin
    <3> QED BY <1>1, <1>2, <3>1 DEF ClaimRow, Lifecycle!Next
  <2> QED BY <1>2, <2>1 DEF ClaimRow
<1>3. CASE WriteVerdict(w)
  BY <1>3, WriteFinishes DEF WriteVerdict
<1>4. CASE HandleException(w)
  <2>1. wsub[w] \in Subs /\ row[wsub[w]] \notin Verdicts
    BY <1>1, <1>4 DEF HandleException, FinalInv, VerdictEndsJob
  <2> QED BY <1>0, <1>4, <2>1, FailIfGivesUp DEF HandleException, Settled
<1>5. CASE CancelJob(w)
  BY <1>5, WriteFinishes DEF CancelJob
<1>6. CASE FailCancelled(w)
  BY <1>0, <1>1, <1>6, FailIfGivesUp DEF FailCancelled
<1> QED
  BY <1>2, <1>3, <1>4, <1>5, <1>6
     DEF Judge, StartJob, LoadRow, ReleaseInflight, WorkerCrash

LEMMA SweepRefines ==
  ASSUME FinalInv, SweepStep
  PROVE  Lifecycle!Next \/ UNCHANGED row
<1> USE DEF rowVars
<1>1. CASE FailStale /\ Stale # {}
  <2>1. Lifecycle!GiveUp(Stale)
    BY <1>1 DEF FailStale, Stale, Lifecycle!GiveUp, Lifecycle!Unfinished, Unfinished
  <2> QED BY <2>1 DEF Lifecycle!Next, Stale
<1>2. CASE FailStale /\ Stale = {}
  BY <1>2 DEF FailStale, FinalInv, TypeOK
<1> QED
  BY <1>1, <1>2 DEF SweepStep, UnlockStale, SelectPending, MissingJudgeJobs, RequeueLost

LEMMA StepRefines ==
  ASSUME FinalInv, [Next]_vars, ~May("lost_commit")
  PROVE  [Lifecycle!Next]_row
<1>1. CASE \E s \in Subs : Request(s) BY <1>1, RequestRefines
<1>2. CASE \E w \in Workers : Judge(w) BY <1>2, JudgeRefines
<1>3. CASE SweepStep BY <1>3, SweepRefines
<1>4. CASE SweeperCrash \/ Tick \/ RedisRestart \/ UNCHANGED vars
  BY <1>4 DEF SweeperCrash, Tick, RedisRestart, vars, rowVars
<1> QED BY <1>1, <1>2, <1>3, <1>4 DEF Next

\* Requests, workers and sweep together change a row only as the lifecycle in
\* models/submission.py allows.
THEOREM PipelineKeepsLifecycle ==
  ASSUME ~May("lost_commit"), ~May("redis_restart")
  PROVE  Spec => KeepsLifecycle
<1>1. Init => Lifecycle!Init
  BY DEF Init, Lifecycle!Init
<1>2. FinalInv /\ [Next]_vars => [Lifecycle!Next]_row
  BY StepRefines
<1> QED BY <1>1, <1>2, FinalInvariant, PTL DEF Spec, KeepsLifecycle, Lifecycle!SafeSpec

\* A terminal status is never overwritten: not by a late worker, not by the sweep, not by a
\* request whose enqueue failed.
THEOREM VerdictFinality ==
  ASSUME ~May("lost_commit"), ~May("redis_restart")
  PROVE  Spec => VerdictIsFinal
<1> DEFINE Final == \A s \in Subs : row[s] \in Settled => row'[s] \in {row[s], "deleted"}
<1>1. TypeOK /\ [Lifecycle!Next]_row => Final
  BY StaticAssumption
     DEF TypeOK, Settled, Lifecycle!Next, Lifecycle!Create, Lifecycle!Begin, Lifecycle!Finish,
         Lifecycle!GiveUp, Lifecycle!Remove, Lifecycle!Unfinished, Lifecycle!Terminal
<1>2. FinalInv /\ [Next]_vars => [Final]_vars
  BY <1>1, StepRefines DEF FinalInv
<1> QED BY <1>2, FinalInvariant, PTL DEF Spec, VerdictIsFinal
-----------------------------------------------------------------------------
(***************************************************************************)
(* One sandbox at a time, whatever happens.  After a Redis restart a        *)
(* submission may have several jobs, and what keeps all but one out of the  *)
(* sandbox is that its row never becomes pending again.                     *)
(***************************************************************************)
\* A row is pending only before the one UPDATE that lets a job judge.
JudgedWasClaimed == \A s \in Subs : BeingJudged(s) => row[s] \notin {"none", "pending"}

ClaimInv == TypeOK /\ Bookkeeping /\ JudgedWasClaimed /\ JudgedByOne

LEMMA RequestClaimInv ==
  ASSUME NEW s \in Subs, ClaimInv, Request(s)
  PROVE  ClaimInv'
<1> USE StaticAssumption, TimingAssumption
    DEF ClaimInv, Bookkeeping, JudgedWasClaimed, JudgedByOne,
        BeingJudged, Judging, TypeOK, Status, Unfinished, Settled,
        rowVars, lockVars, workVars, sweepVars,
        ApiGoto, Write, FailIf, Release, TryRelease, Stored
<1>0. TypeOK' BY RequestTypeOK
<1>1. CASE Refuse(s) BY <1>0, <1>1 DEF Refuse
<1>2. CASE AcquireInflight(s) BY <1>0, <1>2 DEF AcquireInflight, GotoInsert
<1>3. CASE InsertRow(s) BY <1>0, <1>3 DEF InsertRow
<1>4. CASE InsertFails(s) BY <1>0, <1>4 DEF InsertFails
<1>5. CASE RefreshFails(s) BY <1>0, <1>5 DEF RefreshFails
<1>6. CASE EnqueueJudge(s) BY <1>0, <1>6 DEF EnqueueJudge
<1>7. CASE MarkFailed(s) BY <1>0, <1>7 DEF MarkFailed
<1>8. CASE UnlockFailed(s) BY <1>0, <1>8 DEF UnlockFailed
<1>9. CASE ApiCrash(s) BY <1>0, <1>9 DEF ApiCrash
<1>10. CASE DeleteSubmission(s) BY <1>0, <1>10 DEF DeleteSubmission
<1> QED BY <1>1, <1>2, <1>3, <1>4, <1>5, <1>6, <1>7, <1>8, <1>9, <1>10 DEF Request

LEMMA JudgeClaimInv ==
  ASSUME NEW w \in Workers, ClaimInv, Judge(w)
  PROVE  ClaimInv'
<1> USE StaticAssumption, TimingAssumption
    DEF ClaimInv, Bookkeeping, JudgedWasClaimed, JudgedByOne,
        BeingJudged, Judging, TypeOK, Status, Unfinished, Settled,
        rowVars, lockVars, workVars, sweepVars,
        Goto, EndJob, SetRunning, Write, FailIf, Release, TryRelease
<1>0. TypeOK' BY JudgeTypeOK
<1>1. ASSUME NEW s \in Subs, StartJob(w, s) PROVE ClaimInv'
  BY <1>0, <1>1 DEF StartJob
<1>2. CASE LoadRow(w) BY <1>0, <1>2 DEF LoadRow
<1>3. CASE ClaimRow(w) BY <1>0, <1>3 DEF ClaimRow
<1>4. CASE WriteVerdict(w) BY <1>0, <1>4 DEF WriteVerdict
<1>5. CASE HandleException(w) BY <1>0, <1>5 DEF HandleException
<1>6. CASE CancelJob(w) BY <1>0, <1>6 DEF CancelJob
<1>7. CASE FailCancelled(w) BY <1>0, <1>7 DEF FailCancelled
<1>8. CASE ReleaseInflight(w) BY <1>0, <1>8 DEF ReleaseInflight
<1>9. CASE WorkerCrash(w) BY <1>0, <1>9 DEF WorkerCrash
<1> QED BY <1>1, <1>2, <1>3, <1>4, <1>5, <1>6, <1>7, <1>8, <1>9 DEF Judge

LEMMA SweepClaimInv ==
  ASSUME ClaimInv, SweepStep \/ SweeperCrash
  PROVE  ClaimInv'
<1> USE StaticAssumption, TimingAssumption
    DEF ClaimInv, Bookkeeping, JudgedWasClaimed, JudgedByOne,
        BeingJudged, Judging, TypeOK, Status, Unfinished, Settled,
        rowVars, lockVars, workVars, sweepVars,
        Release, TryRelease, Stored, Stale
<1>0. TypeOK' BY SweepTypeOK
<1>1. ASSUME NEW s \in Subs, UnlockStale(s) PROVE ClaimInv'
  BY <1>0, <1>1 DEF UnlockStale
<1>2. ASSUME NEW s \in Subs, RequeueLost(s) PROVE ClaimInv'
  BY <1>0, <1>2 DEF RequeueLost
<1>3. CASE FailStale BY <1>0, <1>3 DEF FailStale
<1>4. CASE SelectPending BY <1>0, <1>4 DEF SelectPending
<1>5. CASE MissingJudgeJobs BY <1>0, <1>5 DEF MissingJudgeJobs
<1>6. CASE SweeperCrash BY <1>0, <1>6 DEF SweeperCrash
<1> QED BY <1>1, <1>2, <1>3, <1>4, <1>5, <1>6 DEF SweepStep

LEMMA TimeClaimInv ==
  ASSUME ClaimInv, Tick \/ RedisRestart
  PROVE  ClaimInv'
<1> USE StaticAssumption, TimingAssumption
    DEF ClaimInv, Bookkeeping, JudgedWasClaimed, JudgedByOne,
        BeingJudged, Judging, TypeOK, Status, Unfinished, Settled,
        rowVars, lockVars, workVars, sweepVars,
        Older, Expiring
<1>0. TypeOK' BY TimeTypeOK
<1>1. CASE Tick BY <1>0, <1>1 DEF Tick
<1>2. CASE RedisRestart BY <1>0, <1>2 DEF RedisRestart
<1> QED BY <1>1, <1>2

LEMMA InitClaimInv == Init => ClaimInv
<1> SUFFICES ASSUME Init PROVE ClaimInv
  OBVIOUS
<1>1. TypeOK BY InitTypeOK
<1>2. Bookkeeping /\ JudgedWasClaimed /\ JudgedByOne
  BY StaticAssumption, TimingAssumption
     DEF Init, Bookkeeping, JudgedWasClaimed, JudgedByOne, BeingJudged, Judging
<1> QED BY <1>1, <1>2 DEF ClaimInv

LEMMA NextClaimInv == ClaimInv /\ [Next]_vars => ClaimInv'
<1> SUFFICES ASSUME ClaimInv, [Next]_vars PROVE ClaimInv'
  OBVIOUS
<1>1. CASE Next
  BY <1>1, RequestClaimInv, JudgeClaimInv, SweepClaimInv, TimeClaimInv DEF Next
<1>2. CASE UNCHANGED vars
  BY <1>2 DEF vars, ClaimInv, Bookkeeping, JudgedWasClaimed, JudgedByOne, BeingJudged,
              Judging, TypeOK
<1> QED BY <1>1, <1>2

\* A submission is in one sandbox at most, under every failure the model has: crashes, lost
\* commits, and a Redis that forgets its jobs and has them enqueued again.
THEOREM JudgedOnce == Spec => []JudgedByOne
<1>1. ClaimInv => JudgedByOne
  BY DEF ClaimInv
<1> QED BY <1>1, InitClaimInv, NextClaimInv, PTL DEF Spec

-----------------------------------------------------------------------------
(***************************************************************************)
(* No lock is stuck, as long as whoever owes the release gets to make it:   *)
(* no request or job dies or is told to stop, no Redis call fails, nobody   *)
(* deletes the submission, and the sweep does not die on the row of a slow  *)
(* request, stale while its lock is live.  Those the lock's TTL is for.     *)
(***************************************************************************)
\* A submission without a row is known to its own request only, which does not enqueue it.
NoRowNoJob ==
    \A s \in Subs : row[s] = "none" =>
        /\ api[s] \notin {"enqueue", "mark"}
        /\ job[s] = "none" /\ s \notin batch /\ \A w \in Workers : wsub[w] # s

\* A lock is its key's, and a request that has not begun has not lost one.
LockKnown ==
    /\ \A k \in Keys : lock[k] # NoSub => KeyOf[lock[k]] = k
    /\ \A s \in Subs : api[s] = "new" => s \notin lapsed

\* The sweep has failed the row and will release its lock.
SweepOwes(s) == spc = "unlock" /\ s \in batch

\* Whoever will release a lock: the request, the sweep, or the job once the row is there.  A job
\* that has not claimed the row has nothing to release unless the row is still to be claimed.
LockOwed ==
    \A s \in Subs : Holds(s) =>
        /\ api[s] # "new" /\ s \notin Runs \cup lapsed
        /\ \/ api[s] \in {"insert", "unlock"}
           \/ row[s] \in Unfinished
           \/ job[s] = "busy"
           \/ SweepOwes(s)
        /\ \/ job[s] \in {"none", "queued"}
           \/ \E w \in Workers : wsub[w] = s /\ wpc[w] \in {"load", "claim"}
           => row[s] = "pending" \/ api[s] \in {"insert", "unlock"} \/ SweepOwes(s)

\* If no request is slow the sweep finds the locks of its rows expired.
NothingToSweep ==
    ~May("slow_request") => \A s \in Subs : SweepOwes(s) => ~Holds(s)

OwedInv ==
    /\ TypeOK /\ Bookkeeping /\ OneJob /\ YoungerThanLock
    /\ NoRowNoJob /\ LockKnown /\ LockOwed /\ NothingToSweep

ReleasesHappen ==
    /\ Events \cap {"api_crash", "worker_crash", "shutdown", "redis_error", "delete"} = {}
    /\ ~May("sweeper_crash") \/ ~May("slow_request")

LEMMA RequestOwedInv ==
  ASSUME NEW s \in Subs, OwedInv, Request(s), ReleasesHappen
  PROVE  OwedInv'
<1> USE StaticAssumption, TimingAssumption
    DEF OwedInv, Bookkeeping, OneJob, YoungerThanLock,
        NoRowNoJob, LockKnown, LockOwed, NothingToSweep, SweepOwes, Holds,
        TypeOK, Status, Unfinished, Settled,
        rowVars, lockVars, workVars, sweepVars, ReleasesHappen, May,
        ApiGoto, Write, FailIf, Release, TryRelease, Stored
<1>0. TypeOK' BY RequestTypeOK
<1>1. CASE Refuse(s) BY <1>0, <1>1 DEF Refuse
<1>2. CASE AcquireInflight(s)
  <2> USE <1>2 DEF AcquireInflight, GotoInsert
  <2>1. Bookkeeping'     OBVIOUS
  <2>2. OneJob'          OBVIOUS
  <2>3. YoungerThanLock' OBVIOUS
  <2>4. NoRowNoJob' /\ LockKnown' OBVIOUS
  <2>5. LockOwed'        OBVIOUS
  <2>6. NothingToSweep'  OBVIOUS
  <2> QED BY <1>0, <2>1, <2>2, <2>3, <2>4, <2>5, <2>6
<1>3. CASE InsertRow(s) BY <1>0, <1>3 DEF InsertRow
<1>4. CASE InsertFails(s) BY <1>0, <1>4 DEF InsertFails
<1>5. CASE RefreshFails(s) BY <1>0, <1>5 DEF RefreshFails
<1>6. CASE EnqueueJudge(s)
  <2> USE <1>6 DEF EnqueueJudge
  <2>1. Bookkeeping'     OBVIOUS
  <2>2. OneJob'          OBVIOUS
  <2>3. YoungerThanLock' OBVIOUS
  <2>4. NoRowNoJob' /\ LockKnown' OBVIOUS
  <2>5. LockOwed'        OBVIOUS
  <2>6. NothingToSweep'  OBVIOUS
  <2> QED BY <1>0, <2>1, <2>2, <2>3, <2>4, <2>5, <2>6
<1>7. CASE MarkFailed(s) BY <1>0, <1>7 DEF MarkFailed
<1>8. CASE UnlockFailed(s)
  <2> USE <1>8 DEF UnlockFailed
  <2>1. Bookkeeping'     OBVIOUS
  <2>2. OneJob'          OBVIOUS
  <2>3. YoungerThanLock' OBVIOUS
  <2>4. NoRowNoJob' /\ LockKnown' OBVIOUS
  <2>5. LockOwed'        OBVIOUS
  <2>6. NothingToSweep'  OBVIOUS
  <2> QED BY <1>0, <2>1, <2>2, <2>3, <2>4, <2>5, <2>6
<1> QED
  BY <1>1, <1>2, <1>3, <1>4, <1>5, <1>6, <1>7, <1>8 DEF Request, ApiCrash, DeleteSubmission

LEMMA JudgeOwedInv ==
  ASSUME NEW w \in Workers, OwedInv, Judge(w), ReleasesHappen
  PROVE  OwedInv'
<1> USE StaticAssumption, TimingAssumption
    DEF OwedInv, Bookkeeping, OneJob, YoungerThanLock,
        NoRowNoJob, LockKnown, LockOwed, NothingToSweep, SweepOwes, Holds,
        TypeOK, Status, Unfinished, Settled,
        rowVars, lockVars, workVars, sweepVars, ReleasesHappen, May,
        Goto, EndJob, SetRunning, Write, FailIf, Release, TryRelease
<1>0. TypeOK' BY JudgeTypeOK
<1>1. ASSUME NEW s \in Subs, StartJob(w, s) PROVE OwedInv'
  BY <1>0, <1>1 DEF StartJob
<1>2. CASE LoadRow(w) BY <1>0, <1>2 DEF LoadRow
<1>3. CASE ClaimRow(w) BY <1>0, <1>3 DEF ClaimRow
<1>4. CASE WriteVerdict(w) BY <1>0, <1>4 DEF WriteVerdict
<1>5. CASE HandleException(w)
  <2> USE <1>5 DEF HandleException
  <2>1. Bookkeeping'     OBVIOUS
  <2>2. OneJob'          OBVIOUS
  <2>3. YoungerThanLock' OBVIOUS
  <2>4. NoRowNoJob' /\ LockKnown' OBVIOUS
  <2>5. LockOwed'        OBVIOUS
  <2>6. NothingToSweep'  OBVIOUS
  <2> QED BY <1>0, <2>1, <2>2, <2>3, <2>4, <2>5, <2>6
<1>6. CASE CancelJob(w) BY <1>0, <1>6 DEF CancelJob
<1>7. CASE FailCancelled(w)
  <2> USE <1>7 DEF FailCancelled
  <2>1. Bookkeeping'     OBVIOUS
  <2>2. OneJob'          OBVIOUS
  <2>3. YoungerThanLock' OBVIOUS
  <2>4. NoRowNoJob' /\ LockKnown' OBVIOUS
  <2>5. LockOwed'        OBVIOUS
  <2>6. NothingToSweep'  OBVIOUS
  <2> QED BY <1>0, <2>1, <2>2, <2>3, <2>4, <2>5, <2>6
<1>8. CASE ReleaseInflight(w)
  <2> USE <1>8 DEF ReleaseInflight
  <2>1. Bookkeeping'     OBVIOUS
  <2>2. OneJob'          OBVIOUS
  <2>3. YoungerThanLock' OBVIOUS
  <2>4. NoRowNoJob' /\ LockKnown' OBVIOUS
  <2>5. LockOwed'        OBVIOUS
  <2>6. NothingToSweep'  OBVIOUS
  <2> QED BY <1>0, <2>1, <2>2, <2>3, <2>4, <2>5, <2>6
<1> QED BY <1>1, <1>2, <1>3, <1>4, <1>5, <1>6, <1>7, <1>8 DEF Judge, WorkerCrash

LEMMA SweepOwedInv ==
  ASSUME OwedInv, SweepStep \/ SweeperCrash, ReleasesHappen
  PROVE  OwedInv'
<1> USE StaticAssumption, TimingAssumption
    DEF OwedInv, Bookkeeping, OneJob, YoungerThanLock,
        NoRowNoJob, LockKnown, LockOwed, NothingToSweep, SweepOwes, Holds,
        TypeOK, Status, Unfinished, Settled,
        rowVars, lockVars, workVars, sweepVars, ReleasesHappen, May,
        Release, TryRelease, Stored, Stale
<1>0. TypeOK' BY SweepTypeOK
<1>1. ASSUME NEW s \in Subs, UnlockStale(s) PROVE OwedInv'
  BY <1>0, <1>1 DEF UnlockStale
<1>2. ASSUME NEW s \in Subs, RequeueLost(s) PROVE OwedInv'
  BY <1>0, <1>2 DEF RequeueLost
<1>3. CASE FailStale
  <2> USE <1>3 DEF FailStale
  <2>1. Bookkeeping'     OBVIOUS
  <2>2. OneJob'          OBVIOUS
  <2>3. YoungerThanLock' OBVIOUS
  <2>4. NoRowNoJob' /\ LockKnown' OBVIOUS
  <2>5. LockOwed'        OBVIOUS
  <2>6. NothingToSweep'  OBVIOUS
  <2> QED BY <1>0, <2>1, <2>2, <2>3, <2>4, <2>5, <2>6
<1>4. CASE SelectPending BY <1>0, <1>4 DEF SelectPending
<1>5. CASE MissingJudgeJobs BY <1>0, <1>5 DEF MissingJudgeJobs
<1>6. CASE SweeperCrash BY <1>0, <1>6 DEF SweeperCrash
<1> QED BY <1>1, <1>2, <1>3, <1>4, <1>5, <1>6 DEF SweepStep

LEMMA TimeOwedInv ==
  ASSUME OwedInv, Tick \/ RedisRestart
  PROVE  OwedInv'
<1> USE StaticAssumption, TimingAssumption
    DEF OwedInv, Bookkeeping, OneJob, YoungerThanLock,
        NoRowNoJob, LockKnown, LockOwed, NothingToSweep, SweepOwes, Holds,
        TypeOK, Status, Unfinished, Settled,
        rowVars, lockVars, workVars, sweepVars, Older, Expiring
<1>0. TypeOK' BY TimeTypeOK
<1>1. CASE Tick
  <2> USE <1>1 DEF Tick
  <2>1. Bookkeeping'     OBVIOUS
  <2>2. OneJob'          OBVIOUS
  <2>3. YoungerThanLock' OBVIOUS
  <2>4. NoRowNoJob' /\ LockKnown' OBVIOUS
  <2>5. LockOwed'        OBVIOUS
  <2>6. NothingToSweep'  OBVIOUS
  <2> QED BY <1>0, <2>1, <2>2, <2>3, <2>4, <2>5, <2>6
<1>2. CASE RedisRestart BY <1>0, <1>2 DEF RedisRestart
<1> QED BY <1>1, <1>2

\* "never a stuck lock": a lock whose submission is settled has its release under way, even when
\* commits and enqueues fail, Redis restarts, and requests are slow or the sweep dies.
THEOREM LocksAreReleased ==
  ASSUME ReleasesHappen
  PROVE  Spec => []NoStuckLock
<1>1. Init => OwedInv
  <2> SUFFICES ASSUME Init PROVE OwedInv
    OBVIOUS
  <2>1. TypeOK BY InitTypeOK
  <2>2. /\ Bookkeeping /\ OneJob /\ YoungerThanLock
        /\ NoRowNoJob /\ LockKnown /\ LockOwed /\ NothingToSweep
    BY StaticAssumption, TimingAssumption
       DEF Init, Bookkeeping, OneJob, YoungerThanLock,
        NoRowNoJob, LockKnown, LockOwed, NothingToSweep, SweepOwes, Holds
  <2> QED BY <2>1, <2>2 DEF OwedInv
<1>2. OwedInv /\ [Next]_vars => OwedInv'
  <2> SUFFICES ASSUME OwedInv, [Next]_vars PROVE OwedInv'
    OBVIOUS
  <2>1. CASE Next
    BY <2>1, RequestOwedInv, JudgeOwedInv, SweepOwedInv, TimeOwedInv DEF Next
  <2>2. CASE UNCHANGED vars
    BY <2>2 DEF vars, OwedInv, Bookkeeping, OneJob, YoungerThanLock,
                NoRowNoJob, LockKnown, LockOwed, NothingToSweep, SweepOwes,
                Holds, TypeOK
  <2> QED BY <2>1, <2>2
<1>3. OwedInv => NoStuckLock
  BY DEF OwedInv, LockOwed, SweepOwes, Holds, NoStuckLock
<1> QED BY <1>1, <1>2, <1>3, PTL DEF Spec

-----------------------------------------------------------------------------
(***************************************************************************)
(* A lost job is retried, not failed: a pending row without a job is        *)
(* younger than what the sweep has left it.  A row that Redis has           *)
(* forgotten in time, a sweep that is late, dies or cannot reach Redis, and *)
(* a commit that comes late with an old created_at can take that time away. *)
(***************************************************************************)
SweepsInTime ==
    /\ Events \cap {"redis_error", "redis_restart", "sweep_late", "sweeper_crash", "slow_request"} = {}
    /\ REENQUEUE_AFTER + SWEEP_EVERY <= STALE_AFTER

\* How old a pending row without a job may be, by where the sweep stands.
RetryInTime ==
    /\ \A s \in Subs : api[s] \in {"new", "insert"} => age[s] = 0
    /\ \A s \in Subs : row[s] = "pending" /\ job[s] = "none" =>
         /\ spc = "idle" => age[s] <= REENQUEUE_AFTER + sweepAge
         /\ spc = "unlock" => age[s] <= REENQUEUE_AFTER + SWEEP_EVERY + sweepAge
         /\ spc \in {"check", "requeue"} => s \in batch \/ age[s] <= REENQUEUE_AFTER + sweepAge

RetryInv == ClaimInv /\ RetryInTime

LEMMA RequestRetryInTime ==
  ASSUME NEW s \in Subs, RetryInv, Request(s), SweepsInTime
  PROVE  RetryInTime'
<1> USE StaticAssumption, TimingAssumption
    DEF RetryInv, ClaimInv, RetryInTime, TypeOK, SweepsInTime, May,
        rowVars, lockVars, workVars, sweepVars, ApiGoto, Write, FailIf, Stored
<1>1. CASE Refuse(s) BY <1>1 DEF Refuse
<1>2. CASE AcquireInflight(s) BY <1>2 DEF AcquireInflight, GotoInsert
<1>3. CASE InsertRow(s) BY <1>3 DEF InsertRow
<1>4. CASE InsertFails(s) BY <1>4 DEF InsertFails
<1>5. CASE RefreshFails(s) BY <1>5 DEF RefreshFails
<1>6. CASE EnqueueJudge(s) BY <1>6 DEF EnqueueJudge
<1>7. CASE MarkFailed(s) BY <1>7 DEF MarkFailed
<1>8. CASE UnlockFailed(s) BY <1>8 DEF UnlockFailed
<1>9. CASE ApiCrash(s) BY <1>9 DEF ApiCrash
<1>10. CASE DeleteSubmission(s) BY <1>10 DEF DeleteSubmission
<1> QED BY <1>1, <1>2, <1>3, <1>4, <1>5, <1>6, <1>7, <1>8, <1>9, <1>10 DEF Request

LEMMA JudgeRetryInTime ==
  ASSUME NEW w \in Workers, RetryInv, Judge(w)
  PROVE  RetryInTime'
<1> USE StaticAssumption, TimingAssumption
    DEF RetryInv, ClaimInv, RetryInTime, Bookkeeping, TypeOK, Status, Unfinished, Settled,
        rowVars, lockVars, workVars, sweepVars, Goto, EndJob, SetRunning, Write, FailIf
<1>1. ASSUME NEW s \in Subs, StartJob(w, s) PROVE RetryInTime'
  BY <1>1 DEF StartJob
<1>2. CASE LoadRow(w) BY <1>2 DEF LoadRow
<1>3. CASE ClaimRow(w) BY <1>3 DEF ClaimRow
<1>4. CASE WriteVerdict(w) BY <1>4 DEF WriteVerdict
<1>5. CASE HandleException(w) BY <1>5 DEF HandleException
<1>6. CASE CancelJob(w) BY <1>6 DEF CancelJob
<1>7. CASE FailCancelled(w) BY <1>7 DEF FailCancelled
<1>8. CASE ReleaseInflight(w) BY <1>8 DEF ReleaseInflight
<1>9. CASE WorkerCrash(w) BY <1>9 DEF WorkerCrash
<1> QED BY <1>1, <1>2, <1>3, <1>4, <1>5, <1>6, <1>7, <1>8, <1>9 DEF Judge

LEMMA SweepRetryInTime ==
  ASSUME RetryInv, SweepStep, SweepsInTime
  PROVE  RetryInTime'
<1> USE StaticAssumption, TimingAssumption
    DEF RetryInv, ClaimInv, RetryInTime, Bookkeeping, TypeOK, SweepsInTime, May,
        rowVars, lockVars, workVars, sweepVars, Stored
<1>1. ASSUME NEW s \in Subs, UnlockStale(s) PROVE RetryInTime'
  BY <1>1 DEF UnlockStale
<1>2. ASSUME NEW s \in Subs, RequeueLost(s) PROVE RetryInTime'
  BY <1>2 DEF RequeueLost
<1>3. CASE FailStale BY <1>3 DEF FailStale, Stale, Unfinished
<1>4. CASE SelectPending BY <1>4 DEF SelectPending
<1>5. CASE MissingJudgeJobs BY <1>5 DEF MissingJudgeJobs
<1> QED BY <1>1, <1>2, <1>3, <1>4, <1>5 DEF SweepStep

LEMMA TickRetryInTime ==
  ASSUME RetryInv, Tick, SweepsInTime
  PROVE  RetryInTime'
<1> USE TimingAssumption
<1>0. TypeOK BY DEF RetryInv, ClaimInv
<1>1. sweepAge \in Nat /\ sweepAge' = sweepAge + 1
  <2>1. ~May("sweep_late") BY DEF SweepsInTime, May
  <2>2. sweepAge \in 0..SWEEP_EVERY BY <1>0 DEF TypeOK
  <2>3. sweepAge # SWEEP_EVERY BY <2>1 DEF Tick, Due
  <2>4. sweepAge' = Older(sweepAge, SWEEP_EVERY) BY <2>1 DEF Tick
  <2> QED BY <2>2, <2>3, <2>4 DEF Older
<1>2. ASSUME NEW s \in Subs PROVE age[s] \in Nat /\ age'[s] \in Nat /\ age'[s] <= age[s] + 1
  <2>1. age[s] \in 0..STALE_AFTER + 1 BY <1>0 DEF TypeOK
  <2>2. age'[s] \in {age[s], Older(age[s], STALE_AFTER + 1)} BY DEF Tick
  <2> QED BY <2>1, <2>2 DEF Older
<1>3. ASSUME NEW s \in Subs, api[s] \in {"new", "insert"} PROVE age'[s] = 0
  <2>1. ~May("slow_request") BY DEF SweepsInTime, May
  <2>2. api[s] # "insert" BY <2>1 DEF Tick, Due
  <2>3. row[s] \notin Unfinished
    BY <1>3 DEF RetryInv, ClaimInv, Bookkeeping, Unfinished
  <2>4. age'[s] = age[s] BY <2>2, <2>3 DEF Tick
  <2> QED BY <1>3, <2>4 DEF RetryInv, RetryInTime
<1>4. UNCHANGED <<row, job, api, spc, batch>>
  BY DEF Tick
<1>5. ASSUME NEW s \in Subs, NEW n \in Nat, age[s] <= n PROVE age'[s] <= n + 1
  BY <1>2, <1>5
<1>6. REENQUEUE_AFTER + sweepAge \in Nat /\ REENQUEUE_AFTER + SWEEP_EVERY + sweepAge \in Nat
  BY <1>1
<1>7. ASSUME NEW s \in Subs, row[s] = "pending", job[s] = "none"
      PROVE  /\ spc = "idle" => age'[s] <= REENQUEUE_AFTER + sweepAge'
             /\ spc = "unlock" => age'[s] <= REENQUEUE_AFTER + SWEEP_EVERY + sweepAge'
             /\ spc \in {"check", "requeue"} => s \in batch \/ age'[s] <= REENQUEUE_AFTER + sweepAge'
  <2>1. age[s] <= REENQUEUE_AFTER + sweepAge => age'[s] <= REENQUEUE_AFTER + sweepAge'
    BY <1>1, <1>5, <1>6
  <2>2. age[s] <= REENQUEUE_AFTER + SWEEP_EVERY + sweepAge
          => age'[s] <= REENQUEUE_AFTER + SWEEP_EVERY + sweepAge'
    BY <1>1, <1>5, <1>6
  <2> QED BY <1>7, <2>1, <2>2 DEF RetryInv, RetryInTime
<1> QED BY <1>3, <1>4, <1>7 DEF RetryInTime

\* "a lost job is retried, not failed": the stale pass fails a pending row only if it has had a
\* job, provided the sweep runs every minute and reaches Redis.
THEOREM LostJobsAreRetried ==
  ASSUME SweepsInTime
  PROVE  Spec => LostJobRetried
<1> DEFINE Retried == \A s \in Subs : spc = "idle" /\ spc' = "unlock" /\ row[s] = "pending"
                                        /\ row'[s] = "judge_error" => job[s] # "none"
<1>1. Init => RetryInv
  <2> SUFFICES ASSUME Init PROVE RetryInv
    OBVIOUS
  <2>1. ClaimInv BY InitClaimInv
  <2>2. RetryInTime BY DEF Init, RetryInTime
  <2> QED BY <2>1, <2>2 DEF RetryInv
<1>2. RetryInv /\ [Next]_vars => RetryInv'
  <2> SUFFICES ASSUME RetryInv, [Next]_vars PROVE RetryInv'
    OBVIOUS
  <2>1. ClaimInv' BY NextClaimInv DEF RetryInv
  <2>2. RetryInTime'
    <3>1. CASE Next
      BY <3>1, RequestRetryInTime, JudgeRetryInTime, SweepRetryInTime, TickRetryInTime
         DEF Next, SweeperCrash, RedisRestart, SweepsInTime, May
    <3>2. CASE UNCHANGED vars
      BY <3>2 DEF vars, RetryInv, RetryInTime
    <3> QED BY <3>1, <3>2
  <2> QED BY <2>1, <2>2 DEF RetryInv
<1>3. RetryInv /\ [Next]_vars => [Retried]_vars
  <2> SUFFICES ASSUME RetryInv, [Next]_vars, NEW s \in Subs, spc = "idle", spc' = "unlock",
                      row[s] = "pending", row'[s] = "judge_error", job[s] = "none"
               PROVE  FALSE
    OBVIOUS
  <2>1. FailStale
    BY DEF Next, vars, Request, Refuse, AcquireInflight, InsertRow, InsertFails, RefreshFails,
           EnqueueJudge, MarkFailed, UnlockFailed, ApiCrash, DeleteSubmission, Judge, StartJob,
           LoadRow, ClaimRow, WriteVerdict, HandleException, CancelJob, FailCancelled,
           ReleaseInflight, WorkerCrash, SweepStep, UnlockStale, RequeueLost, SelectPending,
           MissingJudgeJobs, SweeperCrash, Tick, RedisRestart, sweepVars
  <2>2. age[s] > STALE_AFTER
    BY <2>1 DEF FailStale, Stale, RetryInv, ClaimInv, TypeOK
  <2>3. age[s] <= REENQUEUE_AFTER + sweepAge
    BY DEF RetryInv, RetryInTime
  <2>4. sweepAge \in 0..SWEEP_EVERY /\ age[s] \in Nat
    BY TimingAssumption DEF RetryInv, ClaimInv, TypeOK
  <2> QED BY <2>2, <2>3, <2>4, TimingAssumption DEF SweepsInTime
<1> QED BY <1>1, <1>2, <1>3, PTL DEF Spec, LostJobRetried

=============================================================================
