--------------------------- MODULE JudgePipeline ---------------------------
(***************************************************************************)
(* The judging pipeline: one POST /submissions request per submission      *)
(* (app/services/submission_service.py), the Redis in-flight lock and arq   *)
(* job keys it uses (app/queue.py), the judge workers that run the jobs     *)
(* (worker/judge.py) and the once-a-minute sweep on the accounts worker     *)
(* (worker/sweeper.py).  Requests, jobs and the sweep are sequences of     *)
(* steps, one per statement that reads or writes Postgres or Redis, and     *)
(* they interleave freely.                                                 *)
(*                                                                         *)
(* Time is discrete.  Instead of a clock the model keeps ages: of a row     *)
(* since its updated_at, of a lock since its SET, of a job since it         *)
(* started, of the sweep since it last began.  Tick advances them all.     *)
(***************************************************************************)
EXTENDS Naturals

CONSTANTS
    Subs,      \* submission ids; the id is also the lock's owner and the arq job id
    Runs,      \* those of them with mode "run", which take no lock
    Keys,      \* inflight:{user}:{problem} keys
    KeyOf,     \* the key of each submission
    Workers,   \* judge job slots (max_jobs times the replicas)
    Verdicts,  \* terminal statuses a judgement can produce, judge_error aside
    NoSub,     \* no owner, no job
    Events,    \* what may go wrong, or be done, in this instance
    REENQUEUE_AFTER, INFLIGHT_TTL, JUDGE_JOB_TIMEOUT, STALE_AFTER, SWEEP_EVERY

AllEvents ==
    { "api_crash",      \* the API process dies between two steps of a request
      "worker_crash",   \* a judge worker dies mid-job
      "sweeper_crash",  \* the accounts worker dies mid-sweep
      "shutdown",       \* a judge worker is told to stop and cancels its jobs
      "redis_error",    \* a Redis call raises, applied or not
      "enqueue_error",  \* the request's enqueue raises, applied or not
      "redis_restart",  \* Redis comes back without its data
      "db_error",       \* a Postgres statement raises, not applied
      "double_fault",   \* Postgres fails while the request handles an enqueue failure
      "lost_commit",    \* a commit raises although Postgres applied it
      "delete",         \* the owner deletes a submission
      "slow_request",   \* time passes in a request's transaction, before or after its lock
      "sweep_late" }    \* the cron may run later than every minute

ASSUME StaticAssumption ==
    /\ Runs \subseteq Subs
    /\ KeyOf \in [Subs -> Keys]
    /\ NoSub \notin Subs
    /\ Events \subseteq AllEvents
    /\ Verdicts \cap {"none", "pending", "running", "judge_error", "deleted"} = {}

ASSUME TimingAssumption ==
    /\ {REENQUEUE_AFTER, JUDGE_JOB_TIMEOUT, STALE_AFTER, SWEEP_EVERY} \subseteq Nat
    /\ INFLIGHT_TTL \in Nat \ {0}
    /\ INFLIGHT_TTL <= JUDGE_JOB_TIMEOUT
    /\ JUDGE_JOB_TIMEOUT <= STALE_AFTER

VARIABLES
    row,       \* submissions.status, "none" before the insert, "deleted" after the delete
    age,       \* time since updated_at, for a row that is unfinished or being inserted
    lock,      \* owner stored under each in-flight key
    lockAge,   \* time since that SET
    lapsed,    \* history: submissions whose lock was lost to its TTL or to a Redis restart
    job,       \* arq's keys for the job: none, queued, busy, or spent (only a result is kept)
    api,       \* where the request that creates each submission stands
    wpc, wsub, wAge,      \* where each job slot stands, on which submission, since when
    spc, batch, sweepAge  \* where the sweep stands, the rows it holds, time since it began

rowVars  == <<row, age>>
lockVars == <<lock, lockAge, lapsed>>
workVars == <<wpc, wsub, wAge>>
sweepVars == <<spc, batch, sweepAge>>
vars == <<row, age, lock, lockAge, lapsed, job, api, wpc, wsub, wAge, spc, batch, sweepAge>>

Unfinished == {"pending", "running"}
Settled    == Verdicts \cup {"judge_error"}
Status     == {"none", "deleted"} \cup Unfinished \cup Settled

TypeOK ==
    /\ row  \in [Subs -> Status]
    /\ age  \in [Subs -> 0..STALE_AFTER + 1]
    /\ lock \in [Keys -> Subs \cup {NoSub}]
    /\ lockAge \in [Keys -> 0..INFLIGHT_TTL - 1]
    /\ lapsed \subseteq Subs
    /\ job  \in [Subs -> {"none", "queued", "busy", "spent"}]
    /\ api  \in [Subs -> {"new", "insert", "enqueue", "mark", "unlock", "done"}]
    /\ wpc  \in [Workers -> {"idle", "load", "claim", "judge", "except", "cancelled", "release"}]
    /\ wsub \in [Workers -> Subs \cup {NoSub}]
    /\ wAge \in [Workers -> 0..JUDGE_JOB_TIMEOUT]
    /\ spc \in {"idle", "unlock", "check", "requeue"}
    /\ batch \subseteq Subs
    /\ sweepAge \in 0..SWEEP_EVERY

Init ==
    /\ row  = [s \in Subs |-> "none"]
    /\ age  = [s \in Subs |-> 0]
    /\ lock = [k \in Keys |-> NoSub]
    /\ lockAge = [k \in Keys |-> 0]
    /\ lapsed = {}
    /\ job  = [s \in Subs |-> "none"]
    /\ api  = [s \in Subs |-> "new"]
    /\ wpc  = [w \in Workers |-> "idle"]
    /\ wsub = [w \in Workers |-> NoSub]
    /\ wAge = [w \in Workers |-> 0]
    /\ spc = "idle"
    /\ batch = {}
    /\ sweepAge = 0

-----------------------------------------------------------------------------
(* Redis and Postgres primitives *)

May(e) == e \in Events

Write(s, st) ==
    /\ row' = [row EXCEPT ![s] = st]
    /\ age' = [age EXCEPT ![s] = 0]

\* Mutant of FailIf: the status guard is gone.
FailAnyway(s, from) == Write(s, "judge_error")

\* UPDATE ... SET status = 'judge_error' WHERE id = s AND status IN from
FailIf(s, from) ==
    IF row[s] \in from THEN Write(s, "judge_error") ELSE UNCHANGED rowVars

\* Mutant of Release: the constant-valued lock and plain DEL the owner check replaced.
DeleteLock(s) ==
    /\ lock' = [lock EXCEPT ![KeyOf[s]] = NoSub]
    /\ lockAge' = [lockAge EXCEPT ![KeyOf[s]] = 0]
    /\ UNCHANGED lapsed

\* The compare-and-delete script.
Release(s) ==
    LET k == KeyOf[s] IN
    IF lock[k] = s
      THEN /\ lock' = [lock EXCEPT ![k] = NoSub]
           /\ lockAge' = [lockAge EXCEPT ![k] = 0]
           /\ UNCHANGED lapsed
      ELSE UNCHANGED lockVars

\* A release whose caller swallows the error Redis may raise.
TryRelease(s) ==
    \/ Release(s)
    \/ May("redis_error") /\ UNCHANGED lockVars

\* arq refuses an id that has a job key or a result key.
Stored(s) == IF job[s] = "none" THEN [job EXCEPT ![s] = "queued"] ELSE job

-----------------------------------------------------------------------------
(* POST /submissions, POST /run *)

ApiGoto(s, pc) == api' = [api EXCEPT ![s] = pc]

\* The size cap, the rate limit, the problem and language checks, or Redis failing.
Refuse(s) ==
    /\ api[s] = "new"
    /\ ApiGoto(s, "done")
    /\ UNCHANGED <<rowVars, lockVars, job, workVars, sweepVars>>

\* The transaction of the insert is open since the lookup of the user or of the problem, at
\* any time before the lock; its start will be the row's created_at and updated_at.
GotoInsert(s) ==
    /\ ApiGoto(s, "insert")
    /\ \E a \in IF May("slow_request") THEN 0..STALE_AFTER + 1 ELSE {0} :
         age' = [age EXCEPT ![s] = a]

AcquireInflight(s) ==
    /\ api[s] = "new"
    /\ \/ /\ s \in Runs
          /\ GotoInsert(s)
          /\ UNCHANGED lockVars
       \/ /\ s \notin Runs
          /\ lock[KeyOf[s]] = NoSub
          /\ lock' = [lock EXCEPT ![KeyOf[s]] = s]
          /\ \/ GotoInsert(s)
             \/ May("redis_error") /\ ApiGoto(s, "done") /\ UNCHANGED age   \* no reply: 503
          /\ UNCHANGED <<lockAge, lapsed>>
       \/ /\ s \notin Runs
          /\ lock[KeyOf[s]] # NoSub                        \* 429
          /\ ApiGoto(s, "done")
          /\ UNCHANGED <<age, lockVars>>
    /\ UNCHANGED <<row, job, workVars, sweepVars>>

InsertRow(s) ==
    /\ api[s] = "insert"
    /\ ApiGoto(s, "enqueue")
    /\ row' = [row EXCEPT ![s] = "pending"]
    /\ UNCHANGED <<age, lockVars, job, workVars, sweepVars>>

\* The commit raises; the lock is freed and the exception propagates.
InsertFails(s) ==
    /\ api[s] = "insert"
    /\ \/ /\ May("db_error")
          /\ age' = [age EXCEPT ![s] = 0]
          /\ UNCHANGED row
       \/ /\ May("lost_commit")
          /\ row' = [row EXCEPT ![s] = "pending"]
          /\ UNCHANGED age
    /\ ApiGoto(s, IF s \in Runs THEN "done" ELSE "unlock")
    /\ UNCHANGED <<lockVars, job, workVars, sweepVars>>

\* session.refresh raises outside every handler.
RefreshFails(s) ==
    /\ May("db_error")
    /\ api[s] = "enqueue"
    /\ ApiGoto(s, "done")
    /\ UNCHANGED <<rowVars, lockVars, job, workVars, sweepVars>>

EnqueueJudge(s) ==
    /\ api[s] = "enqueue"
    /\ \/ job' = Stored(s) /\ ApiGoto(s, "done")
       \/ May("enqueue_error") /\ job' \in {job, Stored(s)} /\ ApiGoto(s, "mark")
    /\ UNCHANGED <<rowVars, lockVars, workVars, sweepVars>>

\* Mutant of MarkFailed: the lock is forgotten.
MarkFailedOnly(s) ==
    /\ api[s] = "mark"
    /\ FailIf(s, {"pending"})
    /\ ApiGoto(s, "done")
    /\ UNCHANGED <<lockVars, job, workVars, sweepVars>>

\* After a failed enqueue: fail the row if nobody has claimed it, and only then unlock.
MarkFailed(s) ==
    /\ api[s] = "mark"
    /\ \/ /\ FailIf(s, {"pending"})
          /\ ApiGoto(s, IF row[s] = "pending" /\ s \notin Runs THEN "unlock" ELSE "done")
       \/ /\ May("double_fault")
          /\ UNCHANGED rowVars
          /\ ApiGoto(s, IF s \notin Runs THEN "unlock" ELSE "done")
    /\ UNCHANGED <<lockVars, job, workVars, sweepVars>>

UnlockFailed(s) ==
    /\ api[s] = "unlock"
    /\ TryRelease(s)
    /\ ApiGoto(s, "done")
    /\ UNCHANGED <<rowVars, job, workVars, sweepVars>>

ApiCrash(s) ==
    /\ May("api_crash")
    /\ api[s] \in {"insert", "enqueue", "mark", "unlock"}
    /\ ApiGoto(s, "done")
    /\ IF api[s] = "insert" THEN age' = [age EXCEPT ![s] = 0] ELSE UNCHANGED age
    /\ UNCHANGED <<row, lockVars, job, workVars, sweepVars>>

\* DELETE /submissions/{id}: whatever the status.
DeleteSubmission(s) ==
    /\ May("delete")
    /\ row[s] \notin {"none", "deleted"}
    /\ Write(s, "deleted")
    /\ UNCHANGED <<lockVars, job, api, workVars, sweepVars>>

Request(s) ==
    \/ Refuse(s)
    \/ AcquireInflight(s)
    \/ InsertRow(s)
    \/ InsertFails(s)
    \/ RefreshFails(s)
    \/ EnqueueJudge(s)
    \/ MarkFailed(s)
    \/ UnlockFailed(s)
    \/ ApiCrash(s)
    \/ DeleteSubmission(s)

-----------------------------------------------------------------------------
(* judge_submission *)

Goto(w, pc) == /\ wpc' = [wpc EXCEPT ![w] = pc]
               /\ UNCHANGED <<wsub, wAge>>

\* The job ends, however it ends: max_tries = 1, so arq keeps a result and no job.
EndJob(w) ==
    /\ job' = [job EXCEPT ![wsub[w]] = "spent"]
    /\ wpc' = [wpc EXCEPT ![w] = "idle"]
    /\ wsub' = [wsub EXCEPT ![w] = NoSub]
    /\ wAge' = [wAge EXCEPT ![w] = 0]

StartJob(w, s) ==
    /\ wpc[w] = "idle"
    /\ job[s] = "queued"
    /\ job' = [job EXCEPT ![s] = "busy"]
    /\ wpc' = [wpc EXCEPT ![w] = "load"]
    /\ wsub' = [wsub EXCEPT ![w] = s]
    /\ UNCHANGED <<wAge, rowVars, lockVars, api, sweepVars>>

\* A row that is gone, or a failing read, ends the job before the try block.
LoadRow(w) ==
    /\ wpc[w] = "load"
    /\ \/ row[wsub[w]] \notin {"none", "deleted"} /\ Goto(w, "claim") /\ UNCHANGED job
       \/ row[wsub[w]] \in {"none", "deleted"} /\ EndJob(w)
       \/ May("db_error") /\ EndJob(w)
    /\ UNCHANGED <<rowVars, lockVars, api, sweepVars>>

\* UPDATE ... SET status = 'running' WHERE status = 'pending'; updated_at is when this
\* transaction began, somewhere between the job's start and now.
SetRunning(w) ==
    /\ row' = [row EXCEPT ![wsub[w]] = "running"]
    /\ \E a \in 0..wAge[w] : age' = [age EXCEPT ![wsub[w]] = a]

\* Mutant of ClaimRow: running is set whatever the status was.
ClaimAnyRow(w) ==
    /\ wpc[w] = "claim"
    /\ SetRunning(w)
    /\ Goto(w, "judge")
    /\ UNCHANGED <<lockVars, job, api, sweepVars>>

ClaimRow(w) ==
    /\ wpc[w] = "claim"
    /\ \/ row[wsub[w]] = "pending" /\ SetRunning(w) /\ Goto(w, "judge")
       \/ row[wsub[w]] # "pending" /\ UNCHANGED rowVars /\ Goto(w, "release")
       \/ May("db_error") /\ UNCHANGED rowVars /\ Goto(w, "except")
       \/ May("lost_commit") /\ row[wsub[w]] = "pending" /\ SetRunning(w) /\ Goto(w, "except")
    /\ UNCHANGED <<lockVars, job, api, sweepVars>>

\* The sandbox has answered and the verdict is written by primary key, or the sandbox, the
\* variant lookup or the write raises.  The write raises too when the row is gone.
WriteVerdict(w) ==
    LET s == wsub[w] IN
    /\ wpc[w] = "judge"
    /\ \/ /\ row[s] # "deleted"
          /\ \E v \in Settled : Write(s, v)
          /\ Goto(w, "release")
       \/ /\ UNCHANGED rowVars
          /\ Goto(w, "except")
       \/ /\ May("lost_commit")
          /\ row[s] # "deleted"
          /\ \E v \in Settled : Write(s, v)
          /\ Goto(w, "except")
    /\ UNCHANGED <<lockVars, job, api, sweepVars>>

\* except Exception: roll back, reload, judge_error; or the database is still failing.
HandleException(w) ==
    LET s == wsub[w] IN
    /\ wpc[w] = "except"
    /\ \/ FailIf(s, Unfinished \cup Settled)
       \/ May("db_error") /\ UNCHANGED rowVars
    /\ Goto(w, "release")
    /\ UNCHANGED <<lockVars, job, api, sweepVars>>

\* arq cancels the task at its timeout, or at worker shutdown.  The CancelledError handler
\* covers the try block; raised in the except block it goes straight to finally, and raised
\* before the try or inside finally it ends the job.  A verdict being committed may land.
CancelJob(w) ==
    LET s == wsub[w] IN
    /\ wpc[w] \in {"load", "claim", "judge", "except", "release"}
    /\ wAge[w] = JUDGE_JOB_TIMEOUT \/ May("shutdown")
    /\ \/ /\ wpc[w] \in {"claim", "judge"}
          /\ \/ UNCHANGED rowVars
             \/ /\ wpc[w] = "judge" /\ row[s] # "deleted"
                /\ \E v \in Settled : Write(s, v)
          /\ Goto(w, "cancelled")
          /\ UNCHANGED <<lockVars, job>>
       \/ /\ wpc[w] = "except"
          /\ Goto(w, "release")
          /\ UNCHANGED <<rowVars, lockVars, job>>
       \/ /\ wpc[w] \in {"load", "release"}
          /\ EndJob(w)
          /\ UNCHANGED <<rowVars, lockVars>>
    /\ UNCHANGED <<api, sweepVars>>

\* _fail_submission, in a session of its own.
FailCancelled(w) ==
    /\ wpc[w] = "cancelled"
    /\ \/ FailIf(wsub[w], Unfinished)
       \/ May("db_error") /\ UNCHANGED rowVars
    /\ Goto(w, "release")
    /\ UNCHANGED <<lockVars, job, api, sweepVars>>

\* finally: a Submit gives its lock back.
ReleaseInflight(w) ==
    /\ wpc[w] = "release"
    /\ IF wsub[w] \in Runs THEN UNCHANGED lockVars ELSE TryRelease(wsub[w])
    /\ EndJob(w)
    /\ UNCHANGED <<rowVars, api, sweepVars>>

\* The in-progress key expires and the second try is refused by max_tries.
WorkerCrash(w) ==
    /\ May("worker_crash")
    /\ wpc[w] # "idle"
    /\ EndJob(w)
    /\ UNCHANGED <<rowVars, lockVars, api, sweepVars>>

Judge(w) ==
    \/ \E s \in Subs : StartJob(w, s)
    \/ LoadRow(w)
    \/ ClaimRow(w)
    \/ WriteVerdict(w)
    \/ HandleException(w)
    \/ CancelJob(w)
    \/ FailCancelled(w)
    \/ ReleaseInflight(w)
    \/ WorkerCrash(w)

-----------------------------------------------------------------------------
(* sweep_stale *)

\* Mutants of Stale: the sweep looks at one of the two unfinished statuses only.
StaleRunning == {s \in Subs : row[s] = "running" /\ age[s] > STALE_AFTER}
StalePending == {s \in Subs : row[s] = "pending" /\ age[s] > STALE_AFTER}

Stale == {s \in Subs : row[s] \in Unfinished /\ age[s] > STALE_AFTER}

\* UPDATE ... RETURNING, committed before any Redis call.
FailStale ==
    /\ spc = "idle"
    /\ row' = [s \in Subs |-> IF s \in Stale THEN "judge_error" ELSE row[s]]
    /\ age' = [s \in Subs |-> IF s \in Stale THEN 0 ELSE age[s]]
    /\ batch' = Stale
    /\ spc' = "unlock"
    /\ sweepAge' = 0
    /\ UNCHANGED <<lockVars, job, api, workVars>>

UnlockStale(s) ==
    /\ spc = "unlock"
    /\ s \in batch
    /\ TryRelease(s)
    /\ batch' = batch \ {s}
    /\ UNCHANGED <<rowVars, job, api, workVars, spc, sweepAge>>

\* Mutant of SelectPending: only rows past the stale budget are checked for a job.
SelectTooLate ==
    /\ spc = "unlock"
    /\ batch = {}
    /\ batch' = {s \in Subs : row[s] = "pending" /\ age[s] > STALE_AFTER}
    /\ spc' = IF batch' = {} THEN "idle" ELSE "check"
    /\ UNCHANGED <<rowVars, lockVars, job, api, workVars, sweepAge>>

SelectPending ==
    /\ spc = "unlock"
    /\ batch = {}
    /\ batch' = {s \in Subs : row[s] = "pending" /\ age[s] > REENQUEUE_AFTER}
    /\ spc' = IF batch' = {} THEN "idle" ELSE "check"
    /\ UNCHANGED <<rowVars, lockVars, job, api, workVars, sweepAge>>

MissingJudgeJobs ==
    /\ spc = "check"
    /\ \/ batch' = {s \in batch : job[s] = "none"}
       \/ May("redis_error") /\ batch' = {}
    /\ spc' = IF batch' = {} THEN "idle" ELSE "requeue"
    /\ UNCHANGED <<rowVars, lockVars, job, api, workVars, sweepAge>>

RequeueLost(s) ==
    /\ spc = "requeue"
    /\ s \in batch
    /\ \/ job' = Stored(s)
       \/ May("redis_error") /\ UNCHANGED job
    /\ batch' = batch \ {s}
    /\ spc' = IF batch' = {} THEN "idle" ELSE "requeue"
    /\ UNCHANGED <<rowVars, lockVars, api, workVars, sweepAge>>

SweeperCrash ==
    /\ May("sweeper_crash")
    /\ spc # "idle"
    /\ spc' = "idle"
    /\ batch' = {}
    /\ UNCHANGED <<rowVars, lockVars, job, api, workVars, sweepAge>>

SweepStep ==
    \/ FailStale
    \/ \E s \in Subs : UnlockStale(s) \/ RequeueLost(s)
    \/ SelectPending
    \/ MissingJudgeJobs

-----------------------------------------------------------------------------
(* Time and Redis *)

\* A job past its timeout has been cancelled; the sweep begins once a minute.
Due ==
    \/ \E w \in Workers : /\ wpc[w] \in {"load", "claim", "judge", "except"}
                          /\ wAge[w] = JUDGE_JOB_TIMEOUT
    \/ sweepAge = SWEEP_EVERY /\ ~May("sweep_late")
    \/ ~May("slow_request") /\ \E s \in Subs : api[s] = "insert"

Older(n, limit) == IF n < limit THEN n + 1 ELSE n

\* Mutant of Expiring: SET NX without EX.
NeverExpiring == {}

Expiring == {k \in Keys : lock[k] # NoSub /\ lockAge[k] + 1 = INFLIGHT_TTL}

Tick ==
    /\ ~Due
    /\ age' = [s \in Subs |-> IF row[s] \in Unfinished \/ api[s] = "insert"
                                THEN Older(age[s], STALE_AFTER + 1) ELSE age[s]]
    /\ lock' = [k \in Keys |-> IF k \in Expiring THEN NoSub ELSE lock[k]]
    /\ lockAge' = [k \in Keys |-> IF lock[k] = NoSub \/ k \in Expiring THEN 0
                                  ELSE lockAge[k] + 1]
    /\ lapsed' = lapsed \cup {lock[k] : k \in Expiring}
    /\ wAge' = [w \in Workers |-> IF wpc[w] = "idle" THEN 0
                                  ELSE Older(wAge[w], JUDGE_JOB_TIMEOUT)]
    /\ sweepAge' = IF May("sweep_late") THEN sweepAge ELSE Older(sweepAge, SWEEP_EVERY)
    /\ UNCHANGED <<row, job, api, wpc, wsub, spc, batch>>

RedisRestart ==
    /\ May("redis_restart")
    /\ lock' = [k \in Keys |-> NoSub]
    /\ lockAge' = [k \in Keys |-> 0]
    /\ lapsed' = lapsed \cup {s \in Subs : api[s] # "new"}
    /\ job' = [s \in Subs |-> "none"]
    /\ UNCHANGED <<rowVars, api, workVars, sweepVars>>

Next ==
    \/ \E s \in Subs : Request(s)
    \/ \E w \in Workers : Judge(w)
    \/ SweepStep
    \/ SweeperCrash
    \/ Tick
    \/ RedisRestart

Spec == Init /\ [][Next]_vars

(***************************************************************************)
(* Time passes, a commit returns or raises, arq cancels a job that has      *)
(* timed out, and the accounts worker, which is never scaled to zero, takes *)
(* its next step.  Requests and jobs are promised nothing else.             *)
(***************************************************************************)
Fairness ==
    /\ WF_vars(Tick)
    /\ WF_vars(SweepStep)
    /\ \A s \in Subs : WF_vars(InsertRow(s) \/ InsertFails(s))
    /\ \A w \in Workers : WF_vars(CancelJob(w) /\ wAge[w] = JUDGE_JOB_TIMEOUT)

FairSpec == Spec /\ Fairness

-----------------------------------------------------------------------------
(* Properties *)

Judging(w) == wpc[w] = "judge"

\* A submission is in at most one sandbox at a time, whatever Redis forgets and whoever
\* enqueues it again: the conditional UPDATE of judge_submission lets one job through.
JudgedByOne ==
    \A v, w \in Workers : Judging(v) /\ Judging(w) /\ wsub[v] = wsub[w] => v = w

\* While a Submit is being judged its in-flight lock is its own, unless the lock was lost to
\* its TTL or to a Redis restart: no error path of the request, no late cleanup of another
\* job and no sweep frees it.
LockHeldWhileJudging ==
    \A w \in Workers :
        Judging(w) /\ wsub[w] \notin Runs \cup lapsed => lock[KeyOf[wsub[w]]] = wsub[w]

\* So two Submits of one user to one problem are judged at the same time only after one of
\* them has outlived its lock.
OneJudgingPerKey ==
    \A v, w \in Workers :
        /\ Judging(v) /\ Judging(w)
        /\ KeyOf[wsub[v]] = KeyOf[wsub[w]]
        /\ {wsub[v], wsub[w]} \cap (Runs \cup lapsed) = {}
        => wsub[v] = wsub[w]

\* A running row the sweep may fail no longer holds its lock, however late it was claimed: the
\* TTL ran out first.  A pending one may still: its age counts from the start of the request's
\* transaction, and a slow request took the lock long after that.
StaleRowUnlocked ==
    \A s \in Stale : row[s] = "running" \/ ~May("slow_request") => lock[KeyOf[s]] # s

\* "never ... a stuck lock" (submission_service.py): a lock is held only for a submission
\* that is unfinished, or whose request, job or sweep may still be going to release it.
NoStuckLock ==
    \A s \in Subs : lock[KeyOf[s]] = s =>
        \/ api[s] \notin {"new", "done"}
        \/ row[s] \in Unfinished
        \/ job[s] \in {"queued", "busy"}
        \/ spc = "unlock" /\ s \in batch

\* "anything here means the verdict is final" (models/submission.py): a terminal status is
\* left only by deleting the submission.
VerdictIsFinal ==
    [][\A s \in Subs : row[s] \in Settled => row'[s] \in {row[s], "deleted"}]_vars

\* "a lost job is retried, not failed" (sweeper.py): the stale pass never fails a pending row
\* for which no job was ever queued.
LostJobRetried ==
    [][\A s \in Subs : spc = "idle" /\ spc' = "unlock" /\ row[s] = "pending"
                         /\ row'[s] = "judge_error" => job[s] # "none"]_vars

\* No row is pending or running for ever: the client that polls it gets an answer.
Settles ==
    \A s \in Subs : row[s] \in Unfinished ~> row[s] \notin Unfinished

\* The pipeline keeps the promise of SubmissionLifecycle.
Lifecycle == INSTANCE SubmissionLifecycle WITH status <- row
KeepsLifecycle == Lifecycle!SafeSpec
ConcludesLifecycle == Lifecycle!Spec
=============================================================================
