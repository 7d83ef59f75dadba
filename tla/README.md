# A TLA+ verification of shikomi

shikomi is a self-hosted practice judge: a React frontend, a FastAPI API on
Postgres and Redis, judge workers that run untrusted submissions in sandboxes,
and an always-on accounts worker for mail and clean-up. This directory holds
TLA+ modules written from the source, TLC configurations that check them on
small instances, and theorems about them that TLAPS checks for every value of
the constants. `PROJECT.json` is the index: components, runs, the source lines
of every definition, the hazards, the findings and the theorems.

    tlc -workers 2 -config exclusion.cfg MCJudgePipeline.tla
    tlapm JudgePipelineProofs.tla

## 1. The system

| part | state it keeps | operations | talks to |
|---|---|---|---|
| submission API (`backend/app/services/submission_service.py`) | none of its own; rows of `submissions` | create (Submit, Run), read, list, delete | Postgres, `queue.py` |
| queue (`backend/app/queue.py`) | Redis: `inflight:` locks with owner and TTL, rate counters, login failures and locks | acquire and release, enqueue, find missing jobs, count | Redis, arq |
| judge worker (`backend/worker/judge.py`, `main.py`) | the row being judged, the job | claim, judge, write the verdict, fail, release | Postgres, Redis, a runner |
| runners (`docker_runner.py`, `k8s_runner.py`) | `_active` names; containers, or Pods and ConfigMaps | run with a wall clock, kill, sweep orphans | the Docker daemon or the API server |
| verdict (`aggregate.py`, `judging.py`) | none | parse a report, decide the verdict, redact the rows | - |
| harnesses (`judge/harness.py`, `.js`, `_sql.py`, `harness_rs/`) | cases, the report so far, a child process | spawn, send a case, read, judge, respawn, report | pipes |
| stale sweep (`worker/sweeper.py`) | the batch it is working on | fail stale rows, free their locks, queue lost jobs, prune tokens | Postgres, Redis |
| auth sessions (`auth_service.py`) | `refresh_tokens` families | issue, rotate, detect reuse, revoke | Postgres |
| accounts (`account_service.py`, `worker/accounts.py`) | `email_tokens`, users | verify, reset, change password, mail, purge | Postgres, Redis, SMTP |
| two-factor (`totp_service.py`) | secret, last used step, recovery codes | begin, enable, verify, disable, regenerate | Postgres |
| login guard (`routers/auth.py`, `queue.py`) | failure counts, locks | check, count, lock | Redis |
| watchdog (`worker/watchdog.py`) | an alert's cooldown key | alert when the accounts worker is dead | Redis, SMTP |
| catalog and seed (`problem_service.py`, `schemas/problem.py`, `cli.py`) | problems, cases, variants, solutions | list, next, upsert | Postgres |
| frontend (`api/client.ts`, `auth/session.tsx`, `Workspace.tsx`) | access token, one refresh in flight, the poll | request, refresh, log out, submit, poll | the API |

A Submit goes through six of them: the API takes the lock
`inflight:{user}:{problem}` with the submission's id as its value, inserts the
row `pending`, and queues a job under the same id. A worker claims the row with
a conditional UPDATE (`pending` to `running`), runs the sandbox, writes the
verdict and gives the lock back. The sweep, on another worker, fails rows that
were not updated for five minutes and queues the pending ones that have no job.
None of these steps is in a transaction with another: a Postgres commit, a Redis
command and an arq job each succeed, fail, or fail after they were applied.

What is hard here: the interleaving of a request, up to several jobs, and the
sweep on one row and one lock; four timers (lock 120 s, job 300 s, stale 300 s,
re-enqueue 30 s) that must stand in the right order; crashes between any two
steps; replies that are lost; Redis without persistence; and inside the
sandbox, a child that hangs, dies or answers late while its parent must
still account for every case. `hazards` in `PROJECT.json` lists each at its
line, with the properties that would catch it, or the reason none does yet.

What makes each part correct: the lifecycle of a row and the finality of its
verdict; one job per row, one judging per lock, no lock left behind; no row
unfinished for ever; a verdict that is earned by what the submission did; a
report with a row for every case; a live sandbox that is never swept and an
orphan that always is. Of the accounts: a refresh token is exchanged once and a
session that was ended stays ended, while two honest tabs are not taken for a
thief; a code works once, guesses are bounded, and a session needs both factors.
Of the catalog: seeds that run at once are as good as one after another, a
problem that was accepted can be judged, and a submission passes exactly when
what it returned is the expected object.

What is hard there: Postgres at READ COMMITTED, where a check and a write are two
statements with other transactions between them; row locks taken in different
orders; a row loaded at the start of a request and used after others have
changed it; counters in Redis next to checks in Postgres; and object graphs
with cycles and sharing that are written down as flat JSON.

## 2. The modules

| module | models | of |
|---|---|---|
| `SubmissionLifecycle` | abstract: what the client that polls is promised | `models/submission.py` |
| `JudgePipeline` | requests, locks, jobs, workers, sweep, time | `submission_service.py`, `queue.py`, `judge.py`, `sweeper.py` |
| `MCJudgePipeline` | its instances: one key, symmetry | |
| `JudgePipelineProofs` | its theorems | |
| `Verdict` | report to verdict to stored rows, as operators | `aggregate.py`, `judging.py` |
| `JudgeRun` | one sandbox: harness parent, child, container, worker | `harness.py`, `docker_runner.py`, `judging.py` |
| `JudgeRunProofs` | its theorems | |
| `JudgeBudget` | how long a judge run may take, as operators | `judge_budget.py` |
| `JudgeBudgetProofs` | their theorems | |
| `Sandboxes` | the runners and the orphan sweep, on several workers | `docker_runner.py`, `k8s_runner.py`, `runner.py` |
| `MCSandboxes` | its instance | |
| `SandboxesProofs` | its theorems | |
| `SessionRules` | abstract: what the refresh tokens of an account promise | `auth_service.py` |
| `Sessions` | refresh tokens, statement by statement, and a browser's cookie | `auth_service.py`, `account_service.py`, `routers/auth.py` |
| `SessionsProofs` | its theorems | |
| `LoginLockout` | the counters in Redis that hold back guessing | `queue.py` |
| `TwoFactor` | enrollment, codes, recovery codes | `totp_service.py`, `totp.py` |
| `Login` | the handlers over both, the lock, the challenge | `routers/auth.py`, `security.py`, `rate_limit.py` |
| `MCLogin`, `LoginProofs` | its instance, its theorems | |
| `JsonValues` | JSON values, the node types and the languages that have them | `harness.py`, `sandbox.py` |
| `Compare` | the comparison modes, with a reference definition | `harness.py` |
| `Codecs` | lists, trees and graphs to and from JSON | `harness.py` |
| `ProblemFiles` | the rules a problem file is held to | `schemas/problem.py`, `sandbox.py`, `comparison.py` |
| `Catalog` | the seed command, readers, one submission judged with what was read, Next | `cli.py`, `problem_service.py`, `judge.py` |
| `CatalogProofs` | its theorems | |
| `PythonJudge` | what the Python harness answers about one object | `harness.py` |
| `MCCatalog` | the instance of both: files, directories, object graphs | |

`JudgePipeline` takes a run as one choice; `JudgeRun` opens the sandbox, and
`Sandboxes` what the worker does around it. They meet in the states of the code
that both name: `Collect` ends what `Communicate` or `ThreadReturns` ends.
`JudgeRun` takes the outcome of a case as a choice; `PythonJudge`, with `Codecs` and
`Compare`, computes it. `Sessions` takes a login as one step that checks the
password; `Login` opens that step, and takes the session it opens as one step.
`Login` extends `TwoFactor`, which extends `LoginLockout`; `Catalog` extends
`ProblemFiles`, which extends `JudgeBudget` and `JsonValues`. What a harness answers is a
parameter of `Catalog`, `Harness`, so that its theorems hold of every harness;
`PythonJudge` defines the Python one's answer over `Codecs` and `Compare`, which are
recursive, and `MCCatalog` supplies it.

### JudgePipeline

`row` is `submissions.status`, `age` the time since `updated_at`; `lock` and
`lockAge` are the Redis key; `job` is what arq keeps under the job id (`spent`
when only the result key is left); `api[s]` is the program counter of the
request that creates `s`; `wpc`, `wsub`, `wAge` are the program counter, the
submission and the age of each job slot; `spc`, `batch` and `sweepAge` the
sweep's. `lapsed` is a history variable: the submissions whose lock ran out or
was lost with Redis. Every action is one statement that reads or writes
Postgres or Redis, with all of its outcomes: done, refused, raised without
effect, raised after it was applied. The exception paths of the code are
successor states of these outcomes (`mark`, `unlock`, `except`, `cancelled`).

What may go wrong in an instance is the constant `Events`: crashes of the three
processes, shutdown of a worker, Redis errors, enqueue errors, Redis restart,
Postgres errors, Postgres failing inside the request's error path
(`double_fault`), a commit that is applied but raises (`lost_commit`), deletion
by the owner, and time passing in a request's transaction before it has its row
(`slow_request`).

Abstractions. The refusals before the lock (size, rate limit, problem,
language) are the one action `Refuse`. A submission is created by one request,
since its id is drawn fresh. `Tick` advances the ages and stands for any amount
of time; it may not pass a job's cancellation (arq enforces its timeout), the
cron's minute unless `sweep_late`, or a commit unless `slow_request`. The
sandbox and its verdict are one choice in `WriteVerdict`: `JudgeRun` is
about how it comes about. The sweep is one process, as deployed; its limit of
1000 rows and 20 concurrent enqueues are not modelled. A second cancellation
while the shielded `_fail_submission` runs is not modelled. `updated_at` is the
start of the transaction that wrote it: a request's begins with the lookup of its
user or of the problem, before the lock (`GotoInsert`), and a job's somewhere
between its start and the claim (`SetRunning`). A row can so be older than its
lock, and the sweep may fail a row as soon as a request slower than the stale
budget commits it.

### JudgeRun and Verdict

The parent of `harness.py` is a program counter `parent` and the case `at`; the
child is `child` and the case `task` it is running; the control pipe and the
result pipe are sequences. A reply carries a status and, for a value, the number
of the case it is the right answer of (0: a wrong value), so that a late answer
read for another case is told apart from that case's own. `answered` is a
history variable, what the submission did on each case. `Finalize` gives the
statuses a reply can get, `Undone` the replies after which the child is killed.
A submission can write to the result pipe itself. What it writes makes a frame that is
no reply (`Garbled`), or one at which the parent raises (`Unreadable`: bytes that are no
UTF-8 raise in `readline`, an integer too large for a float in the comparison under
`float_tolerance`, and `run` catches neither; `ReadRaises`), or it stops in the middle of a
line (`BeginLine`, `Partial`): the deadline of `_Child.read` is for the first byte only, so the
parent then waits until the child writes on or dies (`Blocked`). A submission that writes
whole replies of its own, beside the harness's, is left out, and so is a control pipe that is full.
The container ends by itself, by the worker's wall clock or by the kernel, at
any moment; `Collect` makes of it what `run_in_container` and `run_judgement`
would, through `Verdict`. `Faults` is what may go wrong in an instance. The
validator and the fail-fast flag are part of the payload; `run_judgement` never
asks for fail-fast, but the harness implements it.

What `compare` and a custom validator answer is a choice (a fixed answer is
compared with the case's own); output text and runtimes are left out.

### JudgeBudget and Sandboxes

`JudgeBudget` has the arithmetic of `judge_budget.py` on natural numbers. The
code computes in floats; for every limit a problem may have (1 to 30 000 ms) and
the slack of every language the code's two functions were evaluated and agree
with the exact ones.

In `Sandboxes`, `call[s]` is where `run_in_container` stands for a submission:
`wait`; after the wall clock `kill` and `drain`; after a cancellation
`cancelled` and `reap`; `done`, or `lost` with its worker. `clock` is the age
of its job, `wall` its budget, `waited` how much of it has passed. Under Docker
`client` is the `docker run` process, which asks the daemon for the container;
the daemon starts it some time later. Under Kubernetes `thread` is the program
counter of `_run_sync`, `stop` its cancel flag, and `cleaner` the thread of
`_delete_run`. `obj` and `age` are the objects under the sandbox's name.
`active` is `_active` of each process, and `listed` what its sweep has decided to
remove and not yet removed. `failed` is a history variable.

Every call to the daemon or API server may have its effect, not have it, or
raise with or without it. `docker kill` ignores its exit status, `_delete`
swallows an `ApiException` and is left by any other error: `Delete` has both.
A sweep removes its names one by one, and an error ends it. Left out: a second
cancellation during the shielded clean-up, an age that cannot be parsed (the
sweep leaves it alone), and the gap between the two list calls of `_sweep_sync`,
each of which only reports objects by the same age rule. A crash takes the
process and its threads and clients, as the end of its container does.

### Sessions and SessionRules

`issued`, `revoked` and `rotated` are `refresh_tokens`: rows `1..issued`, those
with `revoked_at`, and how long ago `rotated_at` was (`null`, within
`REFRESH_GRACE_SECONDS`, older). `password` and `link` are the version of the
hash and the emailed reset link. A request is `pc`, `kind`, the token `tok` it
presented, and what its transaction holds: `revoking` and `clearing` are the rows
its two UPDATEs have locked, `upto` and `graced` those of their snapshots, `graced` as far as
it has yet to scan them. Each action is one SQL statement (the second UPDATE one a row) with READ COMMITTED's rules: an UPDATE waits for rows that another
transaction holds (`Held`) and looks at its WHERE again; rows inserted meanwhile
are not seen; nothing is visible before `Commit` or `IssueSuccessor`. `jar` is
the browser's cookie, which two tabs share and replies overwrite in any order.
`era`, `spared`, `ended`, `consumed` and `calm` are history variables.

Any request may fail or be refused at any statement, and a reply may be lost.
Abstractions: whether a token has expired, or the sweep has pruned its row, is a choice
at the read; a live token is then refused, and one that was exchanged within its window is
taken for reuse. The deletion of users, `register` and the persistent flag are left out.

Transactions that wait in a circle (`Waits`, `Circle`) are broken by Postgres, which fails
one of them (`Abort`). `end_rotation_grace` locks row by row (`ClearRow`) in the order of its
scan, which all scans share: a row in grace is updated by nothing that leaves it there, so it
keeps its place in the table. (Postgres may start a scan of a very large table in the middle;
the order of issue stands for the place.) The UPDATE of `_revoke_all` is one step, since it
can add no circle: it takes live rows, in one order too, before any row in grace.

`SessionRules` is the promise without transactions: open, exchange, exchange
once more, end. `Sessions` implements it with the live tokens and those with a
`rotated_at` (`Rules`).

### LoginLockout, TwoFactor and Login

`LoginLockout` is Redis: `hits` of this minute, `fails`, `lock`, with each command
or script one step. Its clock counts the 30-second steps of `totp.py`, two to a
minute. `TwoFactor` has `row`, the columns of `users` it is about; `sheets`, the
unused recovery codes; `gone`, the codes a transaction has deleted and not
committed; and `me[r]`, what request `r` loaded and has found out, since every
handler works on the row `current_user` loaded and never reads it again. A DELETE
that meets a code another transaction has deleted waits with the rows it had found
(`AwaitSheets`), and does not see the codes that are inserted meanwhile. `Login`
adds the handlers: the lock is checked, the secret is checked, the failure is
counted, each a step, and the challenge a password earns (`challenges` holds the
password fingerprints that were handed out).

Abstractions: one account and one IP address, the worst case for both counters; a
code is a secret and a time step, no two of which show the same digits; a sheet of
recovery codes is one code; whether a password or a code is right is the choice of
whoever sends it, and right codes can be known to anybody. The sessions a change
of password ends are `Sessions`'. `guesses`, `accepted`, `replayed`, `proved`,
`torn` and `astray` are history variables; `torn` says that a write was decided on an
enrollment that had changed since it was loaded, `astray` has the sheets that were issued
after a `clear` had begun its DELETE, or once two-factor was off.

### JsonValues, Compare, Codecs, ProblemFiles, Catalog and PythonJudge

`Compare` has `_json_equal`, `_float_equal`, the multiset comparison with its two
ways, and `compare`, with three outcomes: under `float_tolerance` an integer that no
float can hold (`Huge`) may raise `OverflowError`. Next to them `Acceptable` gives the set of
values that are right in each mode (for `unordered` the reorderings, for `float_tolerance`
what is near outside maps, which the code compares exactly) and computes nothing the same way.
`Codecs` has every node type's decoder and encoder over explicit object graphs,
and what it is for two graphs to be the same structure (`SameStructure`: equal
when unfolded for lists and trees, isomorphic for cyclic lists, random lists
and graphs). `ProblemFiles` has one operator per validator of the schema.

`Catalog` has the tables as sets of batches: the languages one upsert inserted are
one batch, and so are its cases, labelled by the file and the seed. `txn[s]` is the
transaction of seed command `s`: the attributes it has written (`sets`), the
batches it has deleted (`gone`) and inserted (`mine`), and while a DELETE waits,
the batches it had found (`snap`). `load` is a problem read in three statements,
and at the end one submission is judged with it, with each outcome that `Harness`
admits; in `PythonJudge`, one for every way a submission can return an object, `judge_error` and
a time limit among them where a validator may raise or overrun, and `judge_error` where the
comparison overflows. `log`, the directories committed, is a history variable.

Abstractions: titles, statements and starter code are left out; solutions are
stored like cases and have no table of their own; the files of one problem number
their cases alike; an operations case ends in the status its validator gives
it, since the replay is not modelled; scripts compile; `Iterator` arguments, lists
of lists and the nesting limit are left out.

## 3. The runs

| run | instance | checks |
|---|---|---|
| `exclusion` | 2 Submits, 1 key, 2 slots; all events but database errors, lost commits, double faults and Redis restarts; TTL 2, timeout 2, stale 2 | `TypeOK`, `LockHeldWhileJudging`, `StaleRowUnlocked`, `KeepsLifecycle` |
| `recovery` | 1 Submit, 1 Run, 1 slot; enqueue, database and double faults; sweep every tick; TTL 2, timeout 3, stale 3 | `NoStuckLock`, `LostJobRetried`, `ConcludesLifecycle` |
| `outage` | 1 Submit, 2 slots; every event | `JudgedByOne`, `Settles` |
| `report` | up to 3 cases, every sample set, with and without validator and fail-fast; every fault but `idle_crash` (that of `lost_report`) | `TypeOK`, `AcceptedIsEarned`, `RowsMatchAnswers`, `EveryCaseReported`, `VerdictExplained`, `OneHiddenCaseShown`, `RunConcludes` |
| `sandboxes` | 1 sandbox, 2 workers, both backends; 1 crash; 1 or 2 cases of 1 unit; timeout 4, slack, margin and slop 1 | `TypeOK`, `SweptIsOver`, `OwnKillFirst`, `CleanedUp`, `OrphansReaped` |
| `sessions` | 2 tabs and 1 other device, up to 5 tokens, 3 requests, 2 changes of password | `TypeOK`, `OldPasswordsAreOut`, `HonestTabsStay`, `NoDeadlock`, `KeepsRules`, `EndedStaysEnded`, `RequestsEnd` |
| `login` | any 2 requests at a time of 9 kinds, 2 per minute, over 3 time steps; 2 failures to a lock; 2 secrets, 2 sheets, 1 change of password | `TypeOK`, `GuessesBounded`, `CodeOnce`, `EnabledIsProved`, `NoDeadlock`, `BothFactors` |
| `catalog` | one seed of each of some 100 files, or two seeds over 3 databases; all object graphs of up to 2 nodes; every mode on values (maps, NaN, infinity, `Huge`) and on node types | `TypeOK`, `LikeOneAfterAnother`, `ReadsMoveForward`, `JudgedAsSeeded`, `PassesIffRight`, `NextReachesAll` |
| `deleted_pending` | deletion only | `NoStuckLock`, violated |
| `overwritten_verdict` | lost commits only | `VerdictIsFinal`, violated |
| `lost_report` | `idle_crash` only, 2 cases | `CrashIsItsCase`, violated |
| `false_alarm` | as `sessions` | `AlarmIsReuse`, violated |

What the properties of `sessions`, `login` and `catalog` say is in the comment above each;
the exceptions they name (`spared`, `LateLogout`, `torn`, `Overlapped`, `Tidy`, `Attainable`, `TooLarge`) are
behaviours of the code, listed in section 5.

Deadlock is checked in every run but those of the accounts and the catalog, which
stop: all requests or seeds of the instance have ended, or the clock has
reached its bound. `RequestsEnd` and `NoDeadlock` ask there what deadlock
checking would.

Bounds. The properties of `JudgePipeline` relate one row, its key, one other
submission on that key, the jobs of both and the sweep: two submissions and two
slots give every pair. Rows of other keys never meet them. The timing constants
keep the order the code has (re-enqueue < TTL <= timeout <= stale) at the
smallest values that tell the timers apart, so that a lock can run out during a
job and a job can outlive the stale budget of its row while queued. `outage` is
about one row that two jobs may hold, hence one submission and two slots.
Three cases are the smallest number with a case between two others, a
respawn after a respawn, and two hidden failing cases next to a sample.
Sandboxes of different submissions meet nowhere but in a sweep's list, whose
entries are handled one by one, so one sandbox is enough, with its own worker
and another that sweeps it. Of one case and two, the first fits the timeout and
the second is exactly at it and refused (2 + 1 + 1 < 4 fails).
Two tabs and one other device are the smallest browser with a race and the
smallest stranger. Three requests allow a rotation, a second one in the grace and
something that ends both, or a logout overtaken by a rotation and a scan it waits for; a third change of password adds nothing, since a request
knows only whether its version is the current one. The browser starts with a token
whose predecessor is live or just rotated, which is what earlier requests would
have left. Two requests at a time are every pair of handlers, on any row that
earlier ones left; three time steps are two minutes and every place in a window of
one step each way, and with them up to four requests that the limit counts, and
others it does not. A lock after two failures has one failure that does not lock. In
`catalog` one file is in one respect right or wrong, and two seeds contend for a
problem that is absent, present or unpublished, with files that change its row
or not, and in the same or the opposite order of problems. Graphs of two nodes
have every cycle, sharing and self-loop a codec treats differently.

Fairness. `JudgePipeline!Fairness` asks that time passes, that a commit returns
or raises (asyncpg has its timeouts), that arq cancels a job past its timeout,
and that the accounts worker takes its next step: it is the one process that is
never scaled to zero. It asks nothing of API processes and judge workers, which
may stop at any statement, and conclusions still hold. In `recovery` and
`outage` that worker may have its Redis calls fail, but each step ends.
`JudgeRun!FairSpec` asks that the parent takes its steps and its deadlines pass,
and that the worker reads the exit of the container. Nothing is asked of the
child. The wall clock is promised only of a parent that waits for the rest of a line, since no
deadline of the harness ends that (`asyncio.wait_for` of `run_in_container` does); everywhere
else the harness concludes without it.
`Sandboxes!FairSpec` asks that time passes, that arq cancels at its timeout, that
a dead worker is restarted, that the cron sweep runs on it and that a removal it
keeps trying succeeds in the end. It asks nothing of the run itself. With the
judge workers scaled to zero for good after a crash nobody sweeps: the comment
at `judge.py:163` takes it that there is then nothing to sweep.
`Sessions!FairSpec` asks of each request that its next statement runs when no row
it needs is held, or that it is aborted in a circle: a statement returns or raises. It asks nothing of the arrival
of requests.

## 4. What is proved

`JudgePipelineProofs` (SMT, Zenon and the PTL decision procedure). From
`StaticAssumption` (the shape of the constants) and `TimingAssumption`
(TTL <= job timeout <= stale budget, which the code's 120 <= 300 <= 300 meets):

* `TypeCorrect`: `Spec => []TypeOK`, with no restriction on events.
* `LockSafety`, `OneInFlight`, `StaleHoldsNoLock`: without `lost_commit` and
  `double_fault`. `LockHeldWhileJudging` is not inductive: that nobody else
  frees the lock of a judged row depends on where its request stands, on
  there being one job per row, and on the ages. `LockInv` adds: a job that
  exists belongs to one slot (`OneJob`, `Bookkeeping`); an unfinished Submit
  has its lock or has lapsed (`LockKept`); whoever is about to release is
  entitled to (`ReleaseDue`); and a job, and so the row it has claimed, is never
  older than the lock it holds (`YoungerThanLock`), which is why a running row the
  sweep may fail has already lost its lock. Of a pending row that holds only
  where no request is slow.
* `JudgedOnce`, with every event allowed: one UPDATE of a pending row lets a job judge, and
  a row that a slot judges is pending no more, nor ever again (`JudgedWasClaimed`).
* `LocksAreReleased` (`NoStuckLock`), where no process crashes or is stopped, Redis
  answers, nothing is deleted, and no sweep dies on the row of a slow request, stale
  while its lock is live (`ReleasesHappen`): a row that is over has its lock
  freed by whoever ended it; until then somebody owes the release (`LockOwed`, in
  `OwedInv`). Each of the events left out can leave a lock to its TTL, as
  `deleted_pending` shows of deletion.
* `LostJobsAreRetried` (`LostJobRetried`), where the sweep keeps its period and Redis
  answers, and the re-enqueue age and one period together are no longer than the stale
  budget (`SweepsInTime`; the code's 30 + 60 <= 300). The invariant bounds the age of
  a pending row without a job by the time since the last sweep (`RetryInTime`).
* `PipelineKeepsLifecycle` and `VerdictFinality`: without `lost_commit` and
  `redis_restart`. Every step refines a step of `SubmissionLifecycle`; the
  invariant is `FinalInv`: a row is judged by at most one job in its life
  (`OneJobEver`), a slot that judges has its row running, and a terminal
  verdict means that the job has nothing left to write.

The events excluded for `JudgePipeline` are exactly those under which the statement is not claimed
by the code: see the findings, and the comment at submission_service.py:144.

`JudgeRunProofs`, from `RunAssumption` (any number of cases, any faults): `TypeCorrect`,
`RowsTellTheirCase`, `RunAllIsWhole`, `HiddenCasesStayHidden` and
`AcceptedOnlyIfEarned`. The invariant is `RunInv`. That a row tells of its own case
is not inductive, since the answer passes through a process that may stop
anywhere: `OneAtATime` says that of the case at hand there is its number in the
control pipe, or the child that runs it, or one reply that fits what the
submission did (`Fits`); that the pipes are empty and the child idle whenever the
parent is about to send (`Quiet`) is what killing the child of a hung case is for.
`Untouched` says that a case is not run before its turn, `Complete` that a report
is whole or ends on a failure, and `Concluded` that the verdict is made of that
report or of none. From it follows `VerdictsAreExplained` too, for any faults: `judge_error`
blames a validator, or a report that the harness lost. `ReportsSurviveCrashes` says when that is:
it assumes that no child dies between two cases and that nothing the parent reads makes it
raise, and `DeadInWork` is what it adds to the invariant, that a dead child is one the parent is
waiting for. So the event of `lost_report`, frames that are no UTF-8 and numbers that
overflow a float are all by which a report is lost without a kill.

`RunsAreFinite` and `RunsGoOn` are what can be proved of `RunConcludes`. `StepsLeft` counts
the steps that the processes of a run have left, those of children yet to be respawned
included, and falls at every step: at most 20 n + 35 of them for n cases. And until there is
a verdict the parent or the worker has a step to take that does not depend on the child
(`CanGoOn`), since a read of the parent ends with what is in the pipe or with its deadline;
all but a parent that is `Blocked`, which only the child or a kill lets go on.

`JudgeBudgetProofs`, from `BudgetAssumption` (durations are natural numbers):
`MaxCasesIsExact`, that the number in the seed command's error is the boundary of
what it accepts, and `WallClockBeforeJobTimeout`.

`SandboxesProofs`, from the same and `SandboxAssumption`, with no restriction on
crashes or failing calls: `TypeCorrect`, `SweepIsSafe`, `BudgetHolds` and
`PodRunCleansUp`. The invariant is `SafeInv`. The sweep looks at ages only, so its
safety needs that a sandbox is never older than its job (`YoungerThanJob`, which
needs that nothing exists of a submission not yet started, `Fresh`) and that what
was listed stays over until it is removed (`ListedOver`); the job's own age is
bounded by arq's timeout in `TypeOK`, and the sweep's age lies beyond it.
`ThreadOwns` says which objects the thread of a Pod run still has to delete at each
of its steps: it does not mention the other thread, which is why the deletion
after a cancellation may overtake it.

`SessionsProofs`, from `SessionsAssumption` (bounds are numbers, tabs are not other
devices), with any number of requests: `TypeCorrect`, `NoOldSessionLives`,
`RulesKept`, `EndedForGood`, `DeadlocksAreOfLateLogouts`, `SomebodyGoesOn`,
`RequestsGoForward` and, of browsers with at most two tabs, `TwoTabsStay`. The theorems are about `Spec`, hence about
`FairSpec`. The invariant is `SessionsInv`. It says for each request what
others may not have done to the rows it holds (`RequestInv`: a token that was
claimed is still live and one whose grace was spent still has it, `Exchangeable`;
a revocation under way covers every row of its snapshot but the one it keeps,
`EndsAll`; an exchange during it is marked, `SparesLate`), that no two transactions
hold one row (`Apart`), and what that leaves of the committed rows (`RowsInv`).
With it every step maps to a step of `SessionRules` or leaves its variables alone.
For the deadlocks, a scan under way has what it holds behind it (`Scanning`), in rows that
were revoked when it started, so that it waits for a scan further on, or for a logout whose
row was exchanged under it; the furthest of a set of scans waits for nobody (`Furthest`), and
no other place waits for one that comes before it.
The same lemma (`NoCircle`) gives `SomebodyGoesOn`: as long as no logout came late, one of the
requests under way waits for nobody. `RequestsGoForward` adds that a statement takes
its request to a later place (`Ahead`) or over a row of its scan, of which there are finitely many,
and that others leave it where it is: together the part of `RequestsEnd` that needs no fairness.
`TwoTabsStay` supposes `TwoTabs`, since three tabs at once are one more than the grace
window takes (section 5). Its invariant, `CalmInv`, counts for each token the tabs that
present it or would if they asked now (`Users`): a rotated token has one at most, who has
the grace, a spent one has none, and what a reply carries is live and in nobody's hands.

`LoginProofs`, from `LockoutAssumption` and `TwoFactorAssumption` (the requests are
finitely many): `LoginTyped`, `GuessingIsBounded`, `CodesAreSpentOnce`, `OnlyProvedSecrets`,
`BothFactorsAsked` and `DeadlocksAreOfStale`. The second counts: `CountInv` says that the wrong answers are
at most the failures counted and those of requests that have yet to count one; that
without the lock they stay below the failures allowed and the requests that have
failed and not yet locked or left; and with it, that wrong answers and the
requests that have already passed the lock stay below the bound together. The third is by what a time step that was
accepted implies of the row (`CodesInv`), unless the history is `torn`; the others
by what each request knows at each of its statements (`Known`). None of these needs the bounds of the
model (`LooseOK` is `TypeOK` without them); `LoginTyped` has them, since a change of the
password is counted at the door from its arrival to its commit (`DoorInv`). For the
deadlock, `StrayInv` says that an account with two-factor off has no recovery codes but
those in `astray`, and that a `clear` accounts for all others from the start of its DELETE.

`CatalogProofs`, from `SetupAssumption` and the assumptions of the modules it extends, for any number of
seeds, problems, files, directories and languages, and for any `Harness`: `CatalogTyped`,
`SeedsAreSerial`, `ReadsGoForward`, `JudgedFairly` and `NextMeetsAll`. `SeedInv` is about
transactions: a row lock belongs to one of them (`Apart`), what it has written and deleted is that
of the problem it is at and those before (`Shape`, `Holding`), the committed batches are
those of the last file (`Committed`), and the tables are what `log` leaves
when it is run one after another (`Logged`); `Overlapped` is the exception, as in the property.
`ReadInv` says of a reader which batches may still be there at its next statement. `JudgedFairly`
is about what the judge is given, and assumes nothing of the harnesses: a validator that loads
may still raise on an answer, which is the judge's fault and which the seed cannot know. `NextMeetsAll` is about a recursive tour and is by least
counterexample: a closed form of the tour (`ComesTo`) holds of each length, and of a set of lengths where it fails there is a
smallest.

Only model-checked: liveness (`Settles`, `ConcludesLifecycle`, `RunConcludes`,
`OrphansReaped`, `RequestsEnd`), since fairness and ENABLED are out of the prover's reach (of
`RunConcludes` and `RequestsEnd` it is the fairness step that is missing: that what can
go on does, see above),
and `PassesIffRight`, since the codecs and comparisons are recursive
operators that the prover cannot take.

## 5. What the runs found

* A pending Submit that is deleted leaves its lock behind until the TTL
  (`deleted_pending`).
* A verdict whose commit is applied but raises is overwritten with
  `judge_error` (`overwritten_verdict`).
* A child that dies between two cases costs the whole report
  (`lost_report`); confirmed by running `harness.py` with a submission that
  leaves a thread behind which exits the process.

* A device whose session was ended by a change of the password comes back and
  ends the session that the change had kept (`false_alarm`).

Each is in `PROJECT.json` with the text it disagrees with. The following were met
while modelling; no run is about them, and the properties name them as their exceptions.

Judging. Three more things stop the harness than its comments say. A frame that is no UTF-8
raises in `readline`, outside the `try` of `_Child.read` (`harness.py:1220`), although the
docstring has a malformed frame "treated as a dead, desynced child (_CRASH) rather than being
allowed to raise out of here and abort the whole run". An integer too large for a float,
returned under `float_tolerance` or as a frame's `runtime_ms`, raises `OverflowError`
(`harness.py:691`, `755`), where `run` catches only `RecursionError`. Both lose the report, and the
verdict is `judge_error` (`VerdictExplained` names it). A line that is begun and not ended
keeps the parent waiting past its deadline, until the worker's wall clock reads the whole run
as a time limit and its rows are lost.

Sessions. A login or an exchange that is under way while all sessions are revoked
leaves a session alive (`spared`), since the UPDATE does not see its row; it is
opened with the old password. The tabs' own concurrent exchange of the token that
a change of password keeps is revoked. A logout that presents a token another tab
has just exchanged does nothing, and leaves the successor and the grace; one whose token is
exchanged between its SELECT and its UPDATE holds a row of the grace window before it asks for
all of them, so that two such logouts, or one and a change of password, may deadlock
(`LateLogout`): Postgres fails one, and its user is still signed in. Two
requests may consume one reset link at once. Three tabs that refresh at once are
one more than the grace, and raise the alarm; so may two at the expiry of their token, where
the second is refused the grace and reuse detection ends every session (`ReadToken`;
the docstring of `rotate_refresh_token` says of it that "an expired token is refused in grace
too", and `test_auth_service.py:210` asks for the reuse error).

Two-factor. Where an enrollment is turned off and on under a request that has loaded
it (`torn`): a code may be accepted twice (`totp_service.py:97`); `enable` racing
`begin_setup` turns on a secret nobody has proved; racing `clear`, it turns
two-factor on without a secret; `disable` and a late `enable` can deadlock, and Postgres
aborts one. Two regenerations at once leave both sheets valid. One that commits after a `clear`
leaves codes to an account with two-factor off, where an `enable` in its own time deadlocks with
another `clear` (`astray`; three requests). The wrong codes of
`enable` are not counted towards the lockout; the secret is the caller's own.

Catalog. Two seeds at once can leave a problem's row with attributes of both files,
as an UPDATE sets only what the seed found different (`Overlapped`), where the
docstring says a file is "always the complete desired state, never a patch"; if neither changes
the row, the later one fails on the unique constraint. Some files are accepted though
no answer can pass (`Attainable`): null for an expected list, trailing nulls in a
tree, graph nodes that the first does not reach, NaN under `exact` and `any_of`, in a map, or
where `unordered` cannot hash a member (hashed, NaN matches, as `json.loads` gives every NaN as
one object). A tolerance that meets an integer too large for a float may end in `judge_error`
(`TooLarge`). Encodings do not
show everything (`Tidy`): a random pointer that leaves the list, two graph nodes with
one value, which node of a graph was returned, a node of the submission's own where
null is expected of a cyclic list. A validator whose `validate` is assigned rather than
defined may pass the seed and fail every judging (`plain`).
`runtime_percentile` counts twice and caches the ratio for 30 s: between the counts rows
may come and go, and it can be below 0 or above 100.

## 6. What is left

In this order: the replay of an operations case with its probes; variants of `JudgeRun` for the Rust harness, which compiles first
and has a process per case, and for the JavaScript one; the accounts worker's mail
queue. Runs stay few: one per question, modules of pure operators checked together.

## 7. Not modelled

Rendering, forms and styling; mail text; password policy and breached-password
lookups; settings, logging, audit; migrations, deployment charts and scripts;
validation of a seed document beyond what the judge relies on. The harnesses of the
other languages have process structures of their own; the accounts worker and the
watchdog are short handlers without shared state; the workspace's state is that of
React and TanStack Query. The time the parent harness itself takes between hung cases
is outside `JudgeBudget`, as it is outside `wall_budget_s`. `components` in
`PROJECT.json` gives the reason for each.
