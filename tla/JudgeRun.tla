------------------------------ MODULE JudgeRun ------------------------------
(***************************************************************************)
(* One run of a sandbox: the Python harness (judge/harness.py) inside the   *)
(* container, and the worker that waits for it (run_in_container of         *)
(* worker/docker_runner.py) and makes a verdict of what comes out           *)
(* (run_judgement of worker/judging.py).                                   *)
(*                                                                         *)
(* The harness is two processes.  The parent holds the expected answers,   *)
(* sends the cases one at a time down a control pipe and reads replies from *)
(* a result pipe; the child loads the submission and runs it.  A child may  *)
(* raise, hang, or die at any moment.  The container may be killed by the   *)
(* worker's wall clock or by the kernel at any moment.                     *)
(***************************************************************************)
EXTENDS Verdict

CONSTANTS
    MaxCases,   \* the largest number of test cases a payload has
    Faults      \* what may go wrong in this instance

AllFaults ==
    { "load_error",     \* the submission does not compile, or lacks the function
      "case_error",     \* it raises on a case
      "overrun",        \* it is stopped by the alarm in the child
      "hang",           \* nothing comes from the child within the parent's deadline
      "crash",          \* the child dies while it loads the submission or runs a case
      "idle_crash",     \* the child dies between two cases
      "garbled",        \* what comes down the result pipe is no reply
      "unreadable",     \* it makes the parent raise: no UTF-8, a number too large for a float
      "partial",        \* it stops in the middle of a line
      "probe_error",    \* the child cannot make a call the validator asked for
      "bad_value",      \* the value is nested too deeply, or leaves a probe unanswered
      "validator_load", "validator_fault", "validator_overrun",
      "wall_clock",     \* the worker kills the container
      "oom",            \* the kernel does
      "flood" }         \* the report is over 1 MB

ASSUME RunAssumption == MaxCases \in Nat /\ Faults \subseteq AllFaults

VARIABLES
    payload,   \* what run_judgement sent: number of cases, samples, validator, fail-fast
    parent, at,            \* where the parent stands, and at which case (0: none yet)
    child, task,           \* the child process, and the case it is running
    control, replies,      \* the two pipes
    rows, out,             \* the report so far, and what has reached stdout
    box,                   \* the container, as the worker sees it
    answered,              \* history: what the submission did on each case
    verdict, stored        \* what the worker makes of it

harnessVars == <<parent, at, child, task, control, replies, rows, out, answered>>
vars == <<payload, harnessVars, box, verdict, stored>>

May(f) == f \in Faults
Cases == 1..payload.cases
Ids == [i \in Cases |-> i]
Judged == verdict.status # "none"
NoVerdict == [status |-> "none", results |-> <<>>, passed |-> 0, total |-> 0]

\* The seed file's schema asks for at least one case, and at least one sample.
Payloads ==
    UNION {[cases : {n}, samples : SUBSET (1..n) \ {{}}, validator : BOOLEAN, stop : BOOLEAN]
             : n \in 1..MaxCases}

RowStatus == {"passed", "judge_error"} \cup (CaseFailures \ {"memory_limit_exceeded"})
Row(c, st) == [id |-> c, status |-> st]

TypeOK ==
    /\ payload \in Payloads
    /\ parent \in {"start", "next", "ack", "read", "report", "exit"}
    /\ at \in 0..payload.cases + 1
    /\ child \in {"none", "boot", "alive", "dead"}
    /\ task \in 0..payload.cases
    /\ control \in Seq(Cases)
    /\ \A i \in DOMAIN replies : replies[i].actual \in 0..payload.cases
    /\ rows \in Seq([id : Cases, status : RowStatus])
    /\ out \subseteq {rows}
    /\ box \in {"up", "exited", "killed", "oom"}
    /\ answered \in [Cases -> {"not run", "running", "right", "wrong", "failed"}]

Init ==
    /\ payload \in Payloads
    /\ parent = "start" /\ at = 0
    /\ child = "none" /\ task = 0
    /\ control = <<>> /\ replies = <<>>
    /\ rows = <<>> /\ out = {}
    /\ box = "up"
    /\ answered = [c \in Cases |-> "not run"]
    /\ verdict = NoVerdict /\ stored = <<>>

-----------------------------------------------------------------------------
(* The parent *)

\* _Child.kill: the process group is killed and both pipes are closed.
KillChild ==
    /\ child' = "none"
    /\ task' = 0
    /\ control' = <<>>
    /\ replies' = <<>>

KeepChild == UNCHANGED <<child, task, control, replies>>

\* A custom validator is loaded before any child starts, and refused with one row.
LoadValidator ==
    /\ parent = "start"
    /\ \/ parent' = "next" /\ UNCHANGED rows
       \/ /\ payload.validator /\ May("validator_load")
          /\ rows' = <<Row(1, "judge_error")>>
          /\ parent' = "report"
    /\ KeepChild
    /\ UNCHANGED <<payload, at, out, answered, box, verdict, stored>>

SpawnChild ==
    /\ parent = "next"
    /\ at <= payload.cases
    /\ child = "none"
    /\ child' = "boot"
    /\ parent' = "ack"
    /\ UNCHANGED <<payload, at, task, control, replies, rows, out, answered, box, verdict, stored>>

\* Mutant of AfterRow: the harness stops at a failure although the payload does not ask for it.
StopAnyway(st) ==
    /\ at' = at + 1
    /\ parent' = IF st # "passed" THEN "report" ELSE "next"

\* The row of case at is in: on to the next case, or stop at the first failure.
AfterRow(st) ==
    /\ at' = at + 1
    /\ parent' = IF st # "passed" /\ payload.stop THEN "report" ELSE "next"

\* Mutant of StartFailed: the case at hand takes the blame even before the first case.
BlameCase ==
    /\ KillChild
    /\ rows' = Append(rows, Row(at, "runtime_error"))
    /\ AfterRow("runtime_error")

\* The child could not be started: the first time the whole report is that one error, after a
\* respawn the case at hand takes the blame.
StartFailed ==
    /\ KillChild
    /\ \/ /\ at = 0
          /\ rows' = <<Row(1, "runtime_error")>>
          /\ parent' = "report"
          /\ UNCHANGED at
       \/ /\ at > 0
          /\ rows' = Append(rows, Row(at, "runtime_error"))
          /\ AfterRow("runtime_error")

Hang       == [status |-> "hang", actual |-> 0]
Crash      == [status |-> "crash", actual |-> 0]
Garbled    == [status |-> "garbled", actual |-> 0]
Unreadable == [status |-> "unreadable", actual |-> 0]
Partial    == [status |-> "partial", actual |-> 0]

\* Mutant of Incoming: the parent waits for the child without a deadline.
IncomingForEver ==
    IF child = "dead" /\ replies \in {<<>>, <<Partial>>} THEN {Crash}
    ELSE IF replies \in {<<>>, <<Partial>>} THEN {} ELSE {Head(replies)}

\* What _Child.read may return now.  The deadline is for the first byte only: a line that has
\* begun is waited for until it ends or the child does.
Incoming ==
    CASE replies = <<>>        -> {r \in {Crash, Hang} : IF r = Crash THEN child = "dead" ELSE May("hang")}
      [] replies = <<Partial>> -> {r \in {Crash} : child = "dead"}
      [] OTHER                 -> {Head(replies)}

\* Mid-line: the parent waits for the rest of a line without a deadline.
Blocked == parent \in {"ack", "read"} /\ replies = <<Partial>> /\ child # "dead"

\* The acknowledgement of the setup, an error, end of file, or the setup deadline; an exception
\* of the read itself, or of an error text that is none, ends the harness without a report,
\* and the container with the child in it.
ReadAck ==
    /\ parent = "ack"
    /\ \/ /\ replies # <<>> /\ Head(replies).status = "ok"
          /\ replies' = Tail(replies)
          /\ at' = IF at = 0 THEN 1 ELSE at
          /\ parent' = "next"
          /\ UNCHANGED <<child, task, control, rows>>
       \/ /\ \E ack \in Incoming : ack.status \notin {"ok", "unreadable"}
          /\ StartFailed
       \/ /\ Unreadable \in Incoming
          /\ parent' = "exit"
          /\ KillChild
          /\ UNCHANGED <<at, rows>>
    /\ UNCHANGED <<payload, out, answered, box, verdict, stored>>

\* Writing to a child that is already dead raises, and nothing in run catches it: the child is
\* killed and the harness exits without a report.
SendCase ==
    /\ parent = "next"
    /\ at \in Cases
    /\ \/ /\ child = "alive"
          /\ control' = Append(control, at)
          /\ parent' = "read"
          /\ UNCHANGED <<child, task, replies>>
       \/ /\ child = "dead"
          /\ KillChild
          /\ parent' = "exit"
    /\ UNCHANGED <<payload, at, rows, out, answered, box, verdict, stored>>

\* _finalize: the row statuses a reply can get, decided in the parent, none if it raises.  A
\* fixed answer is compared with the case's own; a validator decides what it accepts, and may
\* fail or overrun.
Finalize(c, reply) ==
    LET judged == IF reply.actual = c THEN "passed" ELSE "wrong_answer"
        validated ==
            {st \in {"time_limit_exceeded", "judge_error"} :
                /\ payload.validator
                /\ st = "time_limit_exceeded" => May("validator_overrun")
                /\ st = "judge_error" => May("validator_fault")}
    IN  CASE reply.status \in {"crash", "garbled"}             -> {"runtime_error"}
          [] reply.status \in {"hang", "time_limit_exceeded"}  -> {"time_limit_exceeded"}
          [] reply.status \in {"runtime_error", "bad_value"}   -> {"runtime_error"}
          [] reply.status = "probe_error"                      -> {"judge_error"}
          [] reply.status = "unreadable"                       -> {}
          [] OTHER                                             -> {judged} \cup validated

\* Mutant of Undone: a child that missed the deadline is left running.
UndoneByCrash(reply) == reply.status \in {"crash", "garbled", "time_limit_exceeded"}

\* After these the child is killed, and the next case gets a fresh one.
Undone(reply) == reply.status \in {"hang", "crash", "garbled", "time_limit_exceeded"}

ReadReply ==
    /\ parent = "read"
    /\ \E reply \in Incoming :
         /\ \E st \in Finalize(at, reply) :
              /\ rows' = Append(rows, Row(at, st))
              /\ AfterRow(st)
         /\ IF Undone(reply) THEN KillChild
            ELSE /\ replies' = IF replies = <<>> THEN <<>> ELSE Tail(replies)
                 /\ UNCHANGED <<child, task, control>>
    /\ UNCHANGED <<payload, out, answered, box, verdict, stored>>

\* Reading the reply or judging it raises, and nothing in run catches it: the report is lost.
ReadRaises ==
    /\ parent = "read"
    /\ Unreadable \in Incoming
    /\ KillChild
    /\ parent' = "exit"
    /\ UNCHANGED <<payload, at, rows, out, answered, box, verdict, stored>>

\* The child is killed, the report is written in one go, and the harness exits.
WriteReport ==
    /\ \/ parent = "report"
       \/ parent = "next" /\ at > payload.cases
    /\ KillChild
    /\ out' = {rows}
    /\ parent' = "exit"
    /\ UNCHANGED <<payload, at, rows, answered, box, verdict, stored>>

Parent ==
    LoadValidator \/ SpawnChild \/ ReadAck \/ SendCase \/ ReadReply \/ ReadRaises \/ WriteReport

-----------------------------------------------------------------------------
(* The child *)

\* A frame goes down the result pipe, on a line of its own unless one was begun.
Emit(reply) == replies' = IF replies = <<Partial>> THEN <<Garbled>> ELSE Append(replies, reply)

ChildSetup ==
    /\ child = "boot"
    /\ \/ child' = "alive" /\ Emit([status |-> "ok", actual |-> 0])
       \/ /\ May("load_error")
          /\ child' = "dead"
          /\ Emit([status |-> "user_error", actual |-> 0])
       \/ /\ May("unreadable")
          /\ child' \in {"alive", "dead"}
          /\ Emit(Unreadable)
    /\ UNCHANGED <<payload, parent, at, task, control, rows, out, answered, box, verdict, stored>>

TakeCase ==
    /\ child = "alive"
    /\ task = 0
    /\ control # <<>>
    /\ task' = Head(control)
    /\ control' = Tail(control)
    /\ answered' = [answered EXCEPT ![task'] = "running"]
    /\ UNCHANGED <<payload, parent, at, child, replies, rows, out, box, verdict, stored>>

\* The submission writes to the result pipe itself, and not a whole line: whatever is written
\* next ends it, and makes no reply.
BeginLine ==
    /\ May("partial")
    /\ child \in {"boot", "alive"}
    /\ replies = <<>>
    /\ replies' = <<Partial>>
    /\ UNCHANGED <<payload, parent, at, child, task, control, rows, out, answered, box, verdict, stored>>

\* _execute_case: the value of the case's own answer is called by the case's number, a wrong
\* value is 0.
ExecuteCase ==
    /\ child = "alive"
    /\ task # 0
    /\ \/ \E v \in {0, task} :
            /\ replies # <<Partial>>
            /\ Emit([status |-> "ok", actual |-> v])
            /\ answered' = [answered EXCEPT ![task] = IF v = task THEN "right" ELSE "wrong"]
       \/ \E fault \in {"case_error", "overrun", "garbled", "unreadable", "bad_value", "probe_error"} :
            /\ May(fault)
            /\ fault = "probe_error" => payload.validator
            /\ LET st == CASE fault = "case_error" -> "runtime_error"
                           [] fault = "overrun"    -> "time_limit_exceeded"
                           [] OTHER                -> fault
               IN  Emit([status |-> st, actual |-> 0])
            /\ answered' = [answered EXCEPT ![task] = "failed"]
       \/ /\ replies = <<Partial>>
          /\ Emit(Garbled)
          /\ answered' = [answered EXCEPT ![task] = "failed"]
    /\ task' = 0
    /\ UNCHANGED <<payload, parent, at, child, control, rows, out, box, verdict, stored>>

\* os._exit, a signal, the kernel: while loading or running, or from a thread left behind.
ChildDies ==
    /\ \/ child = "boot" /\ May("crash")
       \/ child = "alive" /\ May(IF task = 0 /\ control = <<>> THEN "idle_crash" ELSE "crash")
    /\ child' = "dead"
    /\ task' = 0
    /\ answered' = IF task = 0 THEN answered ELSE [answered EXCEPT ![task] = "failed"]
    /\ UNCHANGED <<payload, parent, at, control, replies, rows, out, box, verdict, stored>>

Child == ChildSetup \/ TakeCase \/ BeginLine \/ ExecuteCase \/ ChildDies

-----------------------------------------------------------------------------
(* The container and the worker *)

Exit ==
    /\ box = "up"
    /\ parent = "exit"
    /\ box' = "exited"
    /\ UNCHANGED <<payload, harnessVars, verdict, stored>>

\* docker kill, by the worker's wall clock or by the kernel.
Kill ==
    /\ box = "up"
    /\ \/ May("wall_clock") /\ box' = "killed"
       \/ May("oom") /\ parent # "exit" /\ box' = "oom"
    /\ KillChild
    /\ parent' = "exit"
    /\ UNCHANGED <<payload, at, rows, out, answered, verdict, stored>>

\* run_in_container returns and run_judgement makes the verdict.  The drain after a wall-clock
\* kill may find nothing; a killed container exits with code 137 unless it was just done.
Collect ==
    /\ box # "up"
    /\ ~Judged
    /\ \E truncated, code137 \in BOOLEAN : \E stdout \in {out, {}} :
         /\ truncated => May("flood") /\ out # {}
         /\ code137 = (box = "oom") \/ box = "killed"
         /\ IF truncated THEN stdout = {} ELSE stdout = out \/ box = "killed"
         /\ verdict' = Aggregate(
               [timed_out |-> box = "killed", oom_killed |-> code137,
                stdout_truncated |-> truncated],
               ParseHarnessOutput(stdout, Ids), payload.cases)
    /\ stored' = BuildVerdictResults(verdict'.results, payload.samples)
    /\ UNCHANGED <<payload, harnessVars, box>>

Worker == Exit \/ Kill \/ Collect

Done == Judged /\ UNCHANGED vars

Next == Parent \/ Child \/ Worker \/ Done

Spec == Init /\ [][Next]_vars

\* The parent takes its steps and its deadlines pass; so do the worker's.  Nothing is promised
\* of the submission, and that the wall clock fires only of a parent that waits in mid-line.
FairSpec ==
    /\ Spec
    /\ WF_vars(Parent)
    /\ WF_vars(Exit)
    /\ WF_vars(Collect)
    /\ WF_vars(Blocked /\ Kill /\ box' = "killed")

-----------------------------------------------------------------------------
(* Properties *)

\* "accepted only if all pass": every case was run, and the submission answered each one right.
AcceptedIsEarned ==
    verdict.status = "accepted" => \A c \in Cases : answered[c] = "right"

\* A row tells of its own case: an answer that comes after the parent's deadline is never taken
\* for the next case's.
RowsMatchAnswers ==
    \A i \in DOMAIN rows : LET r == rows[i] IN
        /\ r.status = "passed" => answered[r.id] = "right"
        /\ r.status = "wrong_answer" => answered[r.id] = "wrong"

\* Run-all: without fail-fast a submission that loads gets one row per case, whatever it does
\* on them, so that X/N is honest.
EveryCaseReported ==
    \A report \in out : at > 0 /\ ~payload.stop => Len(report) = payload.cases

\* What each verdict blames happened: memory only when the kernel killed the container, the
\* judge only when the problem's validator may be at fault or the harness lost its report, and
\* so on.
VerdictExplained ==
    /\ verdict.status = "memory_limit_exceeded" => box = "oom"
    /\ verdict.status = "judge_error" => payload.validator \/ (box = "exited" /\ out = {})
    /\ verdict.status = "wrong_answer" => \E c \in Cases : answered[c] = "wrong"
    /\ Judged => verdict.total = payload.cases
    /\ LET right == Cardinality({c \in Cases : answered[c] = "right"})
       IN  IF verdict.results = <<>> \/ payload.validator
             THEN verdict.passed <= right ELSE verdict.passed = right

\* At most one hidden case's data is stored, and no later failing case than that one.
OneHiddenCaseShown ==
    \A i, j \in DOMAIN stored :
        stored[i].detail = "revealed" /\ stored[j].detail # "full"
          /\ stored[j].status # "passed" /\ (j < i \/ stored[j].detail = "revealed")
        => i = j

\* "a crash is a per-case runtime_error; either way the parent respawns a fresh child for the
\* remaining cases" (DESIGN.md): a harness that exits by itself has written its report.
CrashIsItsCase == box = "exited" => out # {}

\* Every run ends with a verdict although the submission may hang for ever: the parent's own
\* deadlines are enough, but for a reply that stops in mid-line, which the wall clock ends.
RunConcludes == <>Judged
=============================================================================
