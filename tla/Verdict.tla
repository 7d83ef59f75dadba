------------------------------ MODULE Verdict ------------------------------
(***************************************************************************)
(* From a sandbox run to a submission's verdict: worker/aggregate.py and   *)
(* build_verdict_results of worker/judging.py, as operators.               *)
(*                                                                         *)
(* A report is a sequence of rows [id, status], one per test case.  What a  *)
(* container wrote on its stdout is the set of reports that can be read     *)
(* from it: empty when it is no JSON report at all, one otherwise.  The    *)
(* outcome of a container is a record                                      *)
(*   [timed_out, oom_killed, stdout_truncated : BOOLEAN].                  *)
(***************************************************************************)
EXTENDS Naturals, Sequences, FiniteSets

CaseFailures ==
    {"wrong_answer", "runtime_error", "time_limit_exceeded", "memory_limit_exceeded"}

\* One row per case, in the order sent; a shorter report ends on a failure.
AccountsFor(rows, ids) ==
    \/ ids = <<>> /\ rows = <<>>
    \/ /\ ids # <<>>
       /\ Len(rows) \in 1..Len(ids)
       /\ \A i \in DOMAIN rows : rows[i].id = ids[i]
       /\ Len(rows) = Len(ids) \/ rows[Len(rows)].status # "passed"

\* The usable report on stdout, if there is one.
ParseHarnessOutput(stdout, ids) == {rows \in stdout : AccountsFor(rows, ids)}

Passing(rows) == {i \in DOMAIN rows : rows[i].status = "passed"}

IsFirstFailure(rows, i) ==
    /\ i \in DOMAIN rows
    /\ rows[i].status # "passed"
    /\ \A j \in 1..i - 1 : rows[j].status = "passed"

\* Mutant of CaseVerdict: the last row decides.
LastCaseVerdict(rows) ==
    IF rows = <<>> \/ rows[Len(rows)].status = "passed" THEN "accepted"
    ELSE rows[Len(rows)].status

\* The status of the first row that is not passed; a status no harness should report is a
\* judge fault.
CaseVerdict(rows) ==
    IF Passing(rows) = DOMAIN rows THEN "accepted"
    ELSE LET st == rows[CHOOSE i \in DOMAIN rows : IsFirstFailure(rows, i)].status
         IN  IF st \in CaseFailures THEN st ELSE "judge_error"

\* Mutant of Aggregate: exit code 137 is looked at before the worker's own kill.
OomFirst(outcome, results, total) ==
    LET rows == IF results = {} THEN <<>> ELSE CHOOSE r \in results : TRUE
        Only(st) == [status |-> st, results |-> <<>>, passed |-> 0, total |-> total]
        Counted(st) ==
            [status |-> st, results |-> rows, passed |-> Cardinality(Passing(rows)), total |-> total]
    IN  IF outcome.oom_killed THEN Only("memory_limit_exceeded")
        ELSE IF outcome.timed_out THEN Only("time_limit_exceeded")
        ELSE IF outcome.stdout_truncated THEN Counted("output_limit_exceeded")
        ELSE IF results = {} THEN Only("judge_error")
        ELSE Counted(CaseVerdict(rows))

\* Container-level failures come before the rows, and the worker's own wall-clock kill before
\* all others: once it has killed the container, exit code 137 no longer means out of memory.
Aggregate(outcome, results, total) ==
    LET rows == IF results = {} THEN <<>> ELSE CHOOSE r \in results : TRUE
        Only(st) == [status |-> st, results |-> <<>>, passed |-> 0, total |-> total]
        Counted(st) ==
            [status |-> st, results |-> rows, passed |-> Cardinality(Passing(rows)), total |-> total]
    IN  IF outcome.timed_out THEN Only("time_limit_exceeded")
        ELSE IF outcome.oom_killed THEN Only("memory_limit_exceeded")
        ELSE IF outcome.stdout_truncated THEN Counted("output_limit_exceeded")
        ELSE IF results = {} THEN Only("judge_error")
        ELSE Counted(CaseVerdict(rows))

\* Mutant of Revealed: every failing case is.
RevealFailures(rows, i) == rows[i].status # "passed"

Revealed(rows, i) == IsFirstFailure(rows, i)

\* What is stored of each row: a sample's whole row, the first failing case with its input and
\* expected answer, and of any other hidden case its status and runtime only.
BuildVerdictResults(rows, samples) ==
    [i \in DOMAIN rows |->
        [id |-> rows[i].id,
         status |-> rows[i].status,
         detail |-> IF rows[i].id \in samples THEN "full"
                    ELSE IF Revealed(rows, i) THEN "revealed" ELSE "redacted"]]
=============================================================================
