------------------------ MODULE SubmissionLifecycle ------------------------
(***************************************************************************)
(* What the judging pipeline promises the client that polls a submission:  *)
(* its row is created pending, a worker sets it running, it ends in one    *)
(* terminal status, and that status is final (the lifecycle in the         *)
(* docstring of models/submission.py).  A submission may be deleted by its *)
(* owner at any moment.  Nothing is said here of queues, locks or workers. *)
(***************************************************************************)
CONSTANTS Subs,      \* submission ids
          Verdicts   \* the terminal statuses a judgement can produce

VARIABLE status

Unfinished == {"pending", "running"}
Terminal   == Verdicts \cup {"judge_error"}

Init == status = [s \in Subs |-> "none"]

Create(s) ==
    /\ status[s] = "none"
    /\ status' = [status EXCEPT ![s] = "pending"]

Begin(s) ==
    /\ status[s] = "pending"
    /\ status' = [status EXCEPT ![s] = "running"]

Finish(s, v) ==
    /\ status[s] = "running"
    /\ status' = [status EXCEPT ![s] = v]

\* One sweep may give up on several submissions at once.
GiveUp(S) ==
    /\ S # {}
    /\ \A s \in S : status[s] \in Unfinished
    /\ status' = [s \in Subs |-> IF s \in S THEN "judge_error" ELSE status[s]]

Remove(s) ==
    /\ status[s] \notin {"none", "deleted"}
    /\ status' = [status EXCEPT ![s] = "deleted"]

\* What ends the client's wait for s.
Conclude(s) ==
    \/ \E v \in Terminal : Finish(s, v)
    \/ \E S \in SUBSET Subs : s \in S /\ GiveUp(S)
    \/ Remove(s) /\ status[s] \in Unfinished

Next ==
    \/ \E s \in Subs :
         \/ Create(s)
         \/ Begin(s)
         \/ Remove(s)
         \/ \E v \in Terminal : Finish(s, v)
    \/ \E S \in SUBSET Subs : GiveUp(S)

SafeSpec == Init /\ [][Next]_status

Spec == SafeSpec /\ \A s \in Subs : WF_status(Conclude(s))
=============================================================================
