--------------------------- MODULE JudgeRunProofs ---------------------------
(***************************************************************************)
(* What holds of a judge run for every number of cases, every sample set    *)
(* and every combination of faults.                                        *)
(***************************************************************************)
EXTENDS JudgeRun, FiniteSetTheorems, WellFoundedInduction, TLAPS

-----------------------------------------------------------------------------
(* The invariant *)

Quiet == control = <<>> /\ replies = <<>> /\ task = 0

\* No reply is there: at most the beginning of a line.
Silent == replies \in {<<>>, <<Partial>>}

Idle == control = <<>> /\ task = 0 /\ Silent

Answered == {"ok", "runtime_error", "time_limit_exceeded", "garbled", "unreadable", "bad_value", "probe_error"}

\* What the reply in the pipe says is what the submission did on the case at hand.
Fits(reply) ==
    /\ reply.status \in Answered
    /\ reply.actual \in {0, at}
    /\ reply.status = "ok" => answered[at] = (IF reply.actual = at THEN "right" ELSE "wrong")
    /\ reply.status # "ok" => answered[at] = "failed"
    /\ reply.status = "probe_error" => payload.validator
    /\ reply.status = "unreadable" => reply = Unreadable

\* Of a case there is one thing at a time: its number in the control pipe, the child that runs it,
\* or its reply.
OneAtATime ==
    /\ at \in Cases /\ child \in {"alive", "dead"}
    /\ control = <<>> \/ control = <<at>>
    /\ control # <<>> => Silent /\ task = 0
    /\ task # 0 => task = at /\ Silent /\ child = "alive"
    /\ Silent => answered[at] \in {"not run", "running", "failed"}
    /\ ~Silent => replies = <<replies[1]>> /\ Fits(replies[1])

SettingUp ==
    /\ at <= payload.cases /\ control = <<>> /\ task = 0
    /\ child # "none" /\ (child = "boot" => Silent)
    /\ ~Silent => \E st \in {"ok", "user_error", "garbled", "unreadable"} :
                      replies = <<[status |-> st, actual |-> 0]>>

InStep ==
    /\ parent = "start" => at = 0 /\ rows = <<>>
    /\ parent \in {"start", "exit"} => child = "none" /\ Quiet
    /\ parent \in {"next", "report"} => child # "boot" /\ Idle
    /\ parent = "ack" => SettingUp
    /\ parent = "read" => OneAtATime

\* Row i is about case i, and the rows stop before the case at hand.
InPlace ==
    /\ \A i \in DOMAIN rows : rows[i].id = i
    /\ at > 0 => Len(rows) = at - 1
    /\ at = 0 /\ rows # <<>> =>
         /\ parent \in {"report", "exit"} /\ Len(rows) = 1
         /\ rows[1].status \in {"runtime_error", "judge_error"}
         /\ rows[1].status = "judge_error" => payload.validator

Untouched ==
    \A c \in Cases :
        c > at \/ (c = at /\ (parent \in {"next", "ack", "report"} \/ out # {})) => answered[c] = "not run"

\* What a row may say of its case.
Tells(i, st) ==
    /\ st = "passed" => answered[i] = "right"
    /\ st = "wrong_answer" => answered[i] = "wrong"
    /\ st = "judge_error" => payload.validator
    /\ answered[i] = "right" /\ ~payload.validator => st = "passed"

RowsTell == \A i \in DOMAIN rows : Tells(i, rows[i].status)

Complete ==
    parent = "report" \/ out # {} =>
        /\ rows # <<>>
        /\ Len(rows) = payload.cases \/ rows[Len(rows)].status # "passed"
        /\ at > 0 /\ ~payload.stop => Len(rows) = payload.cases

Boxed == (out # {} => parent = "exit") /\ (box # "up" => parent = "exit")

\* The verdict is what Collect makes of a container that is over.
Concluded ==
    \/ verdict = NoVerdict /\ stored = <<>>
    \/ /\ box # "up"
       /\ \E truncated, code137 \in BOOLEAN : \E stdout \in {out, {}} :
            /\ truncated => May("flood") /\ out # {}
            /\ code137 = (box = "oom") \/ box = "killed"
            /\ IF truncated THEN stdout = {} ELSE stdout = out \/ box = "killed"
            /\ verdict = Aggregate(
                  [timed_out |-> box = "killed", oom_killed |-> code137,
                   stdout_truncated |-> truncated],
                  ParseHarnessOutput(stdout, Ids), payload.cases)
       /\ stored = BuildVerdictResults(verdict.results, payload.samples)

RunInv ==
    /\ TypeOK /\ InStep /\ InPlace /\ Untouched /\ RowsTell /\ Complete /\ Boxed /\ Concluded

LEMMA PayloadFacts ==
    ASSUME payload \in Payloads
    PROVE  /\ payload.cases \in Nat /\ payload.cases > 0
           /\ payload.validator \in BOOLEAN /\ payload.stop \in BOOLEAN
  <1>1. PICK n \in 1..MaxCases :
           payload \in [cases : {n}, samples : SUBSET (1..n) \ {{}}, validator : BOOLEAN, stop : BOOLEAN]
    BY DEF Payloads
  <1>2. payload.cases = n /\ payload.validator \in BOOLEAN /\ payload.stop \in BOOLEAN
    BY <1>1
  <1> QED
    BY <1>1, <1>2, RunAssumption

LEMMA Numbers ==
    ASSUME TypeOK
    PROVE  /\ payload.cases \in Nat /\ payload.cases > 0 /\ Cases = 1..payload.cases
           /\ at \in 0..payload.cases + 1 /\ at \in Nat /\ 0 \in 0..payload.cases
  <1>1. payload.cases \in Nat /\ payload.cases > 0
    BY PayloadFacts DEF TypeOK
  <1>2. at \in 0..payload.cases + 1
    BY DEF TypeOK
  <1> QED
    BY <1>1, <1>2 DEF Cases

\* The beginning of a line is told from every whole one.
LEMMA Marks ==
    /\ Partial.status = "partial" /\ Partial.actual = 0
    /\ \A r : r.status # "partial" => <<r>> # <<Partial>> /\ <<r>> # <<>>
    /\ <<Partial>> # <<>> /\ Head(<<Partial>>) = Partial /\ Crash.status = "crash" /\ Hang.status = "hang"
    /\ Garbled.status = "garbled" /\ Garbled.actual = 0
    /\ Unreadable.status = "unreadable" /\ Unreadable.actual = 0
    /\ Crash # Hang /\ Crash # Unreadable /\ Hang # Unreadable
  <1>1. /\ Partial.status = "partial" /\ Partial.actual = 0 /\ Crash.status = "crash" /\ Hang.status = "hang"
        /\ Garbled.status = "garbled" /\ Garbled.actual = 0
        /\ Unreadable.status = "unreadable" /\ Unreadable.actual = 0
    BY DEF Partial, Crash, Hang, Garbled, Unreadable
  <1>2. Crash # Hang /\ Crash # Unreadable /\ Hang # Unreadable
    BY <1>1
  <1>3. ASSUME NEW r, r.status # "partial" PROVE <<r>> # <<Partial>> /\ <<r>> # <<>>
    <2>1. r # Partial
      BY <1>1, <1>3
    <2>2. <<r>>[1] = r /\ <<Partial>>[1] = Partial
      OBVIOUS
    <2>3. <<r>> # <<>>
      OBVIOUS
    <2> QED
      BY <2>1, <2>2, <2>3
  <1>4. <<Partial>> # <<>> /\ Head(<<Partial>>) = Partial
    OBVIOUS
  <1> QED
    BY <1>1, <1>2, <1>3, <1>4

\* What comes from a pipe without a reply is a death or a deadline, and no line that has begun
\* meets a deadline.
LEMMA SilentIncoming ==
    ASSUME Silent, NEW reply \in Incoming
    PROVE  (reply = Crash /\ child = "dead") \/ (reply = Hang /\ replies = <<>>)
  <1>1. CASE replies = <<>>
    BY <1>1, Marks DEF Incoming
  <1>2. CASE replies = <<Partial>>
    <2>1. replies # <<>>
      BY <1>2, Marks
    <2>2. Incoming = {r \in {Crash} : child = "dead"}
      BY <1>2, <2>1 DEF Incoming
    <2>3. reply \in {r \in {Crash} : child = "dead"}
      BY <2>2
    <2>4. reply = Crash /\ child = "dead"
      BY <2>3, Zenon
    <2> QED
      BY <2>4
  <1> QED
    BY <1>1, <1>2 DEF Silent

LEMMA ReplyIncoming ==
    ASSUME ~Silent
    PROVE  Incoming = {Head(replies)}
  BY DEF Silent, Incoming

LEMMA InitRun == Init => RunInv
  <1> SUFFICES ASSUME Init PROVE RunInv
    OBVIOUS
  <1>1. payload.cases \in Nat /\ payload.cases > 0
    BY PayloadFacts DEF Init
  <1>2. TypeOK
    <2>0. rows = <<>> /\ control = <<>> /\ replies = <<>>
      BY DEF Init
    <2>1. rows \in Seq([id : Cases, status : RowStatus]) /\ control \in Seq(Cases)
      BY <2>0
    <2>3. /\ payload \in Payloads /\ parent = "start" /\ at = 0 /\ child = "none" /\ task = 0
          /\ out = {} /\ box = "up"
      BY DEF Init
    <2>4. 0 \in 0..payload.cases /\ 0 \in 0..payload.cases + 1
      BY <1>1
    <2>5. \A i \in DOMAIN replies : replies[i].actual \in 0..payload.cases
      BY <2>0
    <2>2. answered \in [Cases -> {"not run", "running", "right", "wrong", "failed"}]
      BY DEF Init
    <2> QED
      BY <2>1, <2>2, <2>3, <2>4, <2>5 DEF TypeOK
  <1>3. InStep
    BY DEF Init, InStep, Quiet
  <1>4. InPlace /\ RowsTell
    <2>0. rows = <<>> /\ at = 0
      BY DEF Init
    <2>1. DOMAIN rows = {}
      BY <2>0
    <2> QED
      BY <2>0, <2>1 DEF InPlace, RowsTell
  <1>5. Untouched
    BY DEF Init, Untouched
  <1>6. Complete /\ Boxed /\ Concluded
    BY DEF Init, Complete, Boxed, Concluded
  <1> QED
    BY <1>2, <1>3, <1>4, <1>5, <1>6 DEF RunInv

\* While the harness runs nothing has reached the worker.
LEMMA Running ==
    ASSUME RunInv, parent # "exit"
    PROVE  out = {} /\ box = "up" /\ verdict = NoVerdict /\ stored = <<>>
  BY DEF RunInv, Boxed, Concluded

\* The row of the case at hand is added, and the parent goes on or stops.
LEMMA RowAdded ==
    ASSUME RunInv, at \in Cases, parent # "exit", NEW st \in RowStatus, Tells(at, st),
           rows' = Append(rows, Row(at, st)), AfterRow(st),
           UNCHANGED <<payload, out, answered>>
    PROVE  /\ rows' \in Seq([id : Cases', status : RowStatus])
           /\ at' \in 1..payload'.cases + 1 /\ parent' \in {"next", "report"}
           /\ InPlace' /\ Untouched' /\ RowsTell' /\ Complete'
  <1>1. payload.cases \in Nat /\ payload.cases > 0 /\ at \in 1..payload.cases /\ Cases' = Cases
    BY PayloadFacts DEF RunInv, TypeOK, Cases
  <1>2. rows \in Seq([id : Cases, status : RowStatus]) /\ Row(at, st) \in [id : Cases, status : RowStatus]
    BY DEF RunInv, TypeOK, Row
  <1>3. Len(rows) = at - 1
    BY <1>1 DEF RunInv, InPlace
  <1>4. /\ rows' \in Seq([id : Cases, status : RowStatus]) /\ Len(rows') = at /\ DOMAIN rows' = 1..at
        /\ rows'[at] = Row(at, st) /\ \A i \in 1..at - 1 : rows'[i] = rows[i]
    BY <1>1, <1>2, <1>3
  <1>5. DOMAIN rows = 1..at - 1
    BY <1>1, <1>2, <1>3
  <1>6. at' = at + 1 /\ parent' \in {"next", "report"} /\ (parent' = "report" => st # "passed" /\ payload.stop)
    BY DEF AfterRow
  <1>7. out = {} /\ out' = {}
    BY Running
  <1>8. InPlace'
    BY <1>1, <1>3, <1>4, <1>5, <1>6 DEF RunInv, InPlace, Row
  <1>9. Untouched'
    <2>1. ASSUME NEW c \in Cases, c > at PROVE answered[c] = "not run"
      BY <2>1 DEF RunInv, Untouched
    <2>2. \A c \in Cases : c > at' \/ c = at' => c > at
      BY <1>1, <1>6 DEF Cases
    <2> QED
      BY <1>1, <2>1, <2>2 DEF Untouched
  <1>10. RowsTell'
    BY <1>1, <1>4, <1>5 DEF RunInv, RowsTell, Tells, Row
  <1>11. Complete'
    BY <1>1, <1>4, <1>6, <1>7 DEF Complete, Row
  <1> QED
    BY <1>1, <1>4, <1>6, <1>8, <1>9, <1>10, <1>11

\* A step of the parent that adds no row and writes no report.
LEMMA NoRow ==
    ASSUME RunInv, parent \notin {"start", "exit", "report"}, parent' \in {"next", "ack", "read", "exit"},
           parent' \in {"next", "ack"} => parent # "read",
           rows # <<>> => at > 0,
           at' = at \/ (at = 0 /\ at' = 1 /\ rows = <<>>),
           UNCHANGED <<payload, rows, out, answered>>
    PROVE  InPlace' /\ Untouched' /\ RowsTell' /\ Complete'
  <1>1. payload.cases \in Nat /\ payload.cases > 0 /\ at \in 0..payload.cases + 1 /\ out = {}
    BY PayloadFacts, Running DEF RunInv, TypeOK
  <1>2. InPlace'
    BY <1>1 DEF RunInv, InPlace
  <1>3. Untouched'
    <2>1. \A c \in Cases : c > at \/ (c = at /\ parent \in {"next", "ack"}) => answered[c] = "not run"
      BY DEF RunInv, Untouched
    <2>2. Cases' = Cases /\ Cases \subseteq Nat
      BY <1>1 DEF Cases
    <2>3. parent' \in {"next", "ack"} => parent \in {"next", "ack"}
      BY DEF RunInv, TypeOK
    <2>4. \A c \in Cases : c > at' \/ (c = at' /\ parent' \in {"next", "ack"}) =>
                              c > at \/ (c = at /\ parent \in {"next", "ack"})
      BY <1>1, <2>2, <2>3
    <2> QED
      BY <1>1, <2>1, <2>2, <2>4 DEF Untouched
  <1>4. RowsTell' /\ Complete'
    BY <1>1 DEF RunInv, RowsTell, Tells, Complete
  <1> QED
    BY <1>2, <1>3, <1>4

\* A step of the parent leaves the container alone.
LEMMA StillUp ==
    ASSUME RunInv, parent # "exit", UNCHANGED <<box, verdict, stored>>, out' # {} => parent' = "exit"
    PROVE  Boxed' /\ Concluded'
  BY Running DEF Boxed, Concluded, NoVerdict

-----------------------------------------------------------------------------
(* The parent's steps *)

\* What TypeOK says of the variables that each step changes in its own way.
LEMMA TypeKept ==
    ASSUME TypeOK, UNCHANGED payload, answered' \in [Cases' -> {"not run", "running", "right", "wrong", "failed"}],
           parent' \in {"start", "next", "ack", "read", "report", "exit"},
           at' \in 0..payload'.cases + 1, child' \in {"none", "boot", "alive", "dead"},
           task' \in 0..payload'.cases, control' \in Seq(Cases'),
           \A i \in DOMAIN replies' : replies'[i].actual \in 0..payload'.cases,
           rows' \in Seq([id : Cases', status : RowStatus]), out' \subseteq {rows'},
           box' \in {"up", "exited", "killed", "oom"}
    PROVE  TypeOK'
  BY DEF TypeOK

LEMMA KilledType ==
    ASSUME TypeOK, KillChild, UNCHANGED payload
    PROVE  /\ child' \in {"none", "boot", "alive", "dead"} /\ task' \in 0..payload'.cases
           /\ control' \in Seq(Cases') /\ \A i \in DOMAIN replies' : replies'[i].actual \in 0..payload'.cases
  <1>1. child' = "none" /\ task' = 0 /\ control' = <<>> /\ replies' = <<>>
    BY DEF KillChild
  <1>2. DOMAIN replies' = {} /\ control' \in Seq(Cases')
    BY <1>1
  <1>3. payload.cases \in Nat /\ payload' = payload
    BY PayloadFacts DEF TypeOK
  <1> QED
    BY <1>1, <1>2, <1>3

LEMMA KilledKeepsType ==
    ASSUME TypeOK, KillChild, UNCHANGED <<payload, answered, out, box>>, out = {},
           rows' \in Seq([id : Cases', status : RowStatus]),
           at' \in 1..payload'.cases + 1, parent' \in {"next", "report"}
    PROVE  TypeOK'
  <1>1. at' \in 0..payload'.cases + 1 /\ out' \subseteq {rows'}
    BY Numbers
  <1>2. answered' \in [Cases' -> {"not run", "running", "right", "wrong", "failed"}]
    BY DEF TypeOK, Cases
  <1>3. box' \in {"up", "exited", "killed", "oom"}
    BY DEF TypeOK
  <1> QED
    BY <1>1, <1>2, <1>3, KilledType, TypeKept

LEMMA LoadValidatorKeeps == ASSUME RunInv, LoadValidator PROVE RunInv'
  <1>1. /\ parent = "start" /\ at = 0 /\ rows = <<>> /\ child = "none" /\ Quiet /\ at' = 0
        /\ UNCHANGED <<payload, child, task, control, replies, out, answered, box, verdict, stored>>
        /\ out = {} /\ box = "up"
    BY Running DEF RunInv, LoadValidator, InStep, KeepChild
  <1>2. payload.cases \in Nat /\ payload.cases > 0
    BY PayloadFacts DEF RunInv, TypeOK
  <1>3. Boxed' /\ Concluded'
    BY <1>1, StillUp
  <1>6. Untouched' /\ answered[1] = "not run"
    <2>1. \A c \in Cases : c > at => answered[c] = "not run"
      BY DEF RunInv, Untouched
    <2>2. Cases' = Cases /\ 1 \in Cases /\ (\A c \in Cases : c > 0)
      BY <1>1, <1>2 DEF Cases
    <2> QED
      BY <1>1, <2>1, <2>2 DEF Untouched
  <1>7. \A i \in DOMAIN rows : FALSE
    BY <1>1
  <1>4. CASE parent' = "next" /\ rows' = rows
    <2>1. TypeOK'
      BY <1>1, <1>4 DEF RunInv, TypeOK, Cases
    <2>2. InStep'
      BY <1>1, <1>4 DEF InStep, Quiet, Idle, Silent
    <2>3. InPlace' /\ RowsTell' /\ Complete'
      BY <1>1, <1>4, <1>7 DEF InPlace, RowsTell, Complete
    <2> QED
      BY <1>3, <1>6, <2>1, <2>2, <2>3 DEF RunInv
  <1>5. CASE payload.validator /\ parent' = "report" /\ rows' = <<Row(1, "judge_error")>>
    <2>1. /\ rows' \in Seq([id : Cases, status : RowStatus]) /\ Len(rows') = 1 /\ DOMAIN rows' = {1}
          /\ rows'[1].id = 1 /\ rows'[1].status = "judge_error"
      BY <1>2, <1>5 DEF Row, RowStatus, Cases
    <2>2. TypeOK'
      BY <1>1, <1>5, <2>1 DEF RunInv, TypeOK, Cases
    <2>3. InStep' /\ InPlace'
      BY <1>1, <1>5, <2>1 DEF InStep, Quiet, Idle, Silent, InPlace
    <2>4. Tells(1, "judge_error")'
      BY <1>1, <1>5, <1>6 DEF Tells
    <2>5. RowsTell'
      BY <2>1, <2>4 DEF RowsTell
    <2>6. Complete'
      <3>1. rows' # <<>> /\ at' = 0
        BY <1>1, <1>5
      <3>2. rows'[Len(rows')].status # "passed"
        BY <2>1
      <3> QED
        BY <3>1, <3>2 DEF Complete
    <2> QED
      BY <1>3, <1>6, <2>2, <2>3, <2>5, <2>6 DEF RunInv
  <1> QED
    BY <1>4, <1>5 DEF LoadValidator

LEMMA SpawnChildKeeps == ASSUME RunInv, SpawnChild PROVE RunInv'
  <1>1. /\ parent = "next" /\ at <= payload.cases /\ Idle /\ child' = "boot" /\ parent' = "ack"
        /\ UNCHANGED <<payload, at, task, control, replies, rows, out, answered, box, verdict, stored>>
        /\ out = {} /\ box = "up"
    BY Running DEF RunInv, SpawnChild, InStep
  <1>2. Boxed' /\ Concluded'
    BY <1>1, StillUp
  <1>3. InPlace' /\ Untouched' /\ RowsTell' /\ Complete'
    <2>1. rows # <<>> => at > 0
      <3>1. at \in 0..payload.cases + 1 /\ payload.cases \in Nat
        BY PayloadFacts DEF RunInv, TypeOK
      <3>2. at = 0 => rows = <<>>
        BY <1>1 DEF RunInv, InPlace
      <3> QED
        BY <3>1, <3>2
    <2> QED
      BY <1>1, <2>1, NoRow
  <1>4. TypeOK'
    BY <1>1 DEF RunInv, TypeOK, Cases
  <1>5. InStep'
    BY <1>1 DEF InStep, Idle, Silent, SettingUp
  <1> QED
    BY <1>2, <1>3, <1>4, <1>5 DEF RunInv

LEMMA SendCaseKeeps == ASSUME RunInv, SendCase PROVE RunInv'
  <1>1. /\ parent = "next" /\ at \in Cases /\ Idle
        /\ UNCHANGED <<payload, at, rows, out, answered, box, verdict, stored>>
        /\ out = {} /\ box = "up" /\ parent' \in {"read", "exit"}
    BY Running DEF RunInv, SendCase, InStep
  <1>2. Boxed' /\ Concluded'
    BY <1>1, StillUp
  <1>3. InPlace' /\ Untouched' /\ RowsTell' /\ Complete'
    <2>1. at > 0
      BY <1>1 DEF Cases
    <2> QED
      BY <1>1, <2>1, NoRow
  <1>4. CASE child = "alive" /\ control' = Append(control, at) /\ parent' = "read" /\ UNCHANGED <<child, task, replies>>
    <2>1. control' = <<at>> /\ control' \in Seq(Cases')
      BY <1>1, <1>4 DEF Idle, Cases
    <2>2. TypeOK'
      BY <1>1, <1>4, <2>1 DEF RunInv, TypeOK, Cases
    <2>3. answered[at] = "not run"
      BY <1>1 DEF RunInv, Untouched
    <2>6. Silent' /\ task' = 0
      BY <1>1, <1>4 DEF Idle, Silent
    <2>4. OneAtATime'
      BY <1>1, <1>4, <2>1, <2>3, <2>6 DEF OneAtATime, Cases
    <2>5. InStep'
      BY <1>4, <2>4 DEF InStep
    <2> QED
      BY <1>2, <1>3, <2>2, <2>5 DEF RunInv
  <1>5. CASE KillChild /\ parent' = "exit"
    <2>1. TypeOK'
      <3>1. TypeOK
        BY DEF RunInv
      <3>2. at' \in 0..payload'.cases + 1 /\ out' \subseteq {rows'} /\ Cases' = Cases
        BY <1>1, <3>1 DEF TypeOK, Cases
      <3> QED
        BY <1>1, <1>5, <3>1, <3>2, KilledType, TypeKept DEF TypeOK
    <2>2. InStep'
      BY <1>5 DEF InStep, Quiet, KillChild
    <2> QED
      BY <1>2, <1>3, <2>1, <2>2 DEF RunInv
  <1> QED
    BY <1>4, <1>5 DEF SendCase

\* The case at hand gets its row without an answer: the child could not be started.
LEMMA BlamedKeeps ==
    ASSUME RunInv, parent = "ack", KillChild,
           UNCHANGED <<payload, out, answered, box, verdict, stored>>,
           \/ at = 0 /\ at' = 0 /\ rows' = <<Row(1, "runtime_error")>> /\ parent' = "report"
           \/ at > 0 /\ rows' = Append(rows, Row(at, "runtime_error")) /\ AfterRow("runtime_error")
    PROVE  RunInv'
  <1>1. TypeOK /\ out = {} /\ payload.cases \in Nat /\ payload.cases > 0 /\ at <= payload.cases
    BY Running, PayloadFacts DEF RunInv, TypeOK, InStep, SettingUp
  <1>2. Boxed' /\ Concluded'
    BY <1>1, StillUp
  <1>3. child' = "none" /\ Idle'
    BY DEF KillChild, Idle, Silent
  <1>4. CASE at = 0 /\ at' = 0 /\ rows' = <<Row(1, "runtime_error")>> /\ parent' = "report"
    <2>1. /\ rows' \in Seq([id : Cases', status : RowStatus]) /\ Len(rows') = 1 /\ DOMAIN rows' = {1}
          /\ rows'[1].id = 1 /\ rows'[1].status = "runtime_error" /\ rows' # <<>>
      BY <1>1, <1>4 DEF Row, RowStatus, CaseFailures, Cases
    <2>2. TypeOK'
      BY <1>1, <1>4, <2>1, KilledType, TypeKept DEF TypeOK, Cases
    <2>3. InStep' /\ InPlace'
      BY <1>3, <1>4, <2>1 DEF InStep, InPlace
    <2>4. Untouched' /\ answered[1] = "not run"
      <3>1. \A c \in Cases : c > at => answered[c] = "not run"
        BY DEF RunInv, Untouched
      <3>2. Cases' = Cases /\ 1 \in Cases /\ (\A c \in Cases : c > 0)
        BY <1>1 DEF Cases
      <3> QED
        BY <1>4, <3>1, <3>2 DEF Untouched
    <2>5. RowsTell'
      BY <2>1, <2>4 DEF RowsTell, Tells
    <2>6. Complete'
      <3>1. rows' # <<>> /\ rows'[Len(rows')].status # "passed" /\ at' = 0
        BY <1>4, <2>1
      <3> QED
        BY <3>1 DEF Complete
    <2> QED
      BY <1>2, <2>2, <2>3, <2>4, <2>5, <2>6 DEF RunInv
  <1>5. CASE at > 0 /\ rows' = Append(rows, Row(at, "runtime_error")) /\ AfterRow("runtime_error")
    <2>1. at \in Cases
      BY <1>1, <1>5, Numbers
    <2>2. answered[at] = "not run"
      BY <2>1 DEF RunInv, Untouched
    <2>3. "runtime_error" \in RowStatus /\ Tells(at, "runtime_error")
      BY <2>2 DEF RowStatus, CaseFailures, Tells
    <2>4. /\ rows' \in Seq([id : Cases', status : RowStatus])
          /\ at' \in 1..payload'.cases + 1 /\ parent' \in {"next", "report"}
          /\ InPlace' /\ Untouched' /\ RowsTell' /\ Complete'
      BY <1>5, <2>1, <2>3, RowAdded
    <2>5. TypeOK'
      BY <1>1, <2>4, KilledKeepsType
    <2>6. InStep'
      BY <1>3, <2>4 DEF InStep
    <2> QED
      BY <1>2, <2>4, <2>5, <2>6 DEF RunInv
  <1> QED
    BY <1>4, <1>5

LEMMA ReadAckKeeps == ASSUME RunInv, ReadAck PROVE RunInv'
  <1>1. parent = "ack" /\ SettingUp /\ UNCHANGED <<payload, out, answered, box, verdict, stored>>
    BY DEF RunInv, ReadAck, InStep
  <1>2. ASSUME StartFailed PROVE RunInv'
    <2>1. at \in 0..payload.cases + 1 /\ payload.cases \in Nat
      BY PayloadFacts DEF RunInv, TypeOK
    <2> QED
      BY <1>1, <1>2, <2>1, BlamedKeeps DEF StartFailed
  <1>4. ASSUME parent' = "exit", KillChild, UNCHANGED <<at, rows>> PROVE RunInv'
    <2>1. TypeOK /\ out = {} /\ Boxed' /\ Concluded'
      BY <1>1, Running, StillUp DEF RunInv
    <2>2. rows # <<>> => at > 0
      <3>1. at \in Nat
        BY <2>1, Numbers
      <3> QED
        BY <1>1, <3>1 DEF RunInv, InPlace
    <2>3. InPlace' /\ Untouched' /\ RowsTell' /\ Complete'
      BY <1>1, <1>4, <2>2, NoRow
    <2>4. TypeOK'
      <3>1. at' \in 0..payload'.cases + 1 /\ out' \subseteq {rows'} /\ Cases' = Cases
        BY <1>1, <1>4, <2>1 DEF TypeOK, Cases
      <3> QED
        BY <1>1, <1>4, <2>1, <3>1, KilledType, TypeKept DEF TypeOK
    <2>5. InStep'
      BY <1>4 DEF InStep, Quiet, KillChild
    <2> QED
      BY <2>1, <2>3, <2>4, <2>5 DEF RunInv
  <1>3. ASSUME replies # <<>>, Head(replies).status = "ok", replies' = Tail(replies),
               at' = (IF at = 0 THEN 1 ELSE at), parent' = "next",
               UNCHANGED <<child, task, control, rows>>
        PROVE  RunInv'
    <2>1. replies' = <<>> /\ control = <<>> /\ task = 0 /\ child # "boot"
      <3>3. ~Silent
        BY <1>3, Marks DEF Silent
      <3>1. PICK st \in {"ok", "user_error", "garbled", "unreadable"} : replies = <<[status |-> st, actual |-> 0]>>
        BY <1>1, <3>3 DEF SettingUp
      <3>2. replies' = <<>>
        BY <1>3, <3>1
      <3> QED
        BY <1>1, <1>3, <3>2, <3>3 DEF SettingUp
    <2>2. out = {} /\ payload.cases \in Nat /\ payload.cases > 0 /\ at \in 0..payload.cases
      <3>1. out = {} /\ TypeOK
        BY <1>1, Running DEF RunInv
      <3>2. at <= payload.cases
        BY <1>1 DEF SettingUp
      <3> QED
        BY <3>1, <3>2, Numbers
    <2>3. at = 0 => rows = <<>>
      BY <1>1 DEF RunInv, InPlace
    <2>4. Boxed' /\ Concluded'
      BY <1>1, <2>2, StillUp
    <2>5. InPlace' /\ Untouched' /\ RowsTell' /\ Complete'
      BY <1>1, <1>3, <2>2, <2>3, NoRow
    <2>6. TypeOK'
      <3>1. DOMAIN replies' = {}
        BY <2>1
      <3>2. at' \in 0..payload'.cases + 1
        BY <1>1, <1>3, <2>2
      <3> QED
        BY <1>1, <1>3, <3>1, <3>2, TypeKept DEF RunInv, TypeOK, Cases
    <2>7. InStep'
      BY <1>3, <2>1 DEF InStep, Idle, Silent
    <2> QED
      BY <2>4, <2>5, <2>6, <2>7 DEF RunInv
  <1> QED
    BY <1>2, <1>3, <1>4 DEF ReadAck

\* What the parent may be given, and the rows it makes of it.
LEMMA FinalizeTells ==
    ASSUME RunInv, parent = "read", NEW reply \in Incoming, NEW st \in Finalize(at, reply)
    PROVE  st \in RowStatus /\ Tells(at, st)
  <1>1. OneAtATime
    BY DEF RunInv, InStep
  <1>2. CASE Silent
    <2>1. reply \in {Crash, Hang} /\ answered[at] \in {"not run", "running", "failed"}
      BY <1>1, <1>2, SilentIncoming DEF OneAtATime
    <2>2. st \in {"runtime_error", "time_limit_exceeded"}
      <3>1. CASE reply = Crash
        BY <3>1 DEF Finalize, Crash
      <3>2. CASE reply = Hang
        BY <3>2 DEF Finalize, Hang
      <3> QED
        BY <2>1, <3>1, <3>2
    <2> QED
      BY <2>1, <2>2 DEF RowStatus, CaseFailures, Tells
  <1>3. CASE ~Silent
    <2>1. reply = replies[1] /\ Fits(reply)
      <3>1. reply = Head(replies)
        BY <1>3, ReplyIncoming
      <3>2. replies = <<replies[1]>> /\ Fits(replies[1])
        BY <1>1, <1>3 DEF OneAtATime
      <3>3. Head(<<replies[1]>>) = replies[1]
        OBVIOUS
      <3> QED
        BY <3>1, <3>2, <3>3
    <2>2. CASE reply.status # "ok"
      <3>1. answered[at] = "failed"
        BY <2>1, <2>2 DEF Fits
      <3>2. st \in {"runtime_error", "time_limit_exceeded", "judge_error"}
        BY <2>1, <2>2 DEF Fits, Answered, Finalize
      <3>3. st = "judge_error" => payload.validator
        BY <2>1, <2>2 DEF Fits, Answered, Finalize
      <3> QED
        BY <3>1, <3>2, <3>3 DEF RowStatus, CaseFailures, Tells
    <2>3. CASE reply.status = "ok"
      <3>1. \/ st = (IF reply.actual = at THEN "passed" ELSE "wrong_answer")
            \/ st \in {"time_limit_exceeded", "judge_error"} /\ payload.validator
        BY <2>3 DEF Finalize
      <3>2. answered[at] = (IF reply.actual = at THEN "right" ELSE "wrong")
        BY <2>1, <2>3 DEF Fits
      <3> QED
        BY <3>1, <3>2 DEF RowStatus, CaseFailures, Tells
    <2> QED
      BY <2>2, <2>3
  <1> QED
    BY <1>2, <1>3

LEMMA ReadReplyKeeps == ASSUME RunInv, ReadReply PROVE RunInv'
  <1>1. /\ parent = "read" /\ OneAtATime /\ at \in Cases /\ TypeOK
        /\ UNCHANGED <<payload, out, answered, box, verdict, stored>>
    <2>1. parent = "read" /\ UNCHANGED <<payload, out, answered, box, verdict, stored>>
      BY DEF ReadReply
    <2>2. OneAtATime /\ TypeOK
      BY <2>1 DEF RunInv, InStep
    <2> QED
      BY <2>1, <2>2 DEF OneAtATime
  <1>2. PICK reply \in Incoming :
           /\ \E st \in Finalize(at, reply) : rows' = Append(rows, Row(at, st)) /\ AfterRow(st)
           /\ IF Undone(reply) THEN KillChild
              ELSE /\ replies' = IF replies = <<>> THEN <<>> ELSE Tail(replies)
                   /\ UNCHANGED <<child, task, control>>
    BY DEF ReadReply
  <1>8. PICK st \in Finalize(at, reply) : rows' = Append(rows, Row(at, st)) /\ AfterRow(st)
    BY <1>2
  <1>3. /\ rows' \in Seq([id : Cases', status : RowStatus])
        /\ at' \in 1..payload'.cases + 1 /\ parent' \in {"next", "report"}
        /\ InPlace' /\ Untouched' /\ RowsTell' /\ Complete'
    <2>1. st \in RowStatus /\ Tells(at, st)
      BY <1>1, FinalizeTells
    <2> QED
      BY <1>1, <1>8, <2>1, RowAdded
  <1>4. out = {} /\ Boxed' /\ Concluded'
    BY <1>1, Running, StillUp
  <1>5. /\ payload.cases \in Nat /\ at' \in 0..payload'.cases + 1 /\ Cases' = Cases
        /\ 0 \in 0..payload'.cases
    BY <1>1, <1>3, Numbers DEF Cases
  <1>6. CASE Undone(reply)
    <2>1. TypeOK'
      BY <1>1, <1>2, <1>3, <1>4, <1>6, KilledKeepsType
    <2>2. InStep'
      BY <1>2, <1>3, <1>6 DEF InStep, KillChild, Idle, Silent
    <2> QED
      BY <1>3, <1>4, <2>1, <2>2 DEF RunInv
  <1>7. CASE ~Undone(reply)
    <2>1. ~Silent /\ replies # <<>>
      <3>1. reply # Crash /\ reply # Hang
        BY <1>7, Marks DEF Undone
      <3> QED
        BY <3>1, SilentIncoming DEF Silent
    <2>2. replies' = <<>> /\ control' = <<>> /\ task' = 0 /\ child' = child /\ child' # "boot"
      <3>1. replies' = Tail(replies) /\ UNCHANGED <<child, task, control>>
        BY <1>2, <1>7, <2>1
      <3>2. replies = <<replies[1]>> /\ control = <<>> /\ task = 0 /\ child # "boot"
        BY <1>1, <2>1 DEF OneAtATime
      <3>3. Tail(<<replies[1]>>) = <<>>
        OBVIOUS
      <3> QED
        BY <3>1, <3>2, <3>3
    <2>3. TypeOK'
      <3>1. DOMAIN replies' = {} /\ control' \in Seq(Cases')
        BY <2>2
      <3>2. task' \in 0..payload'.cases /\ child' \in {"none", "boot", "alive", "dead"}
        <4>1. child \in {"none", "boot", "alive", "dead"}
          BY <1>1 DEF TypeOK
        <4> QED
          BY <1>5, <2>2, <4>1
      <3> QED
        BY <1>1, <1>3, <1>4, <1>5, <3>1, <3>2, TypeKept DEF TypeOK
    <2>4. InStep'
      BY <1>3, <2>2 DEF InStep, Idle, Silent
    <2> QED
      BY <1>3, <1>4, <2>3, <2>4 DEF RunInv
  <1> QED
    BY <1>6, <1>7

LEMMA ReadRaisesKeeps == ASSUME RunInv, ReadRaises PROVE RunInv'
  <1>1. /\ parent = "read" /\ parent' = "exit" /\ KillChild /\ TypeOK /\ at \in Cases
        /\ UNCHANGED <<payload, at, rows, out, answered, box, verdict, stored>>
    BY DEF RunInv, ReadRaises, InStep, OneAtATime
  <1>2. Boxed' /\ Concluded'
    BY <1>1, StillUp
  <1>3. InPlace' /\ Untouched' /\ RowsTell' /\ Complete'
    <2>1. at > 0
      BY <1>1, Numbers
    <2> QED
      BY <1>1, <2>1, NoRow
  <1>4. TypeOK'
    <2>1. at' \in 0..payload'.cases + 1 /\ out' \subseteq {rows'} /\ Cases' = Cases
      BY <1>1 DEF TypeOK, Cases
    <2> QED
      BY <1>1, <2>1, KilledType, TypeKept DEF TypeOK
  <1>5. InStep'
    BY <1>1 DEF InStep, Quiet, KillChild
  <1> QED
    BY <1>2, <1>3, <1>4, <1>5 DEF RunInv

LEMMA WriteReportKeeps == ASSUME RunInv, WriteReport PROVE RunInv'
  <1>1. /\ parent \in {"next", "report"} /\ (parent = "next" => at > payload.cases) /\ KillChild
        /\ out' = {rows} /\ parent' = "exit" /\ TypeOK
        /\ UNCHANGED <<payload, at, rows, answered, box, verdict, stored>>
    BY DEF RunInv, WriteReport
  <1>2. payload.cases \in Nat /\ payload.cases > 0 /\ at \in 0..payload.cases + 1 /\ Cases' = Cases
    BY <1>1, PayloadFacts DEF TypeOK, Cases
  <1>3. TypeOK'
    BY <1>1, <1>2, KilledType, TypeKept DEF TypeOK
  <1>4. InStep'
    BY <1>1 DEF InStep, KillChild, Quiet
  <1>5. InPlace' /\ RowsTell'
    <2>1. at = 0 /\ rows # <<>> => parent = "report"
      BY <1>1 DEF RunInv, InPlace
    <2> QED
      BY <1>1, <2>1 DEF RunInv, InPlace, RowsTell, Tells
  <1>6. Untouched'
    <2>1. \A c \in Cases : c > at \/ c = at => answered[c] = "not run"
      BY <1>1 DEF RunInv, Untouched
    <2> QED
      BY <1>1, <1>2, <2>1 DEF Untouched
  <1>7. Complete'
    <2>1. CASE parent = "report"
      BY <1>1, <2>1 DEF RunInv, Complete
    <2>2. CASE parent = "next"
      <3>1. at = payload.cases + 1 /\ Len(rows) = payload.cases
        BY <1>1, <1>2, <2>2 DEF RunInv, InPlace
      <3>2. rows # <<>>
        BY <1>2, <3>1
      <3> QED
        BY <1>1, <3>1, <3>2 DEF Complete
    <2> QED
      BY <1>1, <2>1, <2>2
  <1>8. Boxed' /\ Concluded'
    BY <1>1, StillUp
  <1> QED
    BY <1>3, <1>4, <1>5, <1>6, <1>7, <1>8 DEF RunInv

-----------------------------------------------------------------------------
(* The child's steps *)

Answers == {"not run", "running", "right", "wrong", "failed"}

\* The child writes nothing but its replies, and answers only the case at hand.
LEMMA ChildFrame ==
    ASSUME RunInv, child \in {"boot", "alive"},
           UNCHANGED <<payload, parent, at, rows, out, box, verdict, stored>>,
           \/ answered' = answered
           \/ parent = "read" /\ \E a \in Answers : answered' = [answered EXCEPT ![at] = a]
    PROVE  /\ parent \notin {"start", "exit"}
           /\ answered' \in [Cases' -> Answers]
           /\ InPlace' /\ Untouched' /\ RowsTell' /\ Complete' /\ Boxed' /\ Concluded'
  <1>1. parent \notin {"start", "exit"} /\ out = {} /\ box = "up"
    BY Running DEF RunInv, InStep
  <1>2. Boxed' /\ Concluded'
    BY <1>1, StillUp
  <1>3. InPlace' /\ Complete'
    BY DEF RunInv, InPlace, Complete
  <1>4. answered \in [Cases -> Answers] /\ Cases' = Cases
    BY DEF RunInv, TypeOK, Answers, Cases
  <1>5. CASE answered' = answered
    BY <1>1, <1>2, <1>3, <1>4, <1>5 DEF RunInv, Untouched, RowsTell, Tells
  <1>6. CASE parent = "read" /\ \E a \in Answers : answered' = [answered EXCEPT ![at] = a]
    <2>1. /\ at \in 1..payload.cases /\ at > 0 /\ Len(rows) = at - 1 /\ payload.cases \in Nat
          /\ at \in Cases /\ Cases = 1..payload.cases
      <3>1. at \in Cases /\ TypeOK
        BY <1>6 DEF RunInv, InStep, OneAtATime
      <3>2. payload.cases \in Nat /\ Cases = 1..payload.cases
        BY <3>1, Numbers
      <3>3. at > 0
        BY <3>1, <3>2
      <3>4. Len(rows) = at - 1
        BY <3>3 DEF RunInv, InPlace
      <3> QED
        BY <3>1, <3>2, <3>3, <3>4
    <2>2. answered' \in [Cases' -> Answers]
      BY <1>4, <1>6
    <2>3. \A c \in Cases : c # at => answered'[c] = answered[c]
      BY <1>4, <1>6
    <2>4. Untouched'
      <3>1. \A c \in Cases : c > at => answered[c] = "not run" /\ c # at
        <4>1. \A c \in Cases : c > at => answered[c] = "not run"
          BY DEF RunInv, Untouched
        <4>2. \A c \in Cases : c > at => c # at
          BY <2>1
        <4> QED
          BY <4>1, <4>2
      <3> QED
        BY <1>1, <1>4, <1>6, <2>3, <3>1 DEF Untouched
    <2>5. RowsTell'
      <3>1. DOMAIN rows = 1..at - 1
        <4>1. rows \in Seq([id : Cases, status : RowStatus])
          BY DEF RunInv, TypeOK
        <4> QED
          BY <2>1, <4>1
      <3>2. \A i \in 1..at - 1 : i \in Cases /\ i # at
        BY <2>1
      <3>3. \A i \in DOMAIN rows : answered'[i] = answered[i]
        BY <2>3, <3>1, <3>2
      <3> QED
        BY <3>3 DEF RunInv, RowsTell, Tells
    <2> QED
      BY <1>1, <1>2, <1>3, <2>2, <2>4, <2>5
  <1> QED
    BY <1>5, <1>6

LEMMA ChildSetupKeeps == ASSUME RunInv, ChildSetup PROVE RunInv'
  <1>1. /\ child = "boot" /\ child' \in {"alive", "dead"}
        /\ \E st \in {"ok", "user_error", "unreadable"} : Emit([status |-> st, actual |-> 0])
        /\ UNCHANGED <<payload, parent, at, task, control, rows, out, answered, box, verdict, stored>>
    BY DEF ChildSetup, Unreadable
  <1>2. /\ InPlace' /\ Untouched' /\ RowsTell' /\ Complete' /\ Boxed' /\ Concluded'
        /\ parent \notin {"start", "exit"}
    BY <1>1, ChildFrame
  <1>3. parent = "ack" /\ SettingUp /\ Silent
    BY <1>1, <1>2 DEF RunInv, InStep, TypeOK, OneAtATime, SettingUp
  <1>4. PICK st \in {"ok", "user_error", "garbled", "unreadable"} : replies' = <<[status |-> st, actual |-> 0]>>
    <2>1. PICK st \in {"ok", "user_error", "unreadable"} : Emit([status |-> st, actual |-> 0])
      BY <1>1
    <2>2. CASE replies = <<Partial>>
      BY <2>1, <2>2 DEF Emit, Garbled
    <2>3. CASE replies = <<>>
      <3>1. replies' = Append(<<>>, [status |-> st, actual |-> 0])
        BY <2>1, <2>3, Marks DEF Emit
      <3>2. Append(<<>>, [status |-> st, actual |-> 0]) = <<[status |-> st, actual |-> 0]>>
        OBVIOUS
      <3> QED
        BY <3>1, <3>2
    <2> QED
      BY <1>3, <2>2, <2>3 DEF Silent
  <1>5. TypeOK'
    <2>1. \A i \in DOMAIN replies' : replies'[i].actual = 0
      BY <1>4
    <2>2. TypeOK /\ 0 \in 0..payload'.cases
      BY <1>1, Numbers DEF RunInv
    <2>3. \A i \in DOMAIN replies' : replies'[i].actual \in 0..payload'.cases
      BY <2>1, <2>2
    <2> QED
      BY <1>1, <2>2, <2>3, TypeKept DEF TypeOK, Cases
  <1>6. InStep'
    BY <1>1, <1>3, <1>4 DEF InStep, SettingUp
  <1> QED
    BY <1>2, <1>5, <1>6 DEF RunInv

LEMMA BeginLineKeeps == ASSUME RunInv, BeginLine PROVE RunInv'
  <1>1. /\ child \in {"boot", "alive"} /\ replies = <<>> /\ replies' = <<Partial>>
        /\ UNCHANGED <<payload, parent, at, child, task, control, rows, out, answered, box, verdict, stored>>
    BY DEF BeginLine
  <1>2. /\ InPlace' /\ Untouched' /\ RowsTell' /\ Complete' /\ Boxed' /\ Concluded'
        /\ parent \notin {"start", "exit"} /\ answered' \in [Cases' -> Answers]
    BY <1>1, ChildFrame
  <1>3. TypeOK'
    <2>1. \A i \in DOMAIN replies' : replies'[i].actual = 0
      BY <1>1, Marks
    <2>2. TypeOK /\ 0 \in 0..payload'.cases
      BY <1>1, Numbers DEF RunInv
    <2>3. \A i \in DOMAIN replies' : replies'[i].actual \in 0..payload'.cases
      BY <2>1, <2>2
    <2> QED
      BY <1>1, <2>2, <2>3, TypeKept DEF TypeOK, Cases
  <1>4. Silent /\ Silent'
    BY <1>1 DEF Silent
  <1>5. InStep'
    <2>1. CASE parent = "read"
      <3>1. OneAtATime'
        BY <1>1, <1>4, <2>1 DEF RunInv, InStep, OneAtATime, Cases
      <3> QED
        BY <1>1, <2>1, <3>1 DEF InStep
    <2>2. CASE parent = "ack"
      <3>1. SettingUp'
        BY <1>1, <1>4, <2>2 DEF RunInv, InStep, SettingUp
      <3> QED
        BY <1>1, <2>2, <3>1 DEF InStep
    <2>3. CASE parent \in {"next", "report"}
      BY <1>1, <1>4, <2>3 DEF RunInv, InStep, Idle
    <2> QED
      BY <1>2, <2>1, <2>2, <2>3 DEF RunInv, TypeOK
  <1> QED
    BY <1>2, <1>3, <1>5 DEF RunInv

LEMMA TakeCaseKeeps == ASSUME RunInv, TakeCase PROVE RunInv'
  <1>1. /\ child = "alive" /\ task = 0 /\ control # <<>> /\ task' = Head(control) /\ control' = Tail(control)
        /\ answered' = [answered EXCEPT ![task'] = "running"]
        /\ UNCHANGED <<payload, parent, at, child, replies, rows, out, box, verdict, stored>>
    BY DEF TakeCase
  <1>2. parent = "read" /\ OneAtATime
    BY <1>1 DEF RunInv, TypeOK, InStep, Quiet, Idle, SettingUp
  <1>3. control = <<at>> /\ task' = at /\ control' = <<>> /\ Silent /\ Silent' /\ at \in Cases
    <2>1. control = <<at>> /\ Silent /\ Silent' /\ at \in Cases
      BY <1>1, <1>2 DEF OneAtATime, Silent
    <2>2. Head(<<at>>) = at /\ Tail(<<at>>) = <<>>
      OBVIOUS
    <2> QED
      BY <1>1, <2>1, <2>2
  <1>4. /\ InPlace' /\ Untouched' /\ RowsTell' /\ Complete' /\ Boxed' /\ Concluded'
        /\ answered' \in [Cases' -> Answers]
    BY <1>1, <1>2, <1>3, ChildFrame DEF Answers
  <1>5. TypeOK'
    <2>1. control' \in Seq(Cases')
      BY <1>3
    <2>2. task' \in 0..payload'.cases
      BY <1>1, <1>3, Numbers DEF RunInv
    <2> QED
      BY <1>1, <1>4, <2>1, <2>2, TypeKept DEF RunInv, TypeOK, Cases, Answers
  <1>6. InStep'
    <2>1. answered'[at] = "running"
      BY <1>1, <1>3 DEF RunInv, TypeOK
    <2>2. OneAtATime'
      BY <1>1, <1>3, <2>1 DEF OneAtATime, Cases
    <2> QED
      BY <1>1, <1>2, <2>2 DEF InStep
  <1> QED
    BY <1>4, <1>5, <1>6 DEF RunInv

LEMMA ExecuteCaseKeeps == ASSUME RunInv, ExecuteCase PROVE RunInv'
  <1>1. /\ child = "alive" /\ task # 0 /\ task' = 0
        /\ UNCHANGED <<payload, parent, at, child, control, rows, out, box, verdict, stored>>
    BY DEF ExecuteCase
  <1>2. parent = "read" /\ OneAtATime
    BY <1>1 DEF RunInv, TypeOK, InStep, Quiet, Idle, SettingUp
  <1>3. task = at /\ Silent /\ control = <<>> /\ at \in Cases /\ at \in 1..payload.cases
    <2>1. task = at /\ Silent /\ control = <<>> /\ at \in Cases
      BY <1>1, <1>2 DEF OneAtATime
    <2> QED
      BY <2>1 DEF Cases
  <1>9. ASSUME NEW r, Emit(r) PROVE replies' = IF replies = <<>> THEN <<r>> ELSE <<Garbled>>
    <2>1. Append(<<>>, r) = <<r>>
      OBVIOUS
    <2> QED
      BY <1>3, <1>9, <2>1, Marks DEF Emit, Silent
  <1>10. Garbled \in [status : Answered, actual : {0, at}] /\ Garbled.status = "garbled" /\ "failed" \in Answers
    BY DEF Garbled, Answered, Answers
  <1>4. PICK reply \in [status : Answered, actual : {0, at}], a \in Answers :
           /\ replies' = <<reply>> /\ answered' = [answered EXCEPT ![at] = a]
           /\ reply.status = "ok" => a = (IF reply.actual = at THEN "right" ELSE "wrong")
           /\ reply.status # "ok" => a = "failed"
           /\ reply.status = "probe_error" => payload.validator
           /\ reply.status = "unreadable" => reply = Unreadable
    <2>1. CASE \E v \in {0, task} :
                 /\ replies # <<Partial>>
                 /\ Emit([status |-> "ok", actual |-> v])
                 /\ answered' = [answered EXCEPT ![task] = IF v = task THEN "right" ELSE "wrong"]
      <3>1. PICK v \in {0, at} :
               /\ replies' = <<[status |-> "ok", actual |-> v]>>
               /\ answered' = [answered EXCEPT ![at] = IF v = at THEN "right" ELSE "wrong"]
        <4>1. PICK v \in {0, at} :
                 /\ Emit([status |-> "ok", actual |-> v])
                 /\ answered' = [answered EXCEPT ![at] = IF v = at THEN "right" ELSE "wrong"]
          BY <1>3, <2>1
        <4>2. replies = <<>>
          BY <1>3, <2>1 DEF Silent
        <4> QED
          BY <1>9, <4>1, <4>2
      <3> DEFINE reply == [status |-> "ok", actual |-> v]
                 a == IF v = at THEN "right" ELSE "wrong"
      <3>2. /\ a \in Answers /\ reply.status = "ok" /\ reply.actual = v
            /\ reply \in [status : Answered, actual : {0, at}]
        BY DEF Answers, Answered
      <3> QED
        BY <3>1, <3>2
    <2>2. ASSUME NEW fault \in {"case_error", "overrun", "garbled", "unreadable", "bad_value", "probe_error"},
                 fault = "probe_error" => payload.validator,
                 answered' = [answered EXCEPT ![task] = "failed"],
                 LET st == CASE fault = "case_error" -> "runtime_error"
                             [] fault = "overrun"    -> "time_limit_exceeded"
                             [] OTHER                -> fault
                 IN  Emit([status |-> st, actual |-> 0])
          PROVE  \E reply \in [status : Answered, actual : {0, at}], a \in Answers :
                    /\ replies' = <<reply>> /\ answered' = [answered EXCEPT ![at] = a]
                    /\ reply.status = "ok" => a = (IF reply.actual = at THEN "right" ELSE "wrong")
                    /\ reply.status # "ok" => a = "failed"
                    /\ reply.status = "probe_error" => payload.validator
                    /\ reply.status = "unreadable" => reply = Unreadable
      <3> DEFINE st == CASE fault = "case_error" -> "runtime_error"
                         [] fault = "overrun"    -> "time_limit_exceeded"
                         [] OTHER                -> fault
                 reply == [status |-> st, actual |-> 0]
      <3>1. /\ st \in Answered \ {"ok"}
            /\ st = "probe_error" => payload.validator
        BY <2>2 DEF Answered
      <3>2. replies' \in {<<reply>>, <<Garbled>>} /\ answered' = [answered EXCEPT ![at] = "failed"]
        <4>1. Emit(reply)
          BY <2>2
        <4> HIDE DEF reply
        <4> QED
          BY <1>3, <1>9, <2>2, <4>1
      <3>3. reply.status = st /\ reply.actual = 0 /\ (st = "unreadable" => reply = Unreadable)
        BY DEF Unreadable
      <3> HIDE DEF st
      <3>4. reply \in [status : Answered, actual : {0, at}]
        BY <3>1
      <3>5. CASE replies' = <<reply>>
        BY <1>10, <3>1, <3>2, <3>3, <3>4, <3>5
      <3>6. CASE replies' = <<Garbled>>
        BY <1>10, <3>2, <3>6
      <3> QED
        BY <3>2, <3>5, <3>6
    <2>3. CASE Emit(Garbled) /\ answered' = [answered EXCEPT ![task] = "failed"]
      <3>1. replies' = <<Garbled>>
        BY <1>9, <2>3
      <3> QED
        BY <1>3, <1>10, <2>3, <3>1
    <2> QED
      BY <2>1, <2>2, <2>3 DEF ExecuteCase
  <1>5. /\ InPlace' /\ Untouched' /\ RowsTell' /\ Complete' /\ Boxed' /\ Concluded'
        /\ answered' \in [Cases' -> Answers]
    BY <1>1, <1>2, <1>4, ChildFrame
  <1>6. replies'[1] = reply /\ DOMAIN replies' = {1} /\ ~Silent'
    <2>1. reply.status # "partial"
      BY DEF Answered
    <2>2. replies' # <<>> /\ replies' # <<Partial>>
      BY <1>4, <2>1, Marks
    <2> QED
      BY <1>4, <2>2 DEF Silent
  <1>7. TypeOK'
    <2>2. 0 \in 0..payload'.cases /\ at \in 0..payload'.cases
      BY <1>1, <1>3, Numbers DEF RunInv
    <2>1. \A i \in DOMAIN replies' : replies'[i].actual \in 0..payload'.cases
      BY <1>6, <2>2
    <2> QED
      BY <1>1, <1>5, <2>1, <2>2, TypeKept DEF RunInv, TypeOK, Cases, Answers
  <1>8. InStep'
    <2>1. answered'[at] = a
      BY <1>3, <1>4 DEF RunInv, TypeOK
    <2>2. Fits(reply)'
      <3>1. reply.status \in Answered /\ reply.actual \in {0, at}
        OBVIOUS
      <3> QED
        BY <1>1, <1>4, <2>1, <3>1 DEF Fits
    <2>4. Fits(replies[1])'
      BY <1>6, <2>2 DEF Fits
    <2>5. replies' = <<replies'[1]>>
      BY <1>4, <1>6
    <2>3. OneAtATime'
      <3>1. at' \in Cases' /\ child' \in {"alive", "dead"} /\ control' = <<>> /\ task' = 0
        BY <1>1, <1>3 DEF Cases
      <3> QED
        BY <1>6, <2>4, <2>5, <3>1 DEF OneAtATime
    <2> QED
      BY <1>1, <1>2, <2>3 DEF InStep
  <1> QED
    BY <1>5, <1>7, <1>8 DEF RunInv

LEMMA ChildDiesKeeps == ASSUME RunInv, ChildDies PROVE RunInv'
  <1>1. /\ child \in {"boot", "alive"} /\ child' = "dead" /\ task' = 0
        /\ answered' = (IF task = 0 THEN answered ELSE [answered EXCEPT ![task] = "failed"])
        /\ UNCHANGED <<payload, parent, at, control, replies, rows, out, box, verdict, stored>>
    BY DEF ChildDies
  <1>2. task # 0 => parent = "read" /\ task = at
    BY DEF RunInv, TypeOK, InStep, Quiet, Idle, SettingUp, OneAtATime
  <1>3. /\ InPlace' /\ Untouched' /\ RowsTell' /\ Complete' /\ Boxed' /\ Concluded'
        /\ answered' \in [Cases' -> Answers] /\ parent \notin {"start", "exit"}
    BY <1>1, <1>2, ChildFrame DEF Answers
  <1>4. TypeOK'
    <2>1. 0 \in 0..payload'.cases
      BY <1>1, Numbers DEF RunInv
    <2> QED
      BY <1>1, <1>3, <2>1, TypeKept DEF RunInv, TypeOK, Cases, Answers
  <1>5. InStep'
    <2>1. CASE parent = "read"
      <3>1. OneAtATime
        BY <2>1 DEF RunInv, InStep
      <3>2. Silent => answered'[at] \in {"not run", "running", "failed"}
        BY <1>1, <3>1 DEF OneAtATime, RunInv, TypeOK
      <3>3. ~Silent => answered' = answered /\ Fits(replies[1])
        BY <1>1, <3>1 DEF OneAtATime
      <3>4. ~Silent => Fits(replies[1])'
        BY <1>1, <3>3 DEF Fits
      <3>6. Silent' = Silent
        BY <1>1 DEF Silent
      <3>5. OneAtATime'
        BY <1>1, <3>1, <3>2, <3>4, <3>6 DEF OneAtATime, Cases
      <3> QED
        BY <1>1, <2>1, <3>5 DEF InStep
    <2>2. CASE parent = "ack"
      BY <1>1, <2>2 DEF RunInv, InStep, SettingUp, Silent
    <2>3. CASE parent \in {"next", "report"}
      BY <1>1, <2>3 DEF RunInv, InStep, Idle, Silent
    <2> QED
      BY <1>3, <2>1, <2>2, <2>3 DEF RunInv, TypeOK
  <1> QED
    BY <1>3, <1>4, <1>5 DEF RunInv

-----------------------------------------------------------------------------
(* The container's and the worker's steps *)

LEMMA ExitKeeps == ASSUME RunInv, Exit PROVE RunInv'
  <1>1. /\ box = "up" /\ parent = "exit" /\ box' = "exited"
        /\ UNCHANGED <<payload, parent, at, child, task, control, replies, rows, out, answered, verdict, stored>>
    BY DEF Exit, harnessVars
  <1>2. TypeOK' /\ InStep' /\ Boxed'
    <2>1. TypeOK'
      BY <1>1 DEF RunInv, TypeOK, Cases
    <2>2. InStep' /\ Boxed'
      BY <1>1 DEF RunInv, InStep, Quiet, Boxed
    <2> QED
      BY <2>1, <2>2
  <1>3. InPlace' /\ Untouched' /\ RowsTell' /\ Complete'
    BY <1>1 DEF RunInv, InPlace, Untouched, RowsTell, Tells, Complete, Cases
  <1>4. Concluded'
    BY <1>1 DEF RunInv, Concluded, NoVerdict
  <1> QED
    BY <1>2, <1>3, <1>4 DEF RunInv

LEMMA KillKeeps == ASSUME RunInv, Kill PROVE RunInv'
  <1>1. /\ box = "up" /\ box' \in {"killed", "oom"} /\ KillChild /\ parent' = "exit" /\ TypeOK
        /\ UNCHANGED <<payload, at, rows, out, answered, verdict, stored>>
    BY DEF Kill, RunInv
  <1>2. TypeOK'
    <2>1. Cases' = Cases /\ answered' \in [Cases' -> {"not run", "running", "right", "wrong", "failed"}]
      BY <1>1 DEF TypeOK, Cases
    <2>2. at' \in 0..payload'.cases + 1 /\ rows' \in Seq([id : Cases', status : RowStatus]) /\ out' \subseteq {rows'}
      BY <1>1, <2>1 DEF TypeOK
    <2> QED
      BY <1>1, <2>1, <2>2, KilledType, TypeKept
  <1>3. InStep' /\ Boxed'
    BY <1>1 DEF InStep, Boxed, KillChild, Quiet
  <1>4. InPlace' /\ RowsTell'
    BY <1>1 DEF RunInv, InPlace, RowsTell, Tells
  <1>5. Untouched' /\ Complete'
    BY <1>1 DEF RunInv, Untouched, Complete, Cases
  <1>6. Concluded'
    BY <1>1 DEF RunInv, Concluded, NoVerdict
  <1> QED
    BY <1>2, <1>3, <1>4, <1>5, <1>6 DEF RunInv

LEMMA StillInStep ==
    ASSUME InStep, UNCHANGED <<payload, parent, at, child, task, control, replies, rows, answered>>
    PROVE  InStep'
  <1>1. (Quiet' <=> Quiet) /\ (Idle' <=> Idle) /\ (Silent' <=> Silent)
    BY DEF Quiet, Idle, Silent
  <1>2. SettingUp => SettingUp'
    BY <1>1 DEF SettingUp
  <1>3. OneAtATime => OneAtATime'
    <2>1. Cases' = Cases
      BY DEF Cases
    <2>2. ASSUME NEW reply, Fits(reply) PROVE Fits(reply)'
      BY <2>2 DEF Fits
    <2> QED
      BY <1>1, <2>1, <2>2 DEF OneAtATime
  <1> QED
    BY <1>1, <1>2, <1>3 DEF InStep

LEMMA CollectKeeps == ASSUME RunInv, Collect PROVE RunInv'
  <1>1. /\ box # "up"
        /\ UNCHANGED <<payload, parent, at, child, task, control, replies, rows, out, answered, box>>
    BY DEF Collect, harnessVars
  <1>2. TypeOK'
    BY <1>1 DEF RunInv, TypeOK, Cases
  <1>3. InStep'
    BY <1>1, StillInStep DEF RunInv
  <1>4. InPlace' /\ Untouched' /\ Boxed'
    BY <1>1 DEF RunInv, InPlace, Untouched, Boxed, Cases
  <1>5. Complete'
    BY <1>1 DEF RunInv, Complete, Cases
  <1>6. RowsTell'
    BY <1>1 DEF RunInv, RowsTell, Tells, Cases
  <1>7. Concluded'
    BY <1>1 DEF Collect, Concluded, Ids, Cases
  <1> QED
    BY <1>2, <1>3, <1>4, <1>5, <1>6, <1>7 DEF RunInv

LEMMA StepKeeps == RunInv /\ [Next]_vars => RunInv'
  <1> SUFFICES ASSUME RunInv, [Next]_vars PROVE RunInv'
    OBVIOUS
  <1>1. CASE Parent
    BY <1>1, LoadValidatorKeeps, SpawnChildKeeps, ReadAckKeeps, SendCaseKeeps, ReadReplyKeeps, ReadRaisesKeeps,
       WriteReportKeeps DEF Parent
  <1>2. CASE Child
    BY <1>2, ChildSetupKeeps, TakeCaseKeeps, BeginLineKeeps, ExecuteCaseKeeps, ChildDiesKeeps DEF Child
  <1>3. CASE Worker
    BY <1>3, ExitKeeps, KillKeeps, CollectKeeps DEF Worker
  <1>4. CASE UNCHANGED vars
    <2>1. UNCHANGED <<payload, parent, at, child, task, control, replies, rows, out, answered, box, verdict, stored>>
      BY <1>4 DEF vars, harnessVars
    <2>2. TypeOK' /\ InPlace' /\ Untouched' /\ Boxed'
      BY <2>1 DEF RunInv, TypeOK, InPlace, Untouched, Boxed, Cases
    <2>3. InStep'
      BY <2>1, StillInStep DEF RunInv
    <2>4. Concluded'
      <3>1. Concluded /\ Ids' = Ids
        BY <2>1 DEF RunInv, Ids, Cases
      <3> QED
        BY <2>1, <3>1 DEF Concluded, NoVerdict
    <2>5. Complete'
      BY <2>1 DEF RunInv, Complete, Cases
    <2>6. RowsTell'
      BY <2>1 DEF RunInv, RowsTell, Tells, Cases
    <2> QED
      BY <2>2, <2>3, <2>4, <2>5, <2>6 DEF RunInv
  <1> QED
    BY <1>1, <1>2, <1>3, <1>4 DEF Next, Done

LEMMA RunInvAlways == Spec => []RunInv
  BY InitRun, StepKeeps, PTL DEF Spec

-----------------------------------------------------------------------------
(* What follows from the invariant *)

\* Every variable keeps its type: the parent never looks past the last case, a row names a case,
\* and what has reached stdout is nothing or the whole report.
THEOREM TypeCorrect == Spec => []TypeOK
  <1>1. RunInv => TypeOK
    BY DEF RunInv
  <1> QED
    BY <1>1, RunInvAlways, PTL

\* Whatever the child does and whenever it is killed, no row is told by another case's answer.
THEOREM RowsTellTheirCase == Spec => []RowsMatchAnswers
  <1>1. RunInv => RowsMatchAnswers
    <2> SUFFICES ASSUME RunInv, NEW i \in DOMAIN rows
                 PROVE  /\ rows[i].status = "passed" => answered[rows[i].id] = "right"
                        /\ rows[i].status = "wrong_answer" => answered[rows[i].id] = "wrong"
      BY DEF RowsMatchAnswers
    <2>1. rows[i].id = i
      BY DEF RunInv, InPlace
    <2>2. Tells(i, rows[i].status)
      BY DEF RunInv, RowsTell
    <2> QED
      BY <2>1, <2>2 DEF Tells
  <1> QED
    BY <1>1, RunInvAlways, PTL

\* A submission that loads gets a row for every case of a run-all payload, whatever it does.
THEOREM RunAllIsWhole == Spec => []EveryCaseReported
  <1>1. RunInv => EveryCaseReported
    <2> SUFFICES ASSUME RunInv, NEW report \in out, at > 0, ~payload.stop
                 PROVE  Len(report) = payload.cases
      BY DEF EveryCaseReported
    <2>1. report = rows /\ out # {}
      BY DEF RunInv, TypeOK
    <2> QED
      BY <2>1 DEF RunInv, Complete
  <1> QED
    BY <1>1, RunInvAlways, PTL

\* The verdict's rows are none or the parent's own.
LEMMA VerdictRows ==
    ASSUME RunInv
    PROVE  /\ verdict.results \in {<<>>, rows}
           /\ stored = <<>> \/ stored = BuildVerdictResults(verdict.results, payload.samples)
  <1>1. CASE verdict = NoVerdict /\ stored = <<>>
    BY <1>1 DEF NoVerdict
  <1>2. ASSUME ~(verdict = NoVerdict /\ stored = <<>>)
        PROVE  /\ verdict.results \in {<<>>, rows}
               /\ stored = BuildVerdictResults(verdict.results, payload.samples)
    <2>1. PICK truncated \in BOOLEAN, code137 \in BOOLEAN, stdout \in {out, {}} :
             verdict = Aggregate([timed_out |-> box = "killed", oom_killed |-> code137,
                                  stdout_truncated |-> truncated],
                                 ParseHarnessOutput(stdout, Ids), payload.cases)
      BY <1>2 DEF RunInv, Concluded
    <2>2. stdout \subseteq {rows}
      BY DEF RunInv, TypeOK
    <2> DEFINE parsed == ParseHarnessOutput(stdout, Ids)
               picked == IF parsed = {} THEN <<>> ELSE CHOOSE r \in parsed : TRUE
    <2>3. parsed \subseteq {rows}
      BY <2>2 DEF ParseHarnessOutput
    <2>4. picked \in {<<>>, rows}
      BY <2>3
    <2>5. verdict.results \in {<<>>, picked}
      BY <2>1 DEF Aggregate
    <2> QED
      BY <1>2, <2>4, <2>5 DEF RunInv, Concluded
  <1> QED
    BY <1>1, <1>2

\* At most one hidden case is shown, the first that failed, for every set of samples.
THEOREM HiddenCasesStayHidden == Spec => []OneHiddenCaseShown
  <1>1. RunInv => OneHiddenCaseShown
    <2> SUFFICES ASSUME RunInv, NEW i \in DOMAIN stored, NEW j \in DOMAIN stored,
                        stored[i].detail = "revealed", stored[j].detail # "full",
                        stored[j].status # "passed", j < i \/ stored[j].detail = "revealed"
                 PROVE  i = j
      BY DEF OneHiddenCaseShown
    <2> DEFINE res == verdict.results
    <2>1. stored = BuildVerdictResults(res, payload.samples) /\ res \in {<<>>, rows}
      <3>1. DOMAIN <<>> = {}
        OBVIOUS
      <3> QED
        BY <3>1, VerdictRows
    <2>2. i \in DOMAIN res /\ j \in DOMAIN res
      BY <2>1 DEF BuildVerdictResults
    <2>3. \A k \in DOMAIN res : stored[k].status = res[k].status
            /\ (stored[k].detail = "revealed" => IsFirstFailure(res, k))
      BY <2>1 DEF BuildVerdictResults, Revealed
    <2>4. DOMAIN res \subseteq Nat /\ \A k \in DOMAIN res : k \in Nat /\ k >= 1
      <3>1. DOMAIN rows \subseteq Nat /\ \A k \in DOMAIN rows : k >= 1
        <4>1. rows \in Seq([id : Cases, status : RowStatus])
          BY DEF RunInv, TypeOK
        <4>2. DOMAIN rows = 1..Len(rows) /\ Len(rows) \in Nat
          BY <4>1
        <4> QED
          BY <4>2
      <3>2. DOMAIN <<>> = {}
        OBVIOUS
      <3> QED
        BY <2>1, <3>1, <3>2
    <2>5. IsFirstFailure(res, i) /\ res[j].status # "passed"
      BY <2>2, <2>3
    <2>6. ~(j < i)
      BY <2>2, <2>4, <2>5 DEF IsFirstFailure
    <2>7. IsFirstFailure(res, j)
      BY <2>2, <2>3, <2>6
    <2>8. ~(i < j)
      BY <2>2, <2>4, <2>5, <2>7 DEF IsFirstFailure
    <2> QED
      BY <2>2, <2>4, <2>6, <2>8
  <1> QED
    BY <1>1, RunInvAlways, PTL

\* A submission is accepted only when it answered every case right: no crash, kill, truncated or
\* missing report makes up for a case.
THEOREM AcceptedOnlyIfEarned == Spec => []AcceptedIsEarned
  <1>1. RunInv => AcceptedIsEarned
    <2> SUFFICES ASSUME RunInv, verdict.status = "accepted", NEW c \in Cases
                 PROVE  answered[c] = "right"
      BY DEF AcceptedIsEarned
    <2>1. PICK truncated \in BOOLEAN, code137 \in BOOLEAN, stdout \in {out, {}} :
             verdict = Aggregate([timed_out |-> box = "killed", oom_killed |-> code137,
                                  stdout_truncated |-> truncated],
                                 ParseHarnessOutput(stdout, Ids), payload.cases)
      <3>1. verdict # NoVerdict
        BY DEF NoVerdict
      <3> QED
        BY <3>1 DEF RunInv, Concluded
    <2> DEFINE parsed == ParseHarnessOutput(stdout, Ids)
               picked == IF parsed = {} THEN <<>> ELSE CHOOSE r \in parsed : TRUE
    <2>2. parsed # {} /\ CaseVerdict(picked) = "accepted"
      BY <2>1 DEF Aggregate
    <2>3. parsed \subseteq {rows}
      BY DEF RunInv, TypeOK, ParseHarnessOutput
    <2>4. picked = rows /\ AccountsFor(rows, Ids)
      BY <2>2, <2>3 DEF ParseHarnessOutput
    <2>5. Passing(rows) = DOMAIN rows
      <3>1. CaseVerdict(rows) = "accepted"
        BY <2>2, <2>4
      <3> QED
        BY <3>1 DEF CaseVerdict, CaseFailures
    <2>6. payload.cases \in Nat /\ payload.cases > 0 /\ Cases = 1..payload.cases
      BY Numbers DEF RunInv
    <2>7. Len(Ids) = payload.cases /\ Ids # <<>>
      <3>1. Ids \in Seq(Cases) /\ Len(Ids) = payload.cases
        BY <2>6 DEF Ids
      <3> QED
        BY <2>6, <3>1
    <2>8. rows \in Seq([id : Cases, status : RowStatus])
      BY DEF RunInv, TypeOK
    <2>9. Len(rows) = payload.cases
      <3>1. Len(rows) \in 1..payload.cases /\ (Len(rows) = payload.cases \/ rows[Len(rows)].status # "passed")
        BY <2>4, <2>7 DEF AccountsFor
      <3>2. Len(rows) \in DOMAIN rows
        BY <2>6, <2>8, <3>1
      <3> QED
        BY <2>5, <3>1, <3>2 DEF Passing
    <2>10. c \in DOMAIN rows /\ rows[c].status = "passed"
      BY <2>5, <2>6, <2>8, <2>9 DEF Passing
    <2> QED
      BY <2>10 DEF RunInv, RowsTell, Tells
  <1> QED
    BY <1>1, RunInvAlways, PTL

-----------------------------------------------------------------------------
(* When no child dies between two cases, and nothing the parent reads makes it raise *)

\* A child dies only at work, where the parent is waiting for it, and every line can be read; so
\* neither a write to a dead child nor a read ends the harness without its report.
DeadInWork ==
    /\ child = "dead" =>
         \/ parent = "read" /\ Silent
         \/ parent = "ack" /\ (replies = <<>> \/ Head(replies).status # "ok")
    /\ parent = "exit" /\ box \in {"up", "exited"} => out # {}
    /\ replies # <<Unreadable>>

\* What the parent reads is the one frame in the pipe.
LEMMA AllReadable ==
    ASSUME RunInv, DeadInWork, parent \in {"ack", "read"}
    PROVE  Unreadable \notin Incoming
  <1>1. CASE Silent
    BY <1>1, SilentIncoming, Marks
  <1>2. CASE ~Silent
    <2>1. PICK r : replies = <<r>>
      BY <1>2 DEF RunInv, InStep, SettingUp, OneAtATime
    <2>2. Head(<<r>>) = r
      OBVIOUS
    <2>3. r # Unreadable
      BY <2>1 DEF DeadInWork
    <2> QED
      BY <1>2, <2>1, <2>2, <2>3, ReplyIncoming
  <1> QED
    BY <1>1, <1>2

LEMMA UnmarkedNext ==
    ASSUME RunInv', parent' \notin {"ack", "read"}
    PROVE  replies' # <<Unreadable>>
  <1>1. Silent'
    BY DEF RunInv, TypeOK, InStep, Idle, Quiet, Silent
  <1> QED
    BY <1>1, Marks DEF Silent

LEMMA ParentKeepsDead ==
    ASSUME RunInv, RunInv', DeadInWork, Parent
    PROVE  DeadInWork'
  <1>1. CASE LoadValidator
    <2>1. parent' \in {"next", "report"} /\ child' # "dead"
      BY <1>1 DEF RunInv, InStep, LoadValidator, KeepChild
    <2> QED
      BY <2>1, UnmarkedNext DEF DeadInWork
  <1>2. CASE SpawnChild
    BY <1>2 DEF DeadInWork, SpawnChild
  <1>3. CASE ReadAck
    <2>1. parent = "ack" /\ Unreadable \notin Incoming
      BY <1>3, AllReadable DEF ReadAck
    <2>2. parent' \in {"next", "report"} /\ child' # "dead"
      <3>1. CASE StartFailed
        BY <3>1 DEF StartFailed, KillChild, AfterRow
      <3>2. CASE ~StartFailed
        <4>1. parent' = "next" /\ replies # <<>> /\ Head(replies).status = "ok" /\ child' = child
          BY <1>3, <2>1, <3>2 DEF ReadAck
        <4> QED
          BY <2>1, <4>1 DEF DeadInWork
      <3> QED
        BY <3>1, <3>2
    <2> QED
      BY <2>2, UnmarkedNext DEF DeadInWork
  <1>4. CASE SendCase
    BY <1>4 DEF DeadInWork, SendCase
  <1>7. CASE ReadRaises
    <2>1. parent = "read" /\ Unreadable \in Incoming
      BY <1>7 DEF ReadRaises
    <2> QED
      BY <2>1, AllReadable
  <1>5. CASE ReadReply
    <2>1. parent = "read" /\ parent' \in {"next", "report"}
      BY <1>5 DEF ReadReply, AfterRow
    <2>2. PICK reply \in Incoming : IF Undone(reply) THEN KillChild ELSE child' = child
      BY <1>5 DEF ReadReply
    <2>3. child = "dead" => Undone(reply)
      <3>1. child = "dead" => Silent
        BY <2>1 DEF DeadInWork
      <3> QED
        BY <3>1, SilentIncoming, Marks DEF Undone
    <2>4. child' # "dead"
      BY <2>2, <2>3 DEF KillChild
    <2> QED
      BY <2>1, <2>4, UnmarkedNext DEF DeadInWork
  <1>6. CASE WriteReport
    <2>1. parent' = "exit" /\ child' = "none" /\ out' # {}
      BY <1>6 DEF WriteReport, KillChild
    <2> QED
      BY <2>1, UnmarkedNext DEF DeadInWork
  <1> QED
    BY <1>1, <1>2, <1>3, <1>4, <1>5, <1>6, <1>7 DEF Parent

\* A frame that can be read stays one on its way down the pipe.
LEMMA EmittedReadable ==
    ASSUME Silent, NEW r, r.status # "unreadable", Emit(r)
    PROVE  /\ replies' # <<Unreadable>>
           /\ r.status # "ok" => Head(replies').status # "ok"
  <1>1. Append(<<>>, r) = <<r>> /\ Head(<<r>>) = r /\ Head(<<Garbled>>) = Garbled
    OBVIOUS
  <1>2. replies' \in {<<r>>, <<Garbled>>}
    BY <1>1 DEF Silent, Emit
  <1>3. r # Unreadable /\ Garbled # Unreadable
    BY Marks
  <1>4. <<r>>[1] = r /\ <<Garbled>>[1] = Garbled /\ <<Unreadable>>[1] = Unreadable
    OBVIOUS
  <1> QED
    BY <1>1, <1>2, <1>3, <1>4, Marks

LEMMA ChildKeepsDead ==
    ASSUME "idle_crash" \notin Faults, "unreadable" \notin Faults, RunInv, DeadInWork, Child
    PROVE  DeadInWork'
  <1>1. UNCHANGED <<parent, out, box>> /\ child \in {"boot", "alive"}
    BY DEF Child, ChildSetup, TakeCase, BeginLine, ExecuteCase, ChildDies
  <1>2. parent \in {"ack", "read"} \/ (child = "alive" /\ Idle)
    <2>1. parent \in {"start", "next", "ack", "read", "report", "exit"}
      BY DEF RunInv, TypeOK
    <2> QED
      BY <1>1, <2>1 DEF RunInv, InStep
  <1>3. CASE ChildSetup
    <2>1. child = "boot"
      BY <1>3 DEF ChildSetup
    <2>2. parent = "ack" /\ Silent
      BY <1>1, <1>2, <2>1 DEF RunInv, InStep, OneAtATime, SettingUp
    <2>3. \/ child' = "alive" /\ Emit([status |-> "ok", actual |-> 0])
          \/ Emit([status |-> "user_error", actual |-> 0])
      BY <1>3 DEF ChildSetup, May
    <2>4. replies' # <<Unreadable>>
      BY <2>2, <2>3, EmittedReadable
    <2>5. child' = "alive" \/ Head(replies').status # "ok"
      BY <2>2, <2>3, EmittedReadable
    <2> QED
      BY <1>1, <2>2, <2>4, <2>5 DEF DeadInWork
  <1>4. CASE TakeCase
    BY <1>1, <1>4 DEF DeadInWork, TakeCase
  <1>6. CASE BeginLine
    <2>1. child' = child /\ replies' = <<Partial>>
      BY <1>6 DEF BeginLine
    <2>2. <<Partial>>[1] = Partial /\ <<Unreadable>>[1] = Unreadable /\ Partial # Unreadable
      BY Marks
    <2> QED
      BY <1>1, <2>1, <2>2 DEF DeadInWork
  <1>7. CASE ExecuteCase
    <2>1. task # 0 /\ child' = child
      BY <1>7 DEF ExecuteCase
    <2>2. parent = "read"
      BY <1>2, <2>1 DEF Idle, RunInv, InStep, SettingUp
    <2>3. Silent
      BY <2>1, <2>2 DEF RunInv, InStep, OneAtATime
    <2>4. \E r : r.status # "unreadable" /\ Emit(r)
      <3>1. CASE \E v \in {0, task} : Emit([status |-> "ok", actual |-> v])
        <4>1. PICK v \in {0, task} : Emit([status |-> "ok", actual |-> v])
          BY <3>1
        <4>2. [status |-> "ok", actual |-> v].status = "ok"
          OBVIOUS
        <4> QED
          BY <4>1, <4>2
      <3>2. ASSUME NEW fault \in {"case_error", "overrun", "garbled", "unreadable", "bad_value", "probe_error"},
                   May(fault),
                   LET st == CASE fault = "case_error" -> "runtime_error"
                               [] fault = "overrun"    -> "time_limit_exceeded"
                               [] OTHER                -> fault
                   IN  Emit([status |-> st, actual |-> 0])
            PROVE  \E r : r.status # "unreadable" /\ Emit(r)
        <4> DEFINE st == CASE fault = "case_error" -> "runtime_error"
                           [] fault = "overrun"    -> "time_limit_exceeded"
                           [] OTHER                -> fault
        <4>1. st # "unreadable"
          BY <3>2 DEF May
        <4>2. Emit([status |-> st, actual |-> 0])
          BY <3>2
        <4> HIDE DEF st
        <4>3. [status |-> st, actual |-> 0].status = st
          OBVIOUS
        <4> QED
          BY <4>1, <4>2, <4>3
      <3>3. CASE Emit(Garbled)
        BY <3>3, Marks
      <3> QED
        BY <1>7, <3>1, <3>2, <3>3 DEF ExecuteCase
    <2>5. replies' # <<Unreadable>>
      BY <2>3, <2>4, EmittedReadable
    <2>6. child # "dead"
      BY <1>1
    <2> QED
      BY <1>1, <2>1, <2>5, <2>6 DEF DeadInWork
  <1>5. CASE ChildDies
    <2>1. replies' = replies /\ (child = "boot" \/ ~(task = 0 /\ control = <<>>))
      BY <1>5 DEF ChildDies, May
    <2>2. CASE parent = "read"
      <3>1. Silent /\ Silent'
        BY <1>1, <2>1, <2>2 DEF RunInv, InStep, OneAtATime, Silent
      <3> QED
        BY <1>1, <2>1, <2>2, <3>1 DEF DeadInWork
    <2>3. CASE parent # "read"
      <3>1. child = "boot" /\ parent = "ack"
        BY <1>2, <2>1, <2>3 DEF RunInv, InStep, SettingUp, Idle
      <3>2. replies = <<>> \/ Head(replies).status # "ok"
        BY <3>1, Marks DEF RunInv, InStep, SettingUp, Silent
      <3> QED
        BY <1>1, <2>1, <3>1, <3>2 DEF DeadInWork
    <2> QED
      BY <2>2, <2>3
  <1> QED
    BY <1>3, <1>4, <1>5, <1>6, <1>7 DEF Child

LEMMA DeadKept ==
    ASSUME "idle_crash" \notin Faults, "unreadable" \notin Faults
    PROVE  RunInv /\ DeadInWork /\ [Next]_vars => DeadInWork'
  <1> SUFFICES ASSUME RunInv, DeadInWork, [Next]_vars PROVE DeadInWork'
    OBVIOUS
  <1>1. CASE Worker
    <2>1. CASE Exit
      BY <1>1, <2>1 DEF Exit, harnessVars, DeadInWork, Silent
    <2>2. CASE Kill
      <3>1. replies' # <<Unreadable>>
        BY <2>2, Marks DEF Kill, KillChild
      <3> QED
        BY <1>1, <2>2, <3>1 DEF Kill, KillChild, DeadInWork
    <2>3. CASE Collect
      BY <1>1, <2>3 DEF Collect, harnessVars, DeadInWork, Silent
    <2> QED
      BY <1>1, <2>1, <2>2, <2>3 DEF Worker
  <1>2. CASE UNCHANGED vars
    BY <1>2 DEF vars, harnessVars, DeadInWork, Silent
  <1>3. RunInv'
    BY StepKeeps
  <1> QED
    BY <1>1, <1>2, <1>3, ParentKeepsDead, ChildKeepsDead DEF Next, Done

LEMMA DeadAlways ==
    ASSUME "idle_crash" \notin Faults, "unreadable" \notin Faults
    PROVE  Spec => []DeadInWork
  <1>1. Init => DeadInWork
    BY Marks DEF Init, DeadInWork
  <1>2. RunInv /\ DeadInWork /\ [Next]_vars => DeadInWork'
    BY DeadKept
  <1> QED
    BY <1>1, <1>2, RunInvAlways, PTL DEF Spec

\* The ways to lose a report without a kill are a child that dies between two cases, to which the
\* parent's next write raises, and a read or a comparison that raises (bytes that are no UTF-8, an
\* integer too large for a float): barring these, a harness that exits by itself has written it.
THEOREM ReportsSurviveCrashes ==
    ASSUME "idle_crash" \notin Faults, "unreadable" \notin Faults
    PROVE  Spec => []CrashIsItsCase
  <1>1. RunInv /\ DeadInWork => CrashIsItsCase
    BY DEF RunInv, Boxed, DeadInWork, CrashIsItsCase
  <1> QED
    BY <1>1, RunInvAlways, DeadAlways, PTL

LEMMA Least ==
    ASSUME NEW T \in SUBSET Nat, T # {}
    PROVE  \E x \in T : \A y \in T : ~(y < x)
  <1> DEFINE Below == {ss \in Nat \X Nat : ss[1] < ss[2]}
  <1>1. IsWellFoundedOn(Below, Nat)
    BY NatLessThanWellFounded DEF OpToRel
  <1>2. PICK x \in T : \A y \in T : ~(<<y, x>> \in Below)
    <2> HIDE DEF Below
    <2> QED
      BY <1>1, WFMin
  <1>3. \A y \in T : <<y, x>> \in Nat \X Nat
    OBVIOUS
  <1>4. \A y \in T : <<y, x>>[1] = y /\ <<y, x>>[2] = x
    OBVIOUS
  <1> QED
    BY <1>2, <1>3, <1>4

\* The verdict of a complete report is the status of one of its rows, or acceptance.
LEMMA CaseVerdictIsARow ==
    ASSUME RunInv, CaseVerdict(rows) # "accepted"
    PROVE  \E i \in DOMAIN rows :
              /\ rows[i].status # "passed"
              /\ CaseVerdict(rows) = IF rows[i].status \in CaseFailures THEN rows[i].status ELSE "judge_error"
  <1> DEFINE failing == {i \in DOMAIN rows : rows[i].status # "passed"}
  <1>1. rows \in Seq([id : Cases, status : RowStatus])
    BY DEF RunInv, TypeOK
  <1>2. DOMAIN rows = 1..Len(rows) /\ Len(rows) \in Nat
    BY <1>1
  <1>3. failing # {} /\ failing \in SUBSET Nat /\ Passing(rows) # DOMAIN rows
    BY <1>2 DEF CaseVerdict, Passing
  <1>4. PICK first \in failing : \A j \in failing : ~(j < first)
    <2> HIDE DEF failing
    <2> QED
      BY <1>3, Least
  <1>5. IsFirstFailure(rows, first)
    <2>1. \A j \in 1..first - 1 : j \in DOMAIN rows /\ j < first
      BY <1>2
    <2> QED
      BY <1>4, <2>1 DEF IsFirstFailure
  <1> DEFINE i == CHOOSE k \in DOMAIN rows : IsFirstFailure(rows, k)
  <1>6. i \in DOMAIN rows /\ IsFirstFailure(rows, i)
    BY <1>5
  <1>7. CaseVerdict(rows) = IF rows[i].status \in CaseFailures THEN rows[i].status ELSE "judge_error"
    BY <1>3 DEF CaseVerdict
  <1> HIDE DEF i
  <1> QED
    BY <1>6, <1>7 DEF IsFirstFailure

LEMMA Element ==
    ASSUME NEW S, NEW s \in Seq(S), NEW i \in 1..Len(s)
    PROVE  s[i] \in S
  OBVIOUS

\* A row is about the case whose place it has, and tells of it.
LEMMA RowFacts ==
    ASSUME RunInv, NEW i \in DOMAIN rows
    PROVE  rows[i].id = i /\ i \in Cases /\ rows[i].status \in RowStatus /\ Tells(i, rows[i].status)
  <1>1. rows \in Seq([id : Cases, status : RowStatus])
    BY DEF RunInv, TypeOK
  <1>2. i \in 1..Len(rows)
    BY <1>1
  <1>3. rows[i] \in [id : Cases, status : RowStatus]
    BY <1>1, <1>2, Element
  <1>4. rows[i].id \in Cases /\ rows[i].status \in RowStatus
    BY <1>3
  <1>5. rows[i].id = i
    BY DEF RunInv, InPlace
  <1>6. Tells(i, rows[i].status)
    BY DEF RunInv, RowsTell
  <1> QED
    BY <1>4, <1>5, <1>6

Right == {c \in Cases : answered[c] = "right"}

\* The passed rows are about right answers, and a whole report without a validator misses none.
LEMMA PassedAreRight ==
    ASSUME RunInv
    PROVE  /\ IsFiniteSet(Right) /\ Cardinality(Right) \in Nat
           /\ Cardinality(Passing(rows)) <= Cardinality(Right)
           /\ out # {} /\ ~payload.validator => Passing(rows) = Right
  <1>1. payload.cases \in Nat /\ Cases = 1..payload.cases /\ at \in Nat
    BY Numbers DEF RunInv
  <1>2. IsFiniteSet(Cases)
    <2>1. 1 \in Int /\ payload.cases \in Int
      BY <1>1
    <2> QED
      BY <1>1, <2>1, FS_Interval
  <1>3. rows \in Seq([id : Cases, status : RowStatus])
    BY DEF RunInv, TypeOK
  <1>4. DOMAIN rows = 1..Len(rows) /\ Len(rows) \in Nat
    BY <1>3
  <1>5. Right \in SUBSET Cases
    BY DEF Right
  <1>6. IsFiniteSet(Right)
    BY <1>2, <1>5, FS_Subset
  <1>7. Passing(rows) \in SUBSET Right
    <2> SUFFICES ASSUME NEW i \in DOMAIN rows, rows[i].status = "passed" PROVE i \in Right
      BY DEF Passing
    <2>1. i \in Cases /\ Tells(i, rows[i].status)
      BY RowFacts
    <2> QED
      BY <2>1 DEF Tells, Right
  <1>8. ASSUME out # {}, ~payload.validator, NEW c \in Right PROVE c \in Passing(rows)
    <2>1. c \in Cases /\ answered[c] = "right"
      BY DEF Right
    <2>2. ~(c > at \/ c = at)
      BY <1>8, <2>1 DEF RunInv, Untouched
    <2>3. c \in 1..at - 1 /\ at > 0
      BY <1>1, <2>1, <2>2
    <2>4. c \in DOMAIN rows
      BY <1>4, <2>3 DEF RunInv, InPlace
    <2>5. Tells(c, rows[c].status)
      BY <2>4 DEF RunInv, RowsTell
    <2> QED
      BY <1>8, <2>1, <2>4, <2>5 DEF Tells, Passing
  <1>9. Cardinality(Passing(rows)) <= Cardinality(Right)
    BY <1>6, <1>7, FS_Subset
  <1>10. Cardinality(Right) \in Nat
    BY <1>6, FS_CardinalityType
  <1>11. out # {} /\ ~payload.validator => Passing(rows) = Right
    BY <1>7, <1>8
  <1> QED
    BY <1>6, <1>9, <1>10, <1>11

\* A whole report is usable: the worker finds each case accounted for.
LEMMA WholeIsUsable ==
    ASSUME RunInv, out # {}
    PROVE  AccountsFor(rows, Ids)
  <1>1. /\ payload.cases \in Nat /\ payload.cases > 0 /\ Cases = 1..payload.cases
        /\ rows \in Seq([id : Cases, status : RowStatus])
    BY Numbers DEF RunInv, TypeOK
  <1>2. rows # <<>> /\ (Len(rows) = payload.cases \/ rows[Len(rows)].status # "passed")
    BY DEF RunInv, Complete
  <1>3. Ids \in Seq(Cases) /\ Len(Ids) = payload.cases /\ \A i \in Cases : Ids[i] = i
    BY <1>1 DEF Ids
  <1>4. Ids # <<>>
    BY <1>1, <1>3
  <1>5. DOMAIN rows = 1..Len(rows) /\ Len(rows) \in Nat /\ Len(rows) >= 1
    BY <1>1, <1>2
  <1>6. \A i \in DOMAIN rows : rows[i].id = i /\ i \in Cases
    BY RowFacts
  <1>7. Len(rows) \in DOMAIN rows
    BY <1>5
  <1>8. Len(rows) \in 1..Len(Ids)
    BY <1>1, <1>3, <1>6, <1>7
  <1> QED
    BY <1>2, <1>3, <1>4, <1>6, <1>8 DEF AccountsFor

\* Every verdict blames what happened, whatever goes wrong: memory the kernel's kill, the judge the
\* problem's validator or a lost report, a wrong answer a case; and the passed count is honest.
THEOREM VerdictsAreExplained == Spec => []VerdictExplained
  <1>1. RunInv => VerdictExplained
    <2> SUFFICES ASSUME RunInv PROVE VerdictExplained
      OBVIOUS
    <2>1. /\ IsFiniteSet(Right) /\ Cardinality(Right) \in Nat
          /\ Cardinality(Passing(rows)) <= Cardinality(Right)
          /\ out # {} /\ ~payload.validator => Passing(rows) = Right
      BY PassedAreRight
    <2>2. CASE verdict = NoVerdict
      <3>1. verdict.status = "none" /\ verdict.results = <<>> /\ verdict.passed = 0 /\ ~Judged
        BY <2>2 DEF NoVerdict, Judged
      <3>2. 0 <= Cardinality(Right)
        BY <2>1
      <3> QED
        BY <3>1, <3>2 DEF VerdictExplained, Right
    <2>3. CASE verdict # NoVerdict
      <3>1. PICK truncated \in BOOLEAN, code137 \in BOOLEAN, stdout \in {out, {}} :
               /\ truncated => out # {}
               /\ code137 = (box = "oom") \/ box = "killed"
               /\ IF truncated THEN stdout = {} ELSE stdout = out \/ box = "killed"
               /\ verdict = Aggregate([timed_out |-> box = "killed", oom_killed |-> code137,
                                       stdout_truncated |-> truncated],
                                      ParseHarnessOutput(stdout, Ids), payload.cases)
        BY <2>3 DEF RunInv, Concluded
      <3> DEFINE parsed == ParseHarnessOutput(stdout, Ids)
                 picked == IF parsed = {} THEN <<>> ELSE CHOOSE r \in parsed : TRUE
      <3>2. parsed \subseteq {rows} /\ (parsed # {} => out # {})
        BY DEF RunInv, TypeOK, ParseHarnessOutput
      <3>3. picked = <<>> \/ (picked = rows /\ out # {})
        BY <3>2
      <3>4. /\ verdict.total = payload.cases
            /\ \/ verdict.results = <<>> /\ verdict.passed = 0
               \/ verdict.results = picked /\ verdict.passed = Cardinality(Passing(picked))
        BY <3>1 DEF Aggregate
      <3>5. Cardinality(Passing(<<>>)) = 0
        <4>1. DOMAIN <<>> = {}
          OBVIOUS
        <4>2. Passing(<<>>) = {}
          BY <4>1 DEF Passing
        <4> QED
          BY <4>2, FS_EmptySet
      <3>6. IF verdict.results = <<>> \/ payload.validator
              THEN verdict.passed <= Cardinality(Right) ELSE verdict.passed = Cardinality(Right)
        <4>1. CASE verdict.passed = 0 /\ verdict.results = <<>>
          BY <2>1, <4>1
        <4>2. CASE verdict.results = rows /\ out # {} /\ verdict.passed = Cardinality(Passing(rows))
          <5>1. verdict.passed <= Cardinality(Right)
            BY <2>1, <4>2
          <5>2. ~payload.validator => verdict.passed = Cardinality(Right)
            BY <2>1, <4>2
          <5> QED
            BY <5>1, <5>2
        <4> QED
          BY <3>3, <3>4, <3>5, <4>1, <4>2
      <3>7. /\ verdict.status = "memory_limit_exceeded" => box = "oom"
            /\ verdict.status = "judge_error" => payload.validator \/ (box = "exited" /\ out = {})
            /\ verdict.status = "wrong_answer" => \E c \in Cases : answered[c] = "wrong"
        <4>1. CASE box = "killed"
          <5>1. verdict.status = "time_limit_exceeded"
            BY <3>1, <4>1 DEF Aggregate
          <5> QED
            BY <5>1
        <4>2. CASE box # "killed" /\ code137
          <5>1. verdict.status = "memory_limit_exceeded" /\ box = "oom"
            BY <3>1, <4>2 DEF Aggregate
          <5> QED
            BY <5>1
        <4>3. CASE box # "killed" /\ ~code137 /\ truncated
          <5>1. verdict.status = "output_limit_exceeded"
            BY <3>1, <4>3 DEF Aggregate
          <5> QED
            BY <5>1
        <4>4. CASE box # "killed" /\ ~code137 /\ ~truncated
          <5>1. box # "oom" /\ stdout = out
            BY <3>1, <4>4
          <5>2. CASE out = {}
            <6>1. box # "up"
              BY <2>3 DEF RunInv, Concluded
            <6>2. box = "exited"
              BY <4>4, <5>1, <6>1 DEF RunInv, TypeOK
            <6>3. parsed = {}
              BY <5>1, <5>2 DEF ParseHarnessOutput
            <6>4. verdict.status = "judge_error"
              <7>1. verdict = Aggregate([timed_out |-> FALSE, oom_killed |-> FALSE,
                                         stdout_truncated |-> FALSE], {}, payload.cases)
                BY <3>1, <4>4, <6>3
              <7> QED
                BY <7>1 DEF Aggregate
            <6> QED
              BY <5>2, <6>2, <6>4
          <5> SUFFICES ASSUME out # {}
                       PROVE  /\ verdict.status = "memory_limit_exceeded" => box = "oom"
                              /\ verdict.status = "judge_error" => payload.validator \/ (box = "exited" /\ out = {})
                              /\ verdict.status = "wrong_answer" => \E c \in Cases : answered[c] = "wrong"
            BY <5>2
          <5>3. parsed = {rows}
            <6>1. out = {rows}
              BY DEF RunInv, TypeOK
            <6> QED
              BY <5>1, <6>1, WholeIsUsable DEF ParseHarnessOutput
          <5>4. verdict.status = CaseVerdict(rows)
            <6>1. picked = rows /\ parsed # {}
              BY <5>3
            <6>2. verdict = [status |-> CaseVerdict(picked), results |-> picked,
                             passed |-> Cardinality(Passing(picked)), total |-> payload.cases]
              <7>1. verdict = Aggregate([timed_out |-> FALSE, oom_killed |-> FALSE,
                                         stdout_truncated |-> FALSE], parsed, payload.cases)
                BY <3>1, <4>4
              <7> HIDE DEF parsed
              <7> QED
                BY <6>1, <7>1 DEF Aggregate
            <6>3. verdict.status = CaseVerdict(picked)
              <7> HIDE DEF picked
              <7> QED
                BY <6>2
            <6> QED
              BY <6>1, <6>3
          <5>5. CASE CaseVerdict(rows) = "accepted"
            BY <5>4, <5>5
          <5>6. CASE CaseVerdict(rows) # "accepted"
            <6>1. PICK i \in DOMAIN rows :
                     /\ rows[i].status # "passed"
                     /\ verdict.status = IF rows[i].status \in CaseFailures THEN rows[i].status ELSE "judge_error"
              BY <5>4, <5>6, CaseVerdictIsARow
            <6>2. i \in Cases /\ rows[i].status \in RowStatus /\ Tells(i, rows[i].status)
              BY RowFacts
            <6>4. verdict.status = rows[i].status /\ verdict.status # "memory_limit_exceeded"
              BY <6>1, <6>2 DEF RowStatus, CaseFailures
            <6> QED
              BY <6>2, <6>4 DEF Tells
          <5> QED
            BY <5>5, <5>6
        <4> QED
          BY <4>1, <4>2, <4>3, <4>4
      <3> QED
        BY <3>4, <3>6, <3>7 DEF VerdictExplained, Right
    <2> QED
      BY <2>2, <2>3
  <1> QED
    BY <1>1, RunInvAlways, PTL

-----------------------------------------------------------------------------
(* A run is finite.  What is left of it is counted: most for each case to come, then for where  *)
(* the parent stands, for the child, for what is in the control pipe, and for a line that may   *)
(* be begun in the result pipe.  A child is respawned only after the parent has gone on to the   *)
(* next case, which pays for it.                                                                *)

One(b) == IF b THEN 1 ELSE 0

ParentLeft ==
    IF parent = "next" THEN IF child = "none" THEN 12 ELSE 6
    ELSE [start |-> 13, ack |-> 8, read |-> 3, report |-> 1, exit |-> 0][parent]
ChildLeft == IF child = "boot" THEN 2 ELSE One(child = "alive")
PipeLeft == 2 * Len(control) + One(task # 0)
LineLeft == One(child # "none" /\ replies = <<>>)
WorkerLeft == One(box = "up") + One(~Judged)

StepsLeft ==
    20 * (payload.cases + 1 - at) + ParentLeft + ChildLeft + PipeLeft + LineLeft + WorkerLeft

LEMMA LeftRanges ==
    ASSUME TypeOK
    PROVE  /\ payload.cases \in Nat /\ at \in Nat /\ at <= payload.cases + 1
           /\ ParentLeft \in 0..13 /\ ChildLeft \in 0..2 /\ PipeLeft \in Nat /\ WorkerLeft \in 0..2
           /\ LineLeft \in 0..1 /\ StepsLeft \in Nat
  <1>1. payload.cases \in Nat /\ at \in Nat /\ at <= payload.cases + 1
    BY Numbers
  <1>2. parent \in {"start", "next", "ack", "read", "report", "exit"}
    BY DEF TypeOK
  <1>3. ParentLeft \in 0..13
    BY <1>2 DEF ParentLeft
  <1>4. ChildLeft \in 0..2 /\ WorkerLeft \in 0..2 /\ LineLeft \in 0..1
    BY DEF ChildLeft, WorkerLeft, LineLeft, One
  <1>5. PipeLeft \in Nat
    <2>1. control \in Seq(Cases)
      BY DEF TypeOK
    <2>2. Len(control) \in Nat
      BY <2>1
    <2> QED
      BY <2>2 DEF PipeLeft, One
  <1> QED
    BY <1>1, <1>3, <1>4, <1>5 DEF StepsLeft

LEMMA LeftRangesNext ==
    ASSUME TypeOK'
    PROVE  StepsLeft' \in Nat
  <1>1. (TypeOK => StepsLeft \in Nat)'
    BY LeftRanges, PTL
  <1> QED
    BY <1>1

\* A killed child and its pipes have nothing left to do.
LEMMA KilledLeft ==
    ASSUME TypeOK, KillChild
    PROVE  ChildLeft' = 0 /\ PipeLeft' = 0 /\ LineLeft' = 0 /\ child' = "none"
  <1>1. child' = "none" /\ task' = 0 /\ control' = <<>>
    BY DEF KillChild
  <1> QED
    BY <1>1 DEF ChildLeft, PipeLeft, LineLeft, One

\* After the row of the case at hand the parent is a case further.
LEMMA RowLeft ==
    ASSUME RunInv, NEW st, AfterRow(st), parent \in {"ack", "read"}, at <= payload.cases,
           UNCHANGED <<payload, box, verdict>>, ChildLeft' \in 0..2, PipeLeft' \in 0..PipeLeft,
           LineLeft' \in 0..1
    PROVE  StepsLeft' < StepsLeft
  <1>1. at' = at + 1 /\ parent' \in {"next", "report"}
    BY DEF AfterRow
  <1>2. ParentLeft' \in 0..12
    BY <1>1 DEF ParentLeft
  <1>3. WorkerLeft' = WorkerLeft
    BY DEF WorkerLeft, Judged, One
  <1>4. /\ payload.cases \in Nat /\ at \in Nat /\ ParentLeft \in 0..13 /\ ChildLeft \in 0..2
        /\ PipeLeft \in Nat /\ WorkerLeft \in 0..2 /\ LineLeft \in 0..1
    BY LeftRanges DEF RunInv
  <1> QED
    BY <1>1, <1>2, <1>3, <1>4 DEF StepsLeft

LEMMA StartLeft == ASSUME RunInv, LoadValidator \/ SpawnChild PROVE StepsLeft' < StepsLeft
  <1>1. /\ payload.cases \in Nat /\ at \in Nat /\ PipeLeft \in Nat /\ WorkerLeft \in 0..2
        /\ ChildLeft \in 0..2 /\ LineLeft \in 0..1
    BY LeftRanges DEF RunInv
  <1>2. UNCHANGED <<payload, at, control, task, replies, box, verdict>>
    <2>1. CASE LoadValidator
      BY <2>1 DEF LoadValidator, KeepChild
    <2>2. CASE SpawnChild
      BY <2>2 DEF SpawnChild
    <2> QED
      BY <2>1, <2>2
  <1>3. PipeLeft' = PipeLeft /\ WorkerLeft' = WorkerLeft
    BY <1>2 DEF PipeLeft, WorkerLeft, Judged, One
  <1>4. CASE LoadValidator
    <2>1. parent = "start" /\ parent' \in {"next", "report"} /\ child' = child
      BY <1>4 DEF LoadValidator, KeepChild
    <2>2. ParentLeft = 13 /\ ParentLeft' \in {1, 6, 12} /\ ChildLeft' = ChildLeft /\ LineLeft' = LineLeft
      BY <1>2, <2>1 DEF ParentLeft, ChildLeft, LineLeft, One
    <2> QED
      BY <1>1, <1>2, <1>3, <2>2 DEF StepsLeft
  <1>5. CASE SpawnChild
    <2>1. parent = "next" /\ parent' = "ack" /\ child = "none" /\ child' = "boot"
      BY <1>5 DEF SpawnChild
    <2>2. /\ ParentLeft = 12 /\ ParentLeft' = 8 /\ ChildLeft = 0 /\ ChildLeft' = 2
          /\ LineLeft = 0 /\ LineLeft' \in 0..1
      BY <2>1 DEF ParentLeft, ChildLeft, LineLeft, One
    <2> QED
      BY <1>1, <1>2, <1>3, <2>2 DEF StepsLeft
  <1> QED
    BY <1>4, <1>5

LEMMA ReadAckLeft == ASSUME RunInv, ReadAck PROVE StepsLeft' < StepsLeft
  <1>1. /\ payload.cases \in Nat /\ at \in Nat /\ PipeLeft \in Nat /\ WorkerLeft \in 0..2
        /\ ChildLeft \in 0..2 /\ LineLeft \in 0..1 /\ TypeOK
    BY LeftRanges DEF RunInv
  <1>2. /\ parent = "ack" /\ at <= payload.cases /\ child # "none" /\ ParentLeft = 8
        /\ UNCHANGED <<payload, box, verdict>>
    BY DEF ReadAck, RunInv, InStep, SettingUp, ParentLeft
  <1>3. WorkerLeft' = WorkerLeft
    BY <1>2 DEF WorkerLeft, Judged, One
  <1>4. CASE /\ at' = IF at = 0 THEN 1 ELSE at
             /\ parent' = "next"
             /\ UNCHANGED <<child, task, control, rows>>
    <2>1. /\ ParentLeft' = 6 /\ ChildLeft' = ChildLeft /\ PipeLeft' = PipeLeft /\ at' \in Nat /\ at' >= at
          /\ LineLeft' \in 0..1
      BY <1>1, <1>2, <1>4 DEF ParentLeft, ChildLeft, PipeLeft, LineLeft, One
    <2> QED
      BY <1>1, <1>2, <1>3, <2>1 DEF StepsLeft
  <1>5. CASE StartFailed
    <2>1. ChildLeft' = 0 /\ PipeLeft' = 0 /\ LineLeft' = 0
      BY <1>1, <1>5, KilledLeft DEF StartFailed
    <2>2. CASE parent' = "report" /\ UNCHANGED at
      <3>1. ParentLeft' = 1
        BY <2>2 DEF ParentLeft
      <3> QED
        BY <1>1, <1>2, <1>3, <2>1, <2>2, <3>1 DEF StepsLeft
    <2>3. CASE AfterRow("runtime_error")
      BY <1>1, <1>2, <2>1, <2>3, RowLeft
    <2> QED
      BY <1>5, <2>2, <2>3 DEF StartFailed
  <1>6. CASE KillChild /\ parent' = "exit" /\ UNCHANGED at
    <2>1. ChildLeft' = 0 /\ PipeLeft' = 0 /\ LineLeft' = 0 /\ ParentLeft' = 0
      BY <1>1, <1>6, KilledLeft DEF ParentLeft
    <2> QED
      BY <1>1, <1>2, <1>3, <1>6, <2>1 DEF StepsLeft
  <1> QED
    BY <1>4, <1>5, <1>6 DEF ReadAck

LEMMA SendCaseLeft == ASSUME RunInv, SendCase PROVE StepsLeft' < StepsLeft
  <1>1. /\ payload.cases \in Nat /\ at \in Nat /\ PipeLeft \in Nat /\ WorkerLeft \in 0..2
        /\ ChildLeft \in 0..2 /\ LineLeft \in 0..1 /\ TypeOK
    BY LeftRanges DEF RunInv
  <1>2. parent = "next" /\ UNCHANGED <<payload, at, box, verdict>>
    BY DEF SendCase
  <1>3. WorkerLeft' = WorkerLeft
    BY <1>2 DEF WorkerLeft, Judged, One
  <1>4. CASE /\ child = "alive" /\ control' = Append(control, at) /\ parent' = "read"
             /\ UNCHANGED <<child, task, replies>>
    <2>1. ParentLeft = 6 /\ ParentLeft' = 3 /\ ChildLeft' = ChildLeft /\ LineLeft' = LineLeft
      BY <1>2, <1>4 DEF ParentLeft, ChildLeft, LineLeft, One
    <2>4. control \in Seq(Cases) /\ at \in Cases
      BY <1>1 DEF TypeOK, SendCase
    <2>2. Len(control') = Len(control) + 1 /\ Len(control) \in Nat
      BY <1>4, <2>4
    <2>3. PipeLeft' = PipeLeft + 2
      BY <1>4, <2>2 DEF PipeLeft, One
    <2> QED
      BY <1>1, <1>2, <1>3, <2>1, <2>3 DEF StepsLeft
  <1>5. CASE child = "dead" /\ KillChild /\ parent' = "exit"
    <2>1. ParentLeft = 6 /\ ParentLeft' = 0 /\ ChildLeft' = 0 /\ PipeLeft' = 0 /\ LineLeft' = 0
      BY <1>1, <1>2, <1>5, KilledLeft DEF ParentLeft
    <2> QED
      BY <1>1, <1>2, <1>3, <2>1 DEF StepsLeft
  <1> QED
    BY <1>4, <1>5 DEF SendCase

LEMMA ReadReplyLeft == ASSUME RunInv, ReadReply PROVE StepsLeft' < StepsLeft
  <1>1. parent = "read" /\ at <= payload.cases /\ UNCHANGED <<payload, box, verdict>> /\ TypeOK
    <2>1. parent = "read" /\ UNCHANGED <<payload, box, verdict>> /\ TypeOK /\ at \in Cases
      BY DEF ReadReply, RunInv, InStep, OneAtATime
    <2> QED
      BY <2>1, Numbers
  <1>2. PICK reply \in Incoming :
          /\ \E st \in Finalize(at, reply) : AfterRow(st)
          /\ KillChild \/ UNCHANGED <<child, task, control>>
    BY DEF ReadReply
  <1>3. ChildLeft \in 0..2 /\ PipeLeft \in Nat
    BY <1>1, LeftRanges
  <1>4. ChildLeft' \in 0..2 /\ PipeLeft' \in 0..PipeLeft /\ LineLeft' \in 0..1
    <2>1. CASE KillChild
      BY <1>1, <1>3, <2>1, KilledLeft
    <2>2. CASE UNCHANGED <<child, task, control>>
      BY <1>3, <2>2 DEF ChildLeft, PipeLeft, LineLeft, One
    <2> QED
      BY <1>2, <2>1, <2>2
  <1> QED
    BY <1>1, <1>2, <1>4, RowLeft

LEMMA LastStepLeft == ASSUME RunInv, WriteReport \/ ReadRaises PROVE StepsLeft' < StepsLeft
  <1>1. /\ payload.cases \in Nat /\ at \in Nat /\ PipeLeft \in Nat /\ WorkerLeft \in 0..2
        /\ ChildLeft \in 0..2 /\ LineLeft \in 0..1 /\ TypeOK
    BY LeftRanges DEF RunInv
  <1>2. /\ parent \in {"report", "next", "read"} /\ parent' = "exit" /\ KillChild
        /\ UNCHANGED <<payload, at, box, verdict>>
    BY DEF WriteReport, ReadRaises
  <1>3. WorkerLeft' = WorkerLeft
    BY <1>2 DEF WorkerLeft, Judged, One
  <1>4. ParentLeft \in {1, 3, 6, 12} /\ ParentLeft' = 0 /\ ChildLeft' = 0 /\ PipeLeft' = 0 /\ LineLeft' = 0
    BY <1>1, <1>2, KilledLeft DEF ParentLeft
  <1> QED
    BY <1>1, <1>2, <1>3, <1>4 DEF StepsLeft

LEMMA ChildStepLeft == ASSUME RunInv, Child PROVE StepsLeft' < StepsLeft
  <1>1. /\ payload.cases \in Nat /\ at \in Nat /\ WorkerLeft \in 0..2 /\ ParentLeft \in 0..13
        /\ PipeLeft \in Nat /\ LineLeft \in 0..1
    BY LeftRanges DEF RunInv
  <1>8. ASSUME Silent, NEW r, Emit(r) PROVE LineLeft' = 0
    <2>1. replies' # <<>>
      <3>1. replies' \in {<<Garbled>>, Append(<<>>, r)}
        BY <1>8 DEF Emit, Silent
      <3>2. <<Garbled>> # <<>> /\ Append(<<>>, r) # <<>>
        OBVIOUS
      <3> QED
        BY <3>1, <3>2
    <2> QED
      BY <2>1 DEF LineLeft, One
  <1>6. control \in Seq(Cases)
    BY DEF RunInv, TypeOK
  <1>7. Len(control) \in Nat
    BY <1>6
  <1>2. CASE ChildSetup
    <2>1. child = "boot" /\ child' \in {"alive", "dead"} /\ UNCHANGED <<payload, parent, at, task, control, box, verdict>>
      BY <1>2 DEF ChildSetup
    <2>2. ChildLeft = 2 /\ ChildLeft' \in 0..1
      BY <2>1 DEF ChildLeft, One
    <2>3. ParentLeft' = ParentLeft /\ PipeLeft' = PipeLeft /\ WorkerLeft' = WorkerLeft
      BY <2>1 DEF ParentLeft, PipeLeft, WorkerLeft, Judged, One
    <2>4. LineLeft' = 0
      <3>1. \E r : Emit(r)
        BY <1>2 DEF ChildSetup
      <3>2. Silent
        BY <2>1 DEF RunInv, TypeOK, InStep, SettingUp, OneAtATime
      <3> QED
        BY <1>8, <3>1, <3>2
    <2> QED
      BY <1>1, <2>1, <2>2, <2>3, <2>4 DEF StepsLeft
  <1>9. CASE BeginLine
    <2>1. /\ child # "none" /\ replies = <<>> /\ replies' = <<Partial>>
          /\ UNCHANGED <<payload, parent, at, child, task, control, box, verdict>>
      BY <1>9 DEF BeginLine
    <2>2. LineLeft = 1 /\ LineLeft' = 0
      BY <2>1 DEF LineLeft, One
    <2>3. /\ ParentLeft' = ParentLeft /\ PipeLeft' = PipeLeft /\ WorkerLeft' = WorkerLeft
          /\ ChildLeft' = ChildLeft /\ ChildLeft \in 0..2
      BY <2>1 DEF ParentLeft, ChildLeft, PipeLeft, WorkerLeft, Judged, One
    <2> QED
      BY <1>1, <2>1, <2>2, <2>3 DEF StepsLeft
  <1>3. CASE TakeCase
    <2>1. /\ task = 0 /\ control # <<>> /\ control' = Tail(control)
          /\ UNCHANGED <<payload, parent, at, child, replies, box, verdict>>
      BY <1>3 DEF TakeCase
    <2>2. Len(control') = Len(control) - 1 /\ Len(control) > 0
      BY <1>6, <1>7, <2>1
    <2>3. PipeLeft' \in 0..PipeLeft - 1
      <3>1. PipeLeft = 2 * Len(control)
        BY <1>7, <2>1 DEF PipeLeft, One
      <3>2. PipeLeft' = 2 * (Len(control) - 1) + One(task' # 0)
        BY <2>2 DEF PipeLeft
      <3> QED
        BY <1>7, <2>2, <3>1, <3>2 DEF One
    <2>4. /\ ParentLeft' = ParentLeft /\ ChildLeft' = ChildLeft /\ WorkerLeft' = WorkerLeft
          /\ ChildLeft \in 0..2 /\ LineLeft' = LineLeft
      BY <2>1 DEF ParentLeft, ChildLeft, LineLeft, WorkerLeft, Judged, One
    <2> QED
      BY <1>1, <2>1, <2>3, <2>4, SMTT(30) DEF StepsLeft
  <1>4. CASE ExecuteCase
    <2>1. task # 0 /\ task' = 0 /\ UNCHANGED <<payload, parent, at, child, control, box, verdict>>
      BY <1>4 DEF ExecuteCase
    <2>2. PipeLeft' = PipeLeft - 1
      BY <1>7, <2>1 DEF PipeLeft, One
    <2>3. ParentLeft' = ParentLeft /\ ChildLeft' = ChildLeft /\ WorkerLeft' = WorkerLeft /\ ChildLeft \in 0..2
      BY <2>1 DEF ParentLeft, ChildLeft, WorkerLeft, Judged, One
    <2>4. LineLeft' = 0
      <3>1. \E r : Emit(r)
        BY <1>4 DEF ExecuteCase
      <3>2. Silent
        BY <1>4 DEF ExecuteCase, RunInv, TypeOK, InStep, Quiet, Idle, SettingUp, OneAtATime
      <3> QED
        BY <1>8, <3>1, <3>2
    <2> QED
      BY <1>1, <2>1, <2>2, <2>3, <2>4 DEF StepsLeft
  <1>5. CASE ChildDies
    <2>1. /\ child \in {"boot", "alive"} /\ child' = "dead" /\ task' = 0
          /\ UNCHANGED <<payload, parent, at, control, replies, box, verdict>>
      BY <1>5 DEF ChildDies
    <2>2. ChildLeft \in 1..2 /\ ChildLeft' = 0 /\ PipeLeft' \in 0..PipeLeft
      BY <1>7, <2>1 DEF ChildLeft, PipeLeft, One
    <2>3. ParentLeft' = ParentLeft /\ WorkerLeft' = WorkerLeft /\ LineLeft' = LineLeft
      BY <2>1 DEF ParentLeft, WorkerLeft, LineLeft, Judged, One
    <2> QED
      BY <1>1, <2>1, <2>2, <2>3 DEF StepsLeft
  <1> QED
    BY <1>2, <1>3, <1>4, <1>5, <1>9 DEF Child

\* Whatever the worker has of the container, it has a verdict then.
LEMMA CollectJudges == ASSUME Collect PROVE Judged'
  <1>1. PICK truncated \in BOOLEAN, code137 \in BOOLEAN, stdout \in {out, {}} :
           verdict' = Aggregate([timed_out |-> box = "killed", oom_killed |-> code137,
                                 stdout_truncated |-> truncated],
                                ParseHarnessOutput(stdout, Ids), payload.cases)
    BY DEF Collect
  <1>2. \A rs : CaseVerdict(rs) # "none"
    <2> SUFFICES ASSUME NEW rs PROVE CaseVerdict(rs) # "none"
      OBVIOUS
    <2> DEFINE st == rs[CHOOSE i \in DOMAIN rs : IsFirstFailure(rs, i)].status
    <2>1. CaseVerdict(rs) = "accepted" \/ CaseVerdict(rs) = (IF st \in CaseFailures THEN st ELSE "judge_error")
      BY DEF CaseVerdict
    <2>2. (IF st \in CaseFailures THEN st ELSE "judge_error") # "none"
      <3> HIDE DEF st
      <3> QED
        BY DEF CaseFailures
    <2> QED
      BY <2>1, <2>2
  <1>3. verdict'.status # "none"
    <2> DEFINE results == ParseHarnessOutput(stdout, Ids)
               picked == IF results = {} THEN <<>> ELSE CHOOSE r \in results : TRUE
    <2>1. verdict'.status \in {"time_limit_exceeded", "memory_limit_exceeded", "output_limit_exceeded",
                               "judge_error", CaseVerdict(picked)}
      BY <1>1 DEF Aggregate
    <2> HIDE DEF picked
    <2> QED
      BY <1>2, <2>1
  <1> QED
    BY <1>3 DEF Judged

LEMMA WorkerStepLeft == ASSUME RunInv, Worker PROVE StepsLeft' < StepsLeft
  <1>1. /\ payload.cases \in Nat /\ at \in Nat /\ WorkerLeft \in 0..2 /\ ParentLeft \in 0..13 /\ TypeOK
        /\ ChildLeft \in 0..2 /\ PipeLeft \in Nat /\ LineLeft \in 0..1
    BY LeftRanges DEF RunInv
  <1>2. CASE Exit
    <2>1. box = "up" /\ box' = "exited" /\ UNCHANGED <<payload, parent, at, child, task, control, replies, verdict>>
      BY <1>2 DEF Exit, harnessVars
    <2>2. WorkerLeft' = WorkerLeft - 1
      BY <2>1 DEF WorkerLeft, Judged, One
    <2>3. ParentLeft' = ParentLeft /\ ChildLeft' = ChildLeft /\ PipeLeft' = PipeLeft /\ LineLeft' = LineLeft
      BY <2>1 DEF ParentLeft, ChildLeft, PipeLeft, LineLeft, One
    <2> QED
      BY <1>1, <2>1, <2>2, <2>3 DEF StepsLeft
  <1>3. CASE Kill
    <2>1. /\ box = "up" /\ box' \in {"killed", "oom"} /\ KillChild /\ parent' = "exit"
          /\ UNCHANGED <<payload, at, verdict>>
      BY <1>3 DEF Kill
    <2>2. WorkerLeft' = WorkerLeft - 1
      BY <2>1 DEF WorkerLeft, Judged, One
    <2>3. ParentLeft' = 0 /\ ChildLeft' = 0 /\ PipeLeft' = 0 /\ LineLeft' = 0
      BY <1>1, <2>1, KilledLeft DEF ParentLeft
    <2> QED
      BY <1>1, <2>1, <2>2, <2>3 DEF StepsLeft
  <1>4. CASE Collect
    <2>1. ~Judged /\ Judged' /\ UNCHANGED <<payload, parent, at, child, task, control, replies, box>>
      <3>1. ~Judged /\ UNCHANGED <<payload, parent, at, child, task, control, replies, box>>
        BY <1>4 DEF Collect, harnessVars
      <3>2. Judged'
        BY <1>4, CollectJudges
      <3> QED
        BY <3>1, <3>2
    <2>2. WorkerLeft' = WorkerLeft - 1
      BY <2>1 DEF WorkerLeft, One
    <2>3. ParentLeft' = ParentLeft /\ ChildLeft' = ChildLeft /\ PipeLeft' = PipeLeft /\ LineLeft' = LineLeft
      BY <2>1 DEF ParentLeft, ChildLeft, PipeLeft, LineLeft, One
    <2> QED
      BY <1>1, <2>1, <2>2, <2>3 DEF StepsLeft
  <1> QED
    BY <1>2, <1>3, <1>4 DEF Worker

\* Every step of a run brings it nearer to its verdict, whatever the submission does and however
\* often its child is respawned: a run of n cases takes 20 * n + 35 steps at the most (run of
\* harness.py, run_judgement of judging.py).
THEOREM RunsAreFinite ==
    Spec => [][StepsLeft' < StepsLeft /\ StepsLeft \in Nat /\ StepsLeft' \in Nat]_vars
  <1>1. RunInv /\ [Next]_vars => [StepsLeft' < StepsLeft /\ StepsLeft \in Nat /\ StepsLeft' \in Nat]_vars
    <2> SUFFICES ASSUME RunInv, Parent \/ Child \/ Worker
                 PROVE  StepsLeft' < StepsLeft /\ StepsLeft \in Nat /\ StepsLeft' \in Nat
      BY DEF Next, Done
    <2>1. StepsLeft \in Nat
      BY LeftRanges DEF RunInv
    <2>2. StepsLeft' \in Nat
      BY StepKeeps, LeftRangesNext DEF RunInv, Next
    <2>3. StepsLeft' < StepsLeft
      BY StartLeft, ReadAckLeft, SendCaseLeft, ReadReplyLeft, LastStepLeft, ChildStepLeft, WorkerStepLeft
         DEF Parent
    <2> QED
      BY <2>1, <2>2, <2>3
  <1> QED
    BY <1>1, RunInvAlways, PTL DEF Spec

\* What the next step of the parent, or of the worker after its exit, asks for.
CanGoOn ==
    \/ parent \in {"start", "report", "exit"}
    \/ parent = "next" /\ at > payload.cases
    \/ parent = "next" /\ at <= payload.cases /\ child = "none"
    \/ parent = "next" /\ at \in Cases /\ child \in {"alive", "dead"}
    \/ parent = "ack" /\ Incoming # {}
    \/ parent = "read" /\ \E reply \in Incoming : Finalize(at, reply) # {} \/ reply = Unreadable

\* A parent that has a child has gone on to the first case.
PastSetup == parent = "next" /\ child # "none" => at > 0

LEMMA PastSetupKept == ASSUME RunInv, PastSetup, [Next]_vars PROVE PastSetup'
  <1>1. payload.cases \in Nat /\ at \in Nat
    BY Numbers DEF RunInv
  <1>2. ASSUME NEW st, AfterRow(st) PROVE at' > 0
    BY <1>1, <1>2 DEF AfterRow
  <1>3. CASE LoadValidator
    BY <1>3 DEF LoadValidator, KeepChild, RunInv, InStep, PastSetup
  <1>4. CASE SpawnChild \/ SendCase \/ ReadRaises \/ WriteReport
    BY <1>4 DEF SpawnChild, SendCase, ReadRaises, WriteReport, PastSetup
  <1>5. CASE ReadAck
    <2>1. CASE StartFailed
      BY <1>2, <2>1 DEF StartFailed, PastSetup
    <2>2. CASE at' = IF at = 0 THEN 1 ELSE at
      BY <1>1, <2>2 DEF PastSetup
    <2>3. CASE parent' = "exit"
      BY <2>3 DEF PastSetup
    <2> QED
      BY <1>5, <2>1, <2>2, <2>3 DEF ReadAck
  <1>6. CASE ReadReply
    BY <1>2, <1>6 DEF ReadReply, PastSetup
  <1>7. CASE Child
    <2>1. parent = "next" => child # "boot"
      BY DEF RunInv, InStep
    <2>2. UNCHANGED <<parent, at>> /\ (child = "none" => child' = "none")
      BY <1>7 DEF Child, ChildSetup, TakeCase, BeginLine, ExecuteCase, ChildDies
    <2> QED
      BY <2>2 DEF PastSetup
  <1>8. CASE Worker
    BY <1>8 DEF Worker, Exit, Kill, Collect, harnessVars, PastSetup
  <1>9. CASE UNCHANGED vars
    BY <1>9 DEF vars, harnessVars, PastSetup
  <1> QED
    BY <1>3, <1>4, <1>5, <1>6, <1>7, <1>8, <1>9 DEF Next, Parent, Done

\* Something comes from the child, or its deadline, but for a line it has begun.
LEMMA SomethingComes ==
    ASSUME May("hang"), replies # <<Partial>> \/ child = "dead"
    PROVE  Incoming # {}
  <1>1. CASE replies = <<>>
    <2>1. Hang \in Incoming
      BY <1>1, Marks DEF Incoming
    <2> QED
      BY <2>1
  <1>2. CASE replies = <<Partial>>
    <2>1. replies # <<>> /\ child = "dead"
      BY <1>2, Marks
    <2>2. Crash \in Incoming
      BY <1>2, <2>1 DEF Incoming
    <2> QED
      BY <2>2
  <1>3. CASE ~Silent
    BY <1>3, ReplyIncoming
  <1> QED
    BY <1>1, <1>2, <1>3 DEF Silent

\* Whatever comes, or does not come, while the parent waits for a case, there is a row for it, or
\* it raises.
LEMMA RowOrRaise ==
    ASSUME RunInv, parent = "read", NEW reply \in Incoming
    PROVE  Finalize(at, reply) # {} \/ reply = Unreadable
  <1>1. CASE reply.status = "unreadable"
    <2>1. ~Silent
      BY <1>1, SilentIncoming, Marks
    <2>2. replies = <<replies[1]>> /\ Fits(replies[1])
      BY <2>1 DEF RunInv, InStep, OneAtATime
    <2>3. Head(<<replies[1]>>) = replies[1]
      OBVIOUS
    <2>4. reply = replies[1]
      BY <2>1, <2>2, <2>3, ReplyIncoming
    <2> QED
      BY <1>1, <2>2, <2>4 DEF Fits
  <1>2. CASE reply.status # "unreadable"
    <2>1. CASE reply.status \in {"crash", "garbled"}
      BY <2>1 DEF Finalize
    <2>2. CASE reply.status \in {"hang", "time_limit_exceeded"}
      BY <2>2 DEF Finalize
    <2>3. CASE reply.status \in {"runtime_error", "bad_value"}
      BY <2>3 DEF Finalize
    <2>4. CASE reply.status = "probe_error"
      BY <2>4 DEF Finalize
    <2>5. CASE reply.status \notin {"crash", "garbled", "hang", "time_limit_exceeded", "runtime_error",
                                    "bad_value", "probe_error"}
      <3>1. (IF reply.actual = at THEN "passed" ELSE "wrong_answer") \in Finalize(at, reply)
        BY <1>2, <2>5 DEF Finalize
      <3> QED
        BY <3>1
    <2> QED
      BY <2>1, <2>2, <2>3, <2>4, <2>5
  <1> QED
    BY <1>1, <1>2

\* Until it has a verdict a run can go on without the child: the parent reads what there is, or its
\* deadline has passed (_Child.read), and the worker waits only for the parent's exit; the one
\* thing no deadline of the harness ends is a line the child has begun.
THEOREM RunsGoOn ==
    ASSUME "hang" \in Faults
    PROVE  Spec => [](Judged \/ CanGoOn \/ Blocked)
  <1>1. Init => PastSetup
    BY DEF Init, PastSetup
  <1>2. RunInv /\ PastSetup /\ [Next]_vars => PastSetup'
    BY PastSetupKept
  <1>3. RunInv /\ PastSetup => CanGoOn \/ Blocked
    <2> SUFFICES ASSUME RunInv, PastSetup, ~Blocked PROVE CanGoOn
      OBVIOUS
    <2>1. parent \in {"start", "next", "ack", "read", "report", "exit"} /\ child \in {"none", "boot", "alive", "dead"}
      BY DEF RunInv, TypeOK
    <2>2. payload.cases \in Nat /\ at \in Nat /\ Cases = 1..payload.cases
      BY Numbers DEF RunInv
    <2>3. CASE parent = "next"
      <3>1. child # "boot"
        BY <2>3 DEF RunInv, InStep
      <3>2. CASE at > payload.cases
        BY <2>3, <3>2 DEF CanGoOn
      <3>3. CASE at <= payload.cases /\ child = "none"
        BY <2>3, <3>3 DEF CanGoOn
      <3>4. CASE at <= payload.cases /\ child # "none"
        <4>1. at \in Cases /\ child \in {"alive", "dead"}
          BY <2>1, <2>2, <2>3, <3>1, <3>4 DEF PastSetup
        <4> QED
          BY <2>3, <4>1 DEF CanGoOn
      <3> QED
        BY <2>2, <3>2, <3>3, <3>4
    <2>6. parent \in {"ack", "read"} => Incoming # {}
      BY SomethingComes DEF Blocked, May
    <2>4. CASE parent = "read"
      BY <2>4, <2>6, RowOrRaise DEF CanGoOn
    <2>5. CASE parent = "ack"
      BY <2>5, <2>6 DEF CanGoOn
    <2> QED
      BY <2>1, <2>3, <2>4, <2>5 DEF CanGoOn
  <1> QED
    BY <1>1, <1>2, <1>3, RunInvAlways, PTL DEF Spec
=============================================================================
