-------------------------- MODULE SandboxesProofs --------------------------
(***************************************************************************)
(* What holds of Sandboxes for every set of submissions and workers, every  *)
(* number of crashes and every job timeout, slack, margin and slop.        *)
(***************************************************************************)
EXTENDS Sandboxes, TLAPS

CallStates  == {"none", "wait", "kill", "drain", "cancelled", "reap", "done", "lost"}
ThreadStates == {"none", "configmap", "pod", "poll", "log", "delpod", "delconfigmap", "done", "lost"}
CleanerStates == {"none", "pod", "configmap", "done", "lost"}
ObjStates == {"none", "asked", "up", "ended", "gone"}
ObjType(o, a) ==
    /\ o \in [Subs -> [Kinds(backend) -> ObjStates]]
    /\ a \in [Subs -> [Kinds(backend) -> 0..MaxAge]]

\* The part of TypeOK about run_in_container.
CallOK ==
    /\ owner \in [Subs -> Workers \cup {NoWorker}]
    /\ active = [w \in Workers |-> {s \in Subs : owner[s] = w /\ InProgress(s)}]
    /\ call \in [Subs -> CallStates]
    /\ wall \in [Subs -> Nat]
    /\ waited \in [Subs -> Nat]
    /\ clock \in [Subs -> 0..JUDGE_JOB_TIMEOUT]
    /\ \A s \in Subs : waited[s] <= wall[s]

LEMMA Bounds ==
    /\ JUDGE_JOB_TIMEOUT \in Nat /\ KILL_AND_WRITE_MARGIN \in Nat
    /\ MAX_LIVE_SANDBOX_AGE \in Nat /\ MAX_LIVE_SANDBOX_AGE >= JUDGE_JOB_TIMEOUT
    /\ MaxAge = MAX_LIVE_SANDBOX_AGE + 1
  BY BudgetAssumption DEF MAX_LIVE_SANDBOX_AGE, MaxAge

LEMMA WallBudgetNat ==
    ASSUME NEW n \in CaseCounts, NEW t \in TimeLimits, NEW startup \in StartupSlacks
    PROVE  WallBudget(n, t, startup) \in Nat
  <1>1. n \in Nat /\ t \in Nat /\ startup \in Nat
    BY SandboxAssumption
  <1>2. n * t \in Nat
    BY <1>1, SMT
  <1> QED
    BY <1>1, <1>2, BudgetAssumption DEF WallBudget

(***************************************************************************)
(* Type correctness.  The helpers on objects first.                        *)
(***************************************************************************)
LEMMA BecomeType ==
    ASSUME TypeOK, NEW s \in Subs, NEW k, NEW st \in ObjStates, Become(s, k, st)
    PROVE  ObjType(obj', age')
  <1>1. ObjType(obj, age) /\ 0 \in 0..MaxAge
    BY Bounds DEF TypeOK, ObjType, ObjStates
  <1> QED
    BY <1>1 DEF Become, ObjType

LEMMA RemoveType ==
    ASSUME TypeOK, NEW s \in Subs, NEW K, Remove(s, K)
    PROVE  ObjType(obj', age')
  <1>1. ObjType(obj, age) /\ 0 \in 0..MaxAge /\ "gone" \in ObjStates
    BY Bounds DEF TypeOK, ObjType, ObjStates
  <1> QED
    BY <1>1 DEF Remove, ObjType

LEMMA DeleteType ==
    ASSUME TypeOK, NEW s \in Subs, NEW k, NEW raised \in BOOLEAN, Delete(s, k, raised)
    PROVE  ObjType(obj', age') /\ failed' \subseteq Subs
  <1>1. ObjType(obj, age) /\ failed \subseteq Subs
    BY DEF TypeOK, ObjType, ObjStates
  <1>2. CASE Remove(s, {k}) /\ ~raised /\ UNCHANGED failed
    BY <1>1, <1>2, RemoveType
  <1>3. CASE Remove(s, {k}) /\ failed' = failed \cup {s}
    BY <1>1, <1>3, RemoveType
  <1>4. CASE UNCHANGED objVars /\ failed' = failed \cup {s}
    BY <1>1, <1>4 DEF objVars
  <1> QED
    BY <1>2, <1>3, <1>4 DEF Delete

LEMMA CallFrame ==
    ASSUME TypeOK, UNCHANGED callVars
    PROVE  CallOK'
  BY DEF TypeOK, CallOK, callVars, CallStates, InProgress, Over

LEMMA EndType ==
    ASSUME TypeOK, NEW s \in Subs, End(s)
    PROVE  CallOK'
  <1> USE DEF TypeOK, End, Call, CallStates
  <1>1. \A t \in Subs : InProgress(t)' <=> InProgress(t) /\ t # s
    BY DEF InProgress, Over
  <1>2. active' = [w \in Workers |-> {t \in Subs : owner[t] = w /\ InProgress(t)'}]
    BY <1>1
  <1>3. clock' \in [Subs -> 0..JUDGE_JOB_TIMEOUT]
    BY Bounds
  <1> QED
    BY <1>2, <1>3 DEF CallOK

\* A step that leaves a call in progress where it was in progress.
LEMMA CallType ==
    ASSUME TypeOK, NEW s \in Subs, NEW pc \in {"kill", "drain", "cancelled", "reap"},
           InProgress(s), Call(s, pc), UNCHANGED <<owner, active, wall, waited, clock>>
    PROVE  CallOK'
  <1> USE DEF TypeOK, Call, CallStates
  <1>1. \A t \in Subs : InProgress(t)' <=> InProgress(t)
    BY DEF InProgress, Over
  <1> QED
    BY <1>1 DEF CallOK

LEMMA InitTypeOK == Init => TypeOK
  <1> SUFFICES ASSUME Init PROVE TypeOK
    OBVIOUS
  <1>1. \A t \in Subs : ~InProgress(t)
    BY DEF Init, InProgress
  <1>2. 0 \in 0..MaxAge /\ 0 \in 0..JUDGE_JOB_TIMEOUT /\ 0 \in 0..MaxCrashes
    BY Bounds, SandboxAssumption
  <1> QED
    BY <1>1, <1>2, SandboxAssumption DEF Init, TypeOK

LEMMA StartTypeOK ==
    ASSUME TypeOK, NEW w \in Workers, NEW s \in Subs, Start(w, s)
    PROVE  TypeOK'
  <1>1. PICK n \in CaseCounts, t \in TimeLimits, startup \in StartupSlacks :
          wall' = [wall EXCEPT ![s] = WallBudget(n, t, startup)]
    BY DEF Start
  <1> USE DEF TypeOK, Start, Call, Thread, procVars, objVars
  <1>2. wall' \in [Subs -> Nat]
    BY <1>1, WallBudgetNat
  <1>3. \A r \in Subs : InProgress(r)' <=> InProgress(r) \/ r = s
    BY DEF InProgress, Over
  <1>4. ~InProgress(s)
    BY DEF InProgress
  <1>5. active' = [v \in Workers |-> {r \in Subs : owner'[r] = v /\ InProgress(r)'}]
    <2>1. ASSUME NEW v \in Workers
          PROVE  active'[v] = {r \in Subs : owner'[r] = v /\ InProgress(r)'}
      BY <1>3, <1>4
    <2> QED
      BY <2>1
  <1>6. /\ call' \in [Subs -> CallStates]
        /\ owner' \in [Subs -> Workers \cup {NoWorker}]
        /\ clock' \in [Subs -> 0..JUDGE_JOB_TIMEOUT]
        /\ \A r \in Subs : waited'[r] <= wall'[r]
    BY <1>1, WallBudgetNat DEF CallStates
  <1>7. client' \in [Subs -> {"none", "alive", "exited", "dead"}] /\ thread' \in [Subs -> ThreadStates]
    BY DEF ThreadStates
  <1> QED
    BY <1>2, <1>5, <1>6, <1>7 DEF CallStates, ThreadStates

LEMMA RunTypeOK ==
    ASSUME TypeOK, NEW s \in Subs
    PROVE  /\ Cancel(s) => TypeOK'
           /\ AskDaemon(s) \/ DaemonStarts(s) \/ ClientExits(s) => TypeOK'
           /\ DockerStep(s) => TypeOK'
  <1> USE DEF procVars, threadVars, objVars
  <1>0. TypeOK /\ CallOK
    BY DEF TypeOK, CallOK, CallStates
  <1>1. ASSUME Cancel(s) PROVE TypeOK'
    <2>1. CallOK'
      BY <1>1, CallType DEF Cancel, Live, InProgress, Over
    <2>2. thread' \in [Subs -> ThreadStates]
      <3>1. thread' = thread \/ Thread(s, "done")
        BY <1>1 DEF Cancel
      <3> QED
        BY <3>1 DEF Thread, TypeOK, ThreadStates
    <2>3. cleaner' \in [Subs -> CleanerStates] /\ stop' \subseteq Subs
      <3>1. \/ cleaner' = cleaner /\ stop' = stop
            \/ cleaner' = [cleaner EXCEPT ![s] = "pod"] /\ stop' = stop \cup {s}
        BY <1>1 DEF Cancel
      <3>2. cleaner' \in [Subs -> CleanerStates]
        BY <3>1 DEF TypeOK, CleanerStates
      <3>3. stop' \subseteq Subs
        BY <3>1 DEF TypeOK
      <3> QED
        BY <3>2, <3>3
    <2>4. UNCHANGED <<procVars, client, objVars, failed, listed>>
      BY <1>1 DEF Cancel
    <2> QED
      BY <1>0, <2>1, <2>2, <2>3, <2>4 DEF TypeOK, CallOK, CallStates, ThreadStates, CleanerStates
  <1>2. ASSUME AskDaemon(s) \/ DaemonStarts(s) PROVE TypeOK'
    <2>1. \E st \in ObjStates : Become(s, "container", st)
      BY <1>2 DEF AskDaemon, DaemonStarts, ObjStates
    <2>2. CallOK' /\ ObjType(obj', age')
      BY <1>2, <2>1, CallFrame, BecomeType DEF AskDaemon, DaemonStarts
    <2> QED
      BY <1>0, <1>2, <2>2 DEF TypeOK, CallOK, CallStates, ObjType, ObjStates, AskDaemon, DaemonStarts
  <1>3. ASSUME ClientExits(s) PROVE TypeOK'
    <2>1. CallOK'
      BY <1>3, CallFrame DEF ClientExits
    <2> QED
      BY <1>0, <1>3, <2>1 DEF TypeOK, CallOK, CallStates, ClientExits
  <1>4. ASSUME Communicate(s) PROVE TypeOK'
    <2>1. CallOK'
      BY <1>4, EndType, CallType DEF Communicate, InProgress, Over
    <2> QED
      BY <1>0, <1>4, <2>1 DEF TypeOK, CallOK, CallStates, Communicate
  <1>5. ASSUME DockerKill(s) PROVE TypeOK'
    <2>1. CallOK'
      BY <1>5, CallType DEF DockerKill, InProgress, Over
    <2>2. ObjType(obj', age') /\ failed' \subseteq Subs
      BY <1>0, <1>5, RemoveType DEF DockerKill, TypeOK, ObjType, ObjStates
    <2> QED
      BY <1>0, <1>5, <2>1, <2>2 DEF TypeOK, CallOK, CallStates, ObjType, ObjStates, DockerKill
  <1>6. ASSUME Drain(s) PROVE TypeOK'
    <2>1. CallOK'
      BY <1>6, EndType DEF Drain
    <2> QED
      BY <1>0, <1>6, <2>1 DEF TypeOK, CallOK, CallStates, Drain
  <1> QED
    BY <1>1, <1>2, <1>3, <1>4, <1>5, <1>6 DEF DockerStep

LEMMA K8sTypeOK ==
    ASSUME TypeOK, NEW s \in Subs, K8sStep(s)
    PROVE  TypeOK'
  <1> USE DEF procVars, objVars
  <1>0. CallOK
    BY DEF TypeOK, CallOK, CallStates
  <1>1. CASE CreateConfigMap(s)
    <2>1. CallOK'
      BY <1>1, CallFrame DEF CreateConfigMap
    <2>2. ObjType(obj', age') /\ failed' \subseteq Subs
      BY <1>1, BecomeType DEF CreateConfigMap, TypeOK, ObjType, ObjStates
    <2> QED
      BY <1>0, <1>1, <2>1, <2>2 DEF TypeOK, CallOK, CallStates, ObjType, ObjStates, CreateConfigMap, Thread
  <1>2. CASE CreatePod(s)
    <2>1. CallOK'
      BY <1>2, CallFrame DEF CreatePod
    <2>2. ObjType(obj', age')
      BY <1>2, BecomeType DEF CreatePod, TypeOK, ObjType, ObjStates
    <2>3. thread' \in [Subs -> ThreadStates]
      BY <1>2 DEF CreatePod, Thread, TypeOK, ThreadStates
    <2>4. UNCHANGED <<procVars, client, stop, cleaner, failed, listed>>
      BY <1>2 DEF CreatePod
    <2> QED
      BY <1>0, <2>1, <2>2, <2>3, <2>4 DEF TypeOK, CallOK, CallStates, ThreadStates, ObjType, ObjStates
  <1>3. CASE Poll(s) \/ ReadLog(s)
    <2>1. CallOK'
      BY <1>3, CallFrame DEF Poll, ReadLog
    <2>2. thread' \in [Subs -> ThreadStates]
      BY <1>3 DEF Poll, ReadLog, Thread, TypeOK, ThreadStates
    <2>3. UNCHANGED <<procVars, client, stop, cleaner, objVars, failed, listed>>
      BY <1>3 DEF Poll, ReadLog
    <2> QED
      BY <1>0, <2>1, <2>2, <2>3 DEF TypeOK, CallOK, CallStates, ThreadStates
  <1>4. CASE TearDown(s)
    <2>1. CallOK'
      BY <1>4, CallFrame DEF TearDown
    <2>2. ObjType(obj', age') /\ failed' \subseteq Subs
      BY <1>4, DeleteType DEF TearDown
    <2>3. thread' \in [Subs -> ThreadStates]
      BY <1>4 DEF TearDown, Thread, TypeOK, ThreadStates
    <2>4. UNCHANGED <<procVars, client, stop, cleaner, listed>>
      BY <1>4 DEF TearDown
    <2> QED
      BY <1>0, <2>1, <2>2, <2>3, <2>4 DEF TypeOK, CallOK, CallStates, ThreadStates, ObjType, ObjStates
  <1>5. CASE DeleteRun(s)
    <2>1. CallOK'
      BY <1>5, CallFrame DEF DeleteRun
    <2>2. ObjType(obj', age') /\ failed' \subseteq Subs
      BY <1>5, DeleteType DEF DeleteRun
    <2>3. cleaner' \in [Subs -> CleanerStates]
      BY <1>5 DEF DeleteRun, TypeOK, CleanerStates
    <2>4. UNCHANGED <<procVars, client, thread, stop, listed>>
      BY <1>5 DEF DeleteRun
    <2> QED
      BY <1>0, <2>1, <2>2, <2>3, <2>4 DEF TypeOK, CallOK, CallStates, CleanerStates, ObjType, ObjStates
  <1>6. CASE ThreadReturns(s)
    <2>1. CallOK'
      BY <1>6, EndType DEF ThreadReturns
    <2> QED
      BY <1>0, <1>6, <2>1 DEF TypeOK, CallOK, CallStates, ThreadReturns, threadVars
  <1> QED
    BY <1>1, <1>2, <1>3, <1>4, <1>5, <1>6 DEF K8sStep

LEMMA SweepTypeOK ==
    ASSUME TypeOK, NEW w \in Workers
    PROVE  /\ \A s \in Subs : ReapOrphan(w, s) => TypeOK'
           /\ ListOrphans(w) \/ SweepFails(w) => TypeOK'
  <1>0. CallOK
    BY DEF TypeOK, CallOK, CallStates
  <1>1. ASSUME NEW s \in Subs, ReapOrphan(w, s) PROVE TypeOK'
    <2>1. CallOK'
      BY <1>1, CallFrame DEF ReapOrphan
    <2>2. ObjType(obj', age')
      BY <1>1, RemoveType DEF ReapOrphan, objVars, TypeOK, ObjType, ObjStates
    <2> QED
      BY <1>0, <1>1, <2>1, <2>2
      DEF TypeOK, CallOK, CallStates, ObjType, ObjStates, ReapOrphan, procVars, threadVars
  <1>2. ASSUME ListOrphans(w) \/ SweepFails(w) PROVE TypeOK'
    <2>1. CallOK'
      BY <1>2, CallFrame DEF ListOrphans, SweepFails
    <2>2. listed' \in [Workers -> SUBSET Subs]
      <3>1. PICK L \in SUBSET Subs : listed' = [listed EXCEPT ![w] = L]
        BY <1>2 DEF ListOrphans, SweepFails
      <3> QED
        BY <3>1 DEF TypeOK
    <2>3. UNCHANGED <<procVars, client, threadVars, objVars, failed>>
      BY <1>2 DEF ListOrphans, SweepFails
    <2> QED
      BY <1>0, <2>1, <2>2, <2>3 DEF TypeOK, CallOK, CallStates, procVars, threadVars, objVars
  <1> QED
    BY <1>1, <1>2

LEMMA SandboxEndsTypeOK ==
    ASSUME TypeOK, NEW s \in Subs, NEW k \in Kinds(backend), SandboxEnds(s, k)
    PROVE  TypeOK'
  <1>1. CallOK /\ CallOK'
    BY CallFrame DEF SandboxEnds, TypeOK, CallOK, CallStates
  <1>2. ObjType(obj', age')
    BY Bounds DEF SandboxEnds, TypeOK, ObjType, ObjStates
  <1> QED
    BY <1>1, <1>2
    DEF TypeOK, CallOK, CallStates, ObjType, ObjStates, SandboxEnds, procVars, threadVars

LEMMA CrashTypeOK ==
    ASSUME TypeOK, NEW w \in Workers, Crash(w)
    PROVE  TypeOK'
  <1> USE DEF TypeOK, Crash, objVars
  <1>1. crashes' \in 0..MaxCrashes /\ up' \subseteq Workers /\ listed' \in [Workers -> SUBSET Subs]
    BY SandboxAssumption
  <1>2. /\ call' \in [Subs -> CallStates] /\ thread' \in [Subs -> ThreadStates]
        /\ cleaner' \in [Subs -> CleanerStates]
        /\ client' \in [Subs -> {"none", "alive", "exited", "dead"}]
    BY DEF CallStates, ThreadStates, CleanerStates
  <1>3. /\ wall' \in [Subs -> Nat] /\ waited' \in [Subs -> Nat]
        /\ clock' \in [Subs -> 0..JUDGE_JOB_TIMEOUT]
        /\ \A s \in Subs : waited'[s] <= wall'[s]
    BY Bounds
  <1>4. \A s \in Subs : InProgress(s)' <=> InProgress(s) /\ owner[s] # w
    BY DEF InProgress, Over
  <1>5. active' = [v \in Workers |-> {s \in Subs : owner'[s] = v /\ InProgress(s)'}]
    <2>1. ASSUME NEW v \in Workers
          PROVE  active'[v] = {s \in Subs : owner'[s] = v /\ InProgress(s)'}
      BY <1>4
    <2> QED
      BY <2>1
  <1> QED
    BY <1>1, <1>2, <1>3, <1>5 DEF CallStates, ThreadStates, CleanerStates

LEMMA TickTypeOK ==
    ASSUME TypeOK, Tick
    PROVE  TypeOK'
  <1> USE DEF TypeOK, Tick, objVars, threadVars, procVars
  <1>1. active' = [w \in Workers |-> {s \in Subs : owner'[s] = w /\ InProgress(s)'}]
    BY DEF InProgress, Over
  <1>2. clock' \in [Subs -> 0..JUDGE_JOB_TIMEOUT]
    BY Bounds
  <1>3. waited' \in [Subs -> Nat] /\ \A s \in Subs : waited'[s] <= wall'[s]
    OBVIOUS
  <1>4. age' \in [Subs -> [Kinds(backend) -> 0..MaxAge]]
    BY Bounds
  <1> QED
    BY <1>1, <1>2, <1>3, <1>4

LEMMA NextTypeOK == TypeOK /\ [Next]_vars => TypeOK'
  <1> SUFFICES ASSUME TypeOK, [Next]_vars PROVE TypeOK'
    OBVIOUS
  <1>1. ASSUME NEW s \in Subs, NEW w \in Workers, Start(w, s) \/ ReapOrphan(w, s) PROVE TypeOK'
    BY <1>1, StartTypeOK, SweepTypeOK
  <1>2. ASSUME NEW s \in Subs,
               Cancel(s) \/ AskDaemon(s) \/ DaemonStarts(s) \/ ClientExits(s) \/ DockerStep(s)
        PROVE  TypeOK'
    BY <1>2, RunTypeOK
  <1>3. ASSUME NEW s \in Subs, K8sStep(s) PROVE TypeOK'
    BY <1>3, K8sTypeOK
  <1>4. ASSUME NEW s \in Subs, NEW k \in Kinds(backend), SandboxEnds(s, k) PROVE TypeOK'
    BY <1>4, SandboxEndsTypeOK
  <1>5. ASSUME NEW w \in Workers, ListOrphans(w) \/ SweepFails(w) PROVE TypeOK'
    BY <1>5, SweepTypeOK
  <1>6. ASSUME NEW w \in Workers, Crash(w) PROVE TypeOK'
    BY <1>6, CrashTypeOK
  <1>7. ASSUME NEW w \in Workers, Restart(w) PROVE TypeOK'
    <2>1. CallOK /\ CallOK'
      BY <1>7, CallFrame DEF Restart, TypeOK, CallOK, CallStates
    <2> QED
      BY <1>7, <2>1 DEF TypeOK, CallOK, CallStates, Restart, threadVars, objVars
  <1>8. CASE Tick
    BY <1>8, TickTypeOK
  <1>9. CASE UNCHANGED vars
    <2>1. CallOK /\ CallOK'
      BY <1>9, CallFrame DEF vars, TypeOK, CallOK, CallStates
    <2> QED
      BY <1>9, <2>1 DEF TypeOK, CallOK, CallStates, vars, procVars, threadVars, objVars
  <1> QED
    BY <1>1, <1>2, <1>3, <1>4, <1>5, <1>6, <1>7, <1>8, <1>9 DEF Next

\* Every reachable state is well typed: in particular a process's _active holds exactly the
\* names of the runs it has in progress, through every crash and cancellation.
THEOREM TypeCorrect == Spec => []TypeOK
  BY InitTypeOK, NextTypeOK, PTL DEF Spec

(***************************************************************************)
(* Safety.  None of the properties is inductive; SafeInv adds that nothing  *)
(* exists of a submission nobody runs yet, that a sandbox is never older    *)
(* than the job it belongs to, that a run still going fits its budget, that *)
(* the sweep's list has only runs that are over, and which objects the      *)
(* thread of a Pod run still has to delete.                                *)
(***************************************************************************)
Fresh(s) ==
    call[s] = "none" =>
      /\ client[s] = "none" /\ thread[s] = "none" /\ cleaner[s] = "none"
      /\ \A k \in Kinds(backend) : obj[s][k] = "none"

OneBackend(s) ==
    /\ client[s] # "none" \/ call[s] \in {"kill", "drain", "reap"} => backend = "docker"
    /\ thread[s] # "none" \/ cleaner[s] # "none" => backend # "docker"

YoungerThanJob(s) ==
    Live(s) => \A k \in Kinds(backend) : Exists(s, k) => age[s][k] <= clock[s]

WithinBudget(s) == Live(s) => wall[s] + KILL_AND_WRITE_MARGIN < JUDGE_JOB_TIMEOUT

ThreadOwns(s) ==
    backend # "docker" /\ s \notin failed =>
      /\ Exists(s, "pod") => thread[s] \in {"poll", "log", "delpod", "lost"}
      /\ Exists(s, "configmap") =>
           thread[s] \in {"pod", "poll", "log", "delpod", "delconfigmap", "lost"}

ListedOver == \A w \in Workers : \A s \in listed[w] : call[s] # "none" /\ ~Live(s)

SafeInv ==
    /\ \A s \in Subs : /\ Fresh(s) /\ OneBackend(s)
                       /\ YoungerThanJob(s) /\ WithinBudget(s) /\ ThreadOwns(s)
    /\ ListedOver

LEMMA InitSafeInv == Init => SafeInv
  BY SandboxAssumption DEF Init, SafeInv, Fresh, OneBackend, YoungerThanJob, WithinBudget, ThreadOwns,
     ListedOver, Live, Exists, Kinds

LEMMA SafeInvProps ==
    ASSUME TypeOK, SafeInv
    PROVE  SweptIsOver /\ OwnKillFirst /\ CleanedUp
  <1>1. SweptIsOver
    BY DEF SafeInv, ListedOver, SweptIsOver
  <1>2. OwnKillFirst
    <2>1. ASSUME NEW s \in Subs, Live(s), clock[s] = JUDGE_JOB_TIMEOUT
          PROVE  clock[s] - waited[s] > KILL_AND_WRITE_MARGIN
      <3>1. /\ wall[s] + KILL_AND_WRITE_MARGIN < JUDGE_JOB_TIMEOUT
            /\ waited[s] <= wall[s] /\ wall[s] \in Nat /\ waited[s] \in Nat
        BY <2>1 DEF SafeInv, WithinBudget, TypeOK
      <3> QED
        BY <2>1, <3>1, Bounds
    <2> QED
      BY <2>1 DEF OwnKillFirst
  <1>3. CleanedUp
    BY DEF SafeInv, OneBackend, ThreadOwns, CleanedUp, Kinds
  <1> QED
    BY <1>1, <1>2, <1>3

\* What the helpers on objects leave of every object.
LEMMA BecomeEffect ==
    ASSUME TypeOK, NEW s \in Subs, NEW k \in Kinds(backend), NEW st, Become(s, k, st),
           NEW t \in Subs, NEW j \in Kinds(backend)
    PROVE  /\ obj'[t][j] = IF t = s /\ j = k THEN st ELSE obj[t][j]
           /\ age'[t][j] = IF t = s /\ j = k THEN 0 ELSE age[t][j]
  BY DEF TypeOK, Become

LEMMA RemoveEffect ==
    ASSUME TypeOK, NEW s \in Subs, NEW K, Remove(s, K),
           NEW t \in Subs, NEW j \in Kinds(backend)
    PROVE  /\ Exists(t, j)' => Exists(t, j) /\ age'[t][j] = age[t][j] /\ ~(t = s /\ j \in K)
           /\ obj[t][j] = "none" => obj'[t][j] = "none"
  BY DEF TypeOK, Remove, Exists

(***************************************************************************)
(* A step preserves SafeInv.  The cases are by what a step touches.         *)
(***************************************************************************)
LEMMA StartSafe ==
    ASSUME TypeOK, SafeInv, NEW w \in Workers, NEW s \in Subs, Start(w, s)
    PROVE  SafeInv'
  <1> USE DEF Start, Call, Thread, procVars, objVars
  <1>1. \A t \in Subs \ {s} : /\ call'[t] = call[t] /\ client'[t] = client[t] /\ thread'[t] = thread[t]
                              /\ wall'[t] = wall[t] /\ clock'[t] = clock[t]
    BY DEF TypeOK
  <1>2. \A t \in Subs \ {s} : /\ Fresh(t)' /\ OneBackend(t)'
                              /\ YoungerThanJob(t)' /\ WithinBudget(t)' /\ ThreadOwns(t)'
    BY <1>1 DEF SafeInv, Fresh, OneBackend, YoungerThanJob, WithinBudget, ThreadOwns, Live, Exists
  <1>3. call[s] = "none" /\ call'[s] = "wait" /\ client[s] = "none" /\ thread[s] = "none"
    BY DEF TypeOK, SafeInv, Fresh
  <1>4. \A k \in Kinds(backend) : ~Exists(s, k)'
    BY <1>3 DEF SafeInv, Fresh, Exists
  <1>5. Fresh(s)' /\ YoungerThanJob(s)'
    BY <1>3, <1>4 DEF Fresh, YoungerThanJob
  <1>6. OneBackend(s)'
    BY <1>3 DEF TypeOK, SafeInv, OneBackend
  <1>7. WithinBudget(s)'
    BY DEF TypeOK, WithinBudget, FitsJobTimeout
  <1>8. ThreadOwns(s)'
    BY <1>4 DEF ThreadOwns, Kinds
  <1>9. ListedOver'
    BY <1>1, <1>3 DEF TypeOK, SafeInv, ListedOver, Live
  <1> QED
    BY <1>2, <1>5, <1>6, <1>7, <1>8, <1>9 DEF SafeInv

\* A call moves on, or ends, and no object is touched.
LEMMA CallSafe ==
    ASSUME TypeOK, SafeInv, NEW s \in Subs,
           Cancel(s) \/ Communicate(s) \/ Drain(s) \/ ThreadReturns(s)
    PROVE  SafeInv'
  <1> USE DEF procVars, threadVars, objVars
  <1>1. UNCHANGED <<backend, obj, age, failed, listed>>
    BY DEF Cancel, Communicate, Drain, ThreadReturns
  <1>2. call[s] # "none" /\ call'[s] # "none" /\ (Live(s)' => Live(s))
    BY DEF Cancel, Communicate, Drain, ThreadReturns, End, Call, TypeOK, Live
  <1>3. \A t \in Subs \ {s} :
          /\ call'[t] = call[t] /\ client'[t] = client[t] /\ thread'[t] = thread[t]
          /\ cleaner'[t] = cleaner[t] /\ wall'[t] = wall[t] /\ clock'[t] = clock[t]
    BY DEF Cancel, Communicate, Drain, ThreadReturns, End, Call, Thread, TypeOK
  <1>4. \A t \in Subs : Live(t)' => wall'[t] = wall[t] /\ clock'[t] = clock[t]
    BY <1>3 DEF Cancel, Communicate, Drain, ThreadReturns, End, Call, TypeOK, Live
  <1>5. \A t \in Subs : (Live(t)' => Live(t)) /\ (call'[t] = "none" <=> call[t] = "none")
    BY <1>2, <1>3 DEF Live
  <1>6. OneBackend(s)'
    BY <1>1 DEF Cancel, Communicate, Drain, ThreadReturns, End, Call, Thread, TypeOK, SafeInv, OneBackend
  <1>7. ThreadOwns(s)'
    BY <1>1 DEF Cancel, Communicate, Drain, ThreadReturns, Thread, TypeOK, SafeInv, ThreadOwns, Exists
  <1>8. \A t \in Subs : Fresh(t)'
    BY <1>1, <1>2, <1>3 DEF SafeInv, Fresh
  <1>9. \A t \in Subs : OneBackend(t)' /\ ThreadOwns(t)'
    BY <1>1, <1>3, <1>6, <1>7 DEF SafeInv, OneBackend, ThreadOwns, Exists
  <1>10. \A t \in Subs : YoungerThanJob(t)' /\ WithinBudget(t)'
    BY <1>1, <1>4, <1>5 DEF SafeInv, YoungerThanJob, WithinBudget, Exists
  <1>11. ListedOver'
    BY <1>1, <1>5 DEF SafeInv, ListedOver, TypeOK
  <1> QED
    BY <1>8, <1>9, <1>10, <1>11 DEF SafeInv

\* A step that leaves every call alone and makes no object older.
LEMMA ObjectFrame ==
    ASSUME TypeOK, SafeInv, UNCHANGED <<backend, callVars>>,
           \A w \in Workers : listed'[w] \subseteq listed[w],
           \A t \in Subs : \A k \in Kinds(backend) :
             Exists(t, k)' => age'[t][k] = 0 \/ (Exists(t, k) /\ age'[t][k] = age[t][k])
    PROVE  /\ \A t \in Subs : YoungerThanJob(t)' /\ WithinBudget(t)'
           /\ ListedOver'
  <1>1. UNCHANGED <<call, wall, clock>> /\ \A t \in Subs : Live(t)' <=> Live(t)
    BY DEF callVars, Live
  <1>2. \A t \in Subs : YoungerThanJob(t)'
    <2>1. \A t \in Subs : clock[t] >= 0
      BY Bounds DEF TypeOK
    <2> QED
      BY <1>1, <2>1 DEF SafeInv, YoungerThanJob
  <1>3. \A t \in Subs : WithinBudget(t)'
    BY <1>1 DEF SafeInv, WithinBudget
  <1>4. ListedOver'
    BY <1>1 DEF SafeInv, ListedOver, TypeOK
  <1> QED
    BY <1>2, <1>3, <1>4

LEMMA DaemonSafe ==
    ASSUME TypeOK, SafeInv, NEW s \in Subs, AskDaemon(s) \/ DaemonStarts(s) \/ ClientExits(s)
    PROVE  SafeInv'
  <1>1. UNCHANGED <<backend, callVars, threadVars, failed, listed>> /\ backend = "docker"
    BY DEF AskDaemon, DaemonStarts, ClientExits, procVars, SafeInv, OneBackend
  <1>2. \A t \in Subs : \A k \in Kinds(backend) :
          /\ Exists(t, k)' => age'[t][k] = 0 \/ (Exists(t, k) /\ age'[t][k] = age[t][k])
          /\ call[t] = "none" => obj'[t][k] = obj[t][k]
    <2>1. CASE ClientExits(s)
      BY <2>1 DEF ClientExits, objVars, Exists
    <2>2. CASE AskDaemon(s) \/ DaemonStarts(s)
      <3>1. call[s] # "none"
        BY <1>1, <2>2 DEF AskDaemon, DaemonStarts, SafeInv, Fresh, Kinds
      <3>2. "container" \in Kinds(backend) /\ \E st : Become(s, "container", st)
        BY <1>1, <2>2 DEF AskDaemon, DaemonStarts, Kinds
      <3> QED
        BY <3>1, <3>2, BecomeEffect DEF Exists
    <2> QED
      BY <2>1, <2>2
  <1>3. /\ \A t \in Subs : YoungerThanJob(t)' /\ WithinBudget(t)'
        /\ ListedOver'
    BY <1>1, <1>2, ObjectFrame
  <1>4. \A t \in Subs : client[t] = "none" => client'[t] = "none"
    BY DEF AskDaemon, DaemonStarts, ClientExits, TypeOK
  <1>5. \A t \in Subs : Fresh(t)' /\ OneBackend(t)' /\ ThreadOwns(t)'
    BY <1>1, <1>2, <1>4 DEF SafeInv, Fresh, OneBackend, ThreadOwns, callVars, threadVars
  <1> QED
    BY <1>3, <1>5 DEF SafeInv

LEMMA DockerKillSafe ==
    ASSUME TypeOK, SafeInv, NEW s \in Subs, DockerKill(s)
    PROVE  SafeInv'
  <1>1. /\ UNCHANGED <<backend, wall, clock, client, thread, cleaner, listed>> /\ backend = "docker"
        /\ call[s] # "none" /\ call'[s] \in {"drain", "reap"} /\ (Live(s)' => Live(s))
        /\ \A t \in Subs \ {s} : call'[t] = call[t]
    BY DEF DockerKill, Call, TypeOK, SafeInv, OneBackend, Live, procVars, threadVars
  <1>2. \A t \in Subs : (Live(t)' => Live(t)) /\ (call'[t] = "none" <=> call[t] = "none")
    BY <1>1 DEF Live
  <1>3. \A t \in Subs : \A k \in Kinds(backend) :
          /\ Exists(t, k)' => Exists(t, k) /\ age'[t][k] = age[t][k]
          /\ obj[t][k] = "none" => obj'[t][k] = "none"
    BY RemoveEffect DEF DockerKill, objVars, Exists
  <1>4. \A t \in Subs : Fresh(t)' /\ OneBackend(t)' /\ ThreadOwns(t)'
    BY <1>1, <1>2, <1>3 DEF SafeInv, Fresh, OneBackend, ThreadOwns
  <1>5. \A t \in Subs : YoungerThanJob(t)' /\ WithinBudget(t)'
    BY <1>1, <1>2, <1>3 DEF SafeInv, YoungerThanJob, WithinBudget
  <1>6. ListedOver'
    BY <1>1, <1>2 DEF SafeInv, ListedOver, TypeOK
  <1> QED
    BY <1>4, <1>5, <1>6 DEF SafeInv

\* A step of the thread of a Pod run, or of the thread that deletes it.
LEMMA ThreadSafe ==
    ASSUME TypeOK, SafeInv, NEW s \in Subs,
           \/ CreateConfigMap(s) \/ CreatePod(s) \/ Poll(s) \/ ReadLog(s)
           \/ TearDown(s) \/ DeleteRun(s)
    PROVE  SafeInv'
  <1>1. /\ UNCHANGED <<backend, callVars, client, listed>>
        /\ thread[s] # "none" \/ cleaner[s] # "none"
        /\ \A t \in Subs \ {s} : thread'[t] = thread[t] /\ cleaner'[t] = cleaner[t]
    BY DEF CreateConfigMap, CreatePod, Poll, ReadLog, TearDown, DeleteRun, Thread, procVars, TypeOK
  <1>2. backend = "k8s" /\ Kinds(backend) = {"pod", "configmap"} /\ call[s] # "none"
    BY <1>1, SandboxAssumption DEF SafeInv, OneBackend, Fresh, TypeOK, Kinds
  <1>3. \A t \in Subs, k \in Kinds(backend) :
          /\ Exists(t, k)' => age'[t][k] = 0 \/ (Exists(t, k) /\ age'[t][k] = age[t][k])
          /\ t # s => (Exists(t, k)' => Exists(t, k)) /\ (obj[t][k] = "none" => obj'[t][k] = "none")
    <2>1. CASE \E j \in Kinds(backend) : Become(s, j, "up")
      BY <2>1, BecomeEffect DEF Exists
    <2>2. CASE \E K : Remove(s, K)
      BY <2>2, RemoveEffect
    <2>3. CASE UNCHANGED objVars
      BY <2>3 DEF objVars, Exists
    <2> QED
      BY <1>2, <2>1, <2>2, <2>3
      DEF CreateConfigMap, CreatePod, Poll, ReadLog, TearDown, DeleteRun, Delete
  <1>4. /\ \A t \in Subs : YoungerThanJob(t)' /\ WithinBudget(t)'
        /\ ListedOver'
    BY <1>1, <1>3, ObjectFrame
  <1>5. \A t \in Subs : Fresh(t)'
    BY <1>1, <1>2, <1>3 DEF SafeInv, Fresh, callVars
  <1>6. \A t \in Subs : OneBackend(t)'
    BY <1>1, <1>2 DEF SafeInv, OneBackend, callVars
  <1>7. failed \subseteq failed'
    BY DEF CreateConfigMap, CreatePod, Poll, ReadLog, TearDown, DeleteRun, Delete
  <1>8. \A t \in Subs \ {s} : ThreadOwns(t)'
    BY <1>1, <1>2, <1>3, <1>7 DEF SafeInv, ThreadOwns
  <1>9. ThreadOwns(s)'
    <2> SUFFICES ASSUME s \notin failed'
                 PROVE  /\ Exists(s, "pod")' => thread'[s] \in {"poll", "log", "delpod", "lost"}
                        /\ Exists(s, "configmap")' =>
                             thread'[s] \in {"pod", "poll", "log", "delpod", "delconfigmap", "lost"}
      BY DEF ThreadOwns
    <2>1. /\ Exists(s, "pod") => thread[s] \in {"poll", "log", "delpod", "lost"}
          /\ Exists(s, "configmap") =>
               thread[s] \in {"pod", "poll", "log", "delpod", "delconfigmap", "lost"}
      BY <1>2, <1>7 DEF SafeInv, ThreadOwns
    <2>2. CASE CreateConfigMap(s)
      <3>1. Become(s, "configmap", "up") /\ thread[s] = "configmap" /\ thread'[s] = "pod"
        BY <2>2 DEF CreateConfigMap, Thread, TypeOK
      <3> QED
        BY <1>2, <2>1, <3>1, BecomeEffect DEF Exists
    <2>3. CASE CreatePod(s)
      <3>1. /\ thread[s] = "pod" /\ thread'[s] \in {"poll", "delpod"}
            /\ Become(s, "pod", "up") \/ UNCHANGED objVars
        BY <2>3 DEF CreatePod, Thread, TypeOK
      <3> QED
        BY <1>2, <2>1, <3>1, BecomeEffect DEF Exists, objVars
    <2>4. CASE Poll(s) \/ ReadLog(s)
      BY <2>1, <2>4 DEF Poll, ReadLog, Thread, TypeOK, objVars, Exists
    <2>5. CASE TearDown(s)
      <3>1. \/ thread[s] = "delpod" /\ thread'[s] = "delconfigmap" /\ Remove(s, {"pod"})
            \/ thread[s] = "delconfigmap" /\ thread'[s] = "done" /\ Remove(s, {"configmap"})
        BY <2>5 DEF TearDown, Delete, Thread, TypeOK
      <3> QED
        BY <1>2, <2>1, <3>1, RemoveEffect
    <2>6. CASE DeleteRun(s)
      <3>1. thread' = thread /\ \E K : Remove(s, K)
        BY <2>6 DEF DeleteRun, Delete
      <3> QED
        BY <1>2, <2>1, <3>1, RemoveEffect
    <2> QED
      BY <2>2, <2>3, <2>4, <2>5, <2>6
  <1> QED
    BY <1>4, <1>5, <1>6, <1>8, <1>9 DEF SafeInv

LEMMA SandboxEndsSafe ==
    ASSUME TypeOK, SafeInv, NEW s \in Subs, NEW k \in Kinds(backend), SandboxEnds(s, k)
    PROVE  SafeInv'
  <1>1. UNCHANGED <<backend, callVars, client, threadVars, failed, listed>>
    BY DEF SandboxEnds, procVars
  <1>2. \A t \in Subs, j \in Kinds(backend) :
          /\ Exists(t, j)' => age'[t][j] = 0 \/ (Exists(t, j) /\ age'[t][j] = age[t][j])
          /\ Exists(t, j)' => Exists(t, j)
          /\ obj[t][j] = "none" => obj'[t][j] = "none"
    BY DEF SandboxEnds, TypeOK, Exists
  <1>3. /\ \A t \in Subs : YoungerThanJob(t)' /\ WithinBudget(t)'
        /\ ListedOver'
    BY <1>1, <1>2, ObjectFrame
  <1>4. \A t \in Subs : Fresh(t)' /\ OneBackend(t)'
    BY <1>1, <1>2 DEF SafeInv, Fresh, OneBackend, callVars, threadVars
  <1>5. \A t \in Subs : ThreadOwns(t)'
    BY <1>1, <1>2 DEF SafeInv, ThreadOwns, threadVars, Kinds
  <1> QED
    BY <1>3, <1>4, <1>5 DEF SafeInv

LEMMA ReapOrphanSafe ==
    ASSUME TypeOK, SafeInv, NEW w \in Workers, NEW s \in Subs, ReapOrphan(w, s)
    PROVE  SafeInv'
  <1>1. /\ UNCHANGED <<backend, callVars, client, threadVars, failed>>
        /\ \A v \in Workers : listed'[v] \subseteq listed[v]
    BY DEF ReapOrphan, procVars, TypeOK
  <1>2. \A t \in Subs, j \in Kinds(backend) :
          /\ Exists(t, j)' => Exists(t, j) /\ age'[t][j] = age[t][j]
          /\ obj[t][j] = "none" => obj'[t][j] = "none"
    <2>1. CASE UNCHANGED objVars
      BY <2>1 DEF objVars, Exists
    <2>2. CASE Remove(s, Kinds(backend))
      BY <2>2, RemoveEffect
    <2> QED
      BY <2>1, <2>2 DEF ReapOrphan
  <1>3. /\ \A t \in Subs : YoungerThanJob(t)' /\ WithinBudget(t)'
        /\ ListedOver'
    BY <1>1, <1>2, ObjectFrame
  <1>4. \A t \in Subs : Fresh(t)' /\ OneBackend(t)'
    BY <1>1, <1>2 DEF SafeInv, Fresh, OneBackend, callVars, threadVars
  <1>5. \A t \in Subs : ThreadOwns(t)'
    BY <1>1, <1>2 DEF SafeInv, ThreadOwns, threadVars, Kinds
  <1> QED
    BY <1>3, <1>4, <1>5 DEF SafeInv

\* What is old enough to be listed is older than the job timeout, and no live run is.
LEMMA ListOrphansSafe ==
    ASSUME TypeOK, SafeInv, NEW w \in Workers, ListOrphans(w) \/ SweepFails(w)
    PROVE  SafeInv'
  <1>1. UNCHANGED <<procVars, callVars, client, threadVars, objVars, failed>>
    BY DEF ListOrphans, SweepFails
  <1>2. \A t \in Subs : /\ Fresh(t)' /\ OneBackend(t)'
                        /\ YoungerThanJob(t)' /\ WithinBudget(t)' /\ ThreadOwns(t)'
    BY <1>1 DEF SafeInv, Fresh, OneBackend, YoungerThanJob, WithinBudget, ThreadOwns, Live, Exists,
                procVars, callVars, threadVars, objVars
  <1>3. ASSUME NEW t \in Subs, Old(t) PROVE call[t] # "none" /\ ~Live(t)
    <2>1. PICK k \in Kinds(backend) : Exists(t, k) /\ age[t][k] > MAX_LIVE_SANDBOX_AGE
      BY <1>3 DEF Old
    <2>2. call[t] # "none"
      BY <2>1 DEF SafeInv, Fresh, Exists
    <2>3. age[t][k] \in Int /\ clock[t] \in Int /\ clock[t] <= JUDGE_JOB_TIMEOUT
      BY Bounds DEF TypeOK
    <2>4. ~Live(t)
      BY <2>1, <2>3, Bounds DEF SafeInv, YoungerThanJob
    <2> QED
      BY <2>2, <2>4
  <1>4. UNCHANGED call
    BY <1>1 DEF callVars
  <1>5. ListedOver'
    <2>1. ASSUME NEW v \in Workers, NEW t \in listed'[v] PROVE call[t] # "none" /\ ~Live(t)
      <3>1. t \in listed[v] \/ (t \in Subs /\ Old(t))
        <4>1. PICK L : /\ listed' = [listed EXCEPT ![w] = L]
                       /\ L = {r \in Subs : Old(r)} \/ L = {}
          BY DEF ListOrphans, SweepFails
        <4>2. listed'[v] = IF v = w THEN L ELSE listed[v]
          BY <4>1 DEF TypeOK
        <4> QED
          BY <2>1, <4>1, <4>2
      <3> QED
        BY <1>3, <3>1 DEF SafeInv, ListedOver
    <2> QED
      BY <1>4, <2>1 DEF ListedOver, Live
  <1> QED
    BY <1>2, <1>5 DEF SafeInv

LEMMA CrashSafe ==
    ASSUME TypeOK, SafeInv, NEW w \in Workers, Crash(w)
    PROVE  SafeInv'
  <1>1. UNCHANGED <<backend, obj, age, failed>>
    BY DEF Crash, objVars
  <1>2. \A t \in Subs : /\ call'[t] = "none" <=> call[t] = "none"
                        /\ call'[t] \in {"kill", "drain", "reap"} => call[t] \in {"kill", "drain", "reap"}
                        /\ Live(t)' => Live(t) /\ owner[t] # w
    BY DEF Crash, TypeOK, Live
  <1>3. \A t \in Subs : owner[t] # w => wall'[t] = wall[t] /\ clock'[t] = clock[t]
    BY DEF Crash
  <1>4. \A t \in Subs : /\ client'[t] = "none" <=> client[t] = "none"
                        /\ thread'[t] = thread[t] \/ (thread[t] # "none" /\ thread'[t] = "lost")
                        /\ cleaner'[t] = "none" <=> cleaner[t] = "none"
    BY DEF Crash, TypeOK
  <1>5. \A t \in Subs : Fresh(t)' /\ OneBackend(t)'
    BY <1>1, <1>2, <1>4 DEF SafeInv, Fresh, OneBackend
  <1>6. \A t \in Subs : YoungerThanJob(t)' /\ WithinBudget(t)'
    BY <1>1, <1>2, <1>3 DEF SafeInv, YoungerThanJob, WithinBudget, Exists
  <1>7. \A t \in Subs : ThreadOwns(t)'
    BY <1>1, <1>4 DEF SafeInv, ThreadOwns, Exists
  <1>8. ListedOver'
    <2>1. \A v \in Workers : listed'[v] \subseteq listed[v]
      BY DEF Crash, TypeOK
    <2> QED
      BY <1>2, <2>1 DEF SafeInv, ListedOver, TypeOK
  <1> QED
    BY <1>5, <1>6, <1>7, <1>8 DEF SafeInv

\* The job's age advances with the ages of its objects.
LEMMA TickSafe ==
    ASSUME TypeOK, SafeInv, Tick
    PROVE  SafeInv'
  <1>1. UNCHANGED <<backend, call, wall, client, thread, cleaner, obj, failed, listed>>
    BY DEF Tick, procVars, threadVars
  <1>2. \A t \in Subs : Fresh(t)' /\ OneBackend(t)' /\ WithinBudget(t)' /\ ThreadOwns(t)'
    BY <1>1 DEF SafeInv, Fresh, OneBackend, WithinBudget, ThreadOwns, Live, Exists
  <1>3. ListedOver'
    BY <1>1 DEF SafeInv, ListedOver, Live
  <1>4. \A t \in Subs : YoungerThanJob(t)'
    <2>1. ASSUME NEW t \in Subs, Live(t), NEW k \in Kinds(backend), Exists(t, k)
          PROVE  age'[t][k] <= clock'[t]
      <3>1. age[t][k] <= clock[t] /\ clock'[t] = clock[t] + 1
        BY <2>1 DEF SafeInv, YoungerThanJob, Tick, TypeOK
      <3>2. age'[t][k] = age[t][k] \/ age'[t][k] = age[t][k] + 1
        BY DEF Tick, TypeOK
      <3>3. age[t][k] \in Int /\ clock[t] \in Int
        BY Bounds DEF TypeOK
      <3> QED
        BY <3>1, <3>2, <3>3
    <2> QED
      BY <1>1, <2>1 DEF YoungerThanJob, Live, Exists
  <1> QED
    BY <1>2, <1>3, <1>4 DEF SafeInv

LEMMA NextSafeInv == TypeOK /\ SafeInv /\ [Next]_vars => SafeInv'
  <1> SUFFICES ASSUME TypeOK, SafeInv, [Next]_vars PROVE SafeInv'
    OBVIOUS
  <1>1. ASSUME NEW s \in Subs, NEW w \in Workers, Start(w, s) \/ ReapOrphan(w, s) PROVE SafeInv'
    BY <1>1, StartSafe, ReapOrphanSafe
  <1>2. ASSUME NEW s \in Subs, Cancel(s) \/ DockerStep(s) PROVE SafeInv'
    BY <1>2, CallSafe, DockerKillSafe DEF DockerStep
  <1>3. ASSUME NEW s \in Subs, AskDaemon(s) \/ DaemonStarts(s) \/ ClientExits(s) PROVE SafeInv'
    BY <1>3, DaemonSafe
  <1>4. ASSUME NEW s \in Subs, K8sStep(s) PROVE SafeInv'
    BY <1>4, ThreadSafe, CallSafe DEF K8sStep
  <1>5. ASSUME NEW s \in Subs, NEW k \in Kinds(backend), SandboxEnds(s, k) PROVE SafeInv'
    BY <1>5, SandboxEndsSafe
  <1>6. ASSUME NEW w \in Workers, ListOrphans(w) \/ SweepFails(w) PROVE SafeInv'
    BY <1>6, ListOrphansSafe
  <1>7. ASSUME NEW w \in Workers, Crash(w) PROVE SafeInv'
    BY <1>7, CrashSafe
  <1>8. ASSUME (\E w \in Workers : Restart(w)) \/ UNCHANGED vars PROVE SafeInv'
    <2>1. UNCHANGED <<backend, callVars, client, threadVars, objVars, failed, listed>>
      BY <1>8 DEF Restart, vars, procVars
    <2> QED
      BY <2>1 DEF SafeInv, Fresh, OneBackend, YoungerThanJob, WithinBudget, ThreadOwns, ListedOver,
                  Live, Exists, callVars, threadVars, objVars
  <1>9. CASE Tick
    BY <1>9, TickSafe
  <1> QED
    BY <1>1, <1>2, <1>3, <1>4, <1>5, <1>6, <1>7, <1>8, <1>9 DEF Next

LEMMA SafeInvariant == Spec => [](TypeOK /\ SafeInv)
  <1>1. Init => TypeOK /\ SafeInv
    BY InitTypeOK, InitSafeInv
  <1>2. TypeOK /\ SafeInv /\ [Next]_vars => (TypeOK /\ SafeInv)'
    BY NextTypeOK, NextSafeInv
  <1> QED
    BY <1>1, <1>2, PTL DEF Spec

\* The sweep of any worker process only ever removes the sandbox of a run that nobody waits for,
\* however many processes share the daemon or namespace and whoever created the sandbox.
THEOREM SweepIsSafe == Spec => []SweptIsOver
  BY SafeInvariant, SafeInvProps, PTL

\* A job reaches arq's timeout only after it has spent more than the margin outside its run, for
\* every problem the seed command accepts.
THEOREM BudgetHolds == Spec => []OwnKillFirst
  BY SafeInvariant, SafeInvProps, PTL

\* A Pod run none of whose calls failed leaves neither Pod nor ConfigMap, at whichever of its
\* steps it was cancelled.
THEOREM PodRunCleansUp == Spec => []CleanedUp
  BY SafeInvariant, SafeInvProps, PTL
=============================================================================
