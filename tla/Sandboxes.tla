----------------------------- MODULE Sandboxes -----------------------------
(***************************************************************************)
(* The life of a sandbox, for both backends of worker/runner.py: a          *)
(* container under worker/docker_runner.py, a Pod and the ConfigMap with    *)
(* its payload under worker/k8s_runner.py.  Several worker processes share  *)
(* the daemon or the namespace, and each sweeps all of it for orphans.      *)
(* Workers crash and come back; jobs are cancelled; calls to the Docker     *)
(* daemon and to the API server fail.                                      *)
(*                                                                         *)
(* A submission is judged by one job only (JudgePipeline), so its id, which *)
(* names the sandbox, is used once.                                        *)
(***************************************************************************)
EXTENDS JudgeBudget

CONSTANTS
    Subs, Workers, NoWorker,
    Backends,                                  \* those this instance looks at
    CaseCounts, TimeLimits, StartupSlacks,     \* of the problems being judged
    MaxCrashes                                 \* bound on the crashes of workers

Kinds(b) == IF b = "docker" THEN {"container"} ELSE {"pod", "configmap"}

ASSUME SandboxAssumption ==
    /\ NoWorker \notin Workers
    /\ Backends \subseteq {"docker", "k8s"}
    /\ CaseCounts \subseteq Nat /\ TimeLimits \subseteq Nat /\ StartupSlacks \subseteq Nat
    /\ MaxCrashes \in Nat

VARIABLES
    backend,               \* JUDGE_RUNNER
    up, crashes,           \* worker processes, crashes so far
    owner,                 \* the process that runs the job of a submission
    active,                \* each process's _active
    call,                  \* where run_in_container stands
    wall, waited, clock,   \* its wall clock, how much of it has passed, the age of its job
    client,                \* docker: the `docker run` process
    thread, stop, cleaner, \* k8s: the polling thread, its cancel flag, the thread of _delete_run
    obj, age,              \* the objects of a sandbox, time since their creation
    failed,                \* history: submissions with a failed create or delete
    listed                 \* what the sweep of a process is about to remove

callVars   == <<owner, active, call, wall, waited, clock>>
threadVars == <<thread, stop, cleaner>>
objVars    == <<obj, age>>
procVars   == <<backend, up, crashes>>
vars == <<procVars, callVars, client, threadVars, objVars, failed, listed>>

Live(s) == call[s] \in {"wait", "kill", "drain"}
Over(s) == call[s] \in {"done", "lost"}
InProgress(s) == call[s] # "none" /\ ~Over(s)
Exists(s, k) == obj[s][k] \in {"up", "ended"}
Polling(s) == IF backend = "docker" THEN call[s] = "wait" ELSE thread[s] = "poll"

MaxAge == MAX_LIVE_SANDBOX_AGE + 1

TypeOK ==
    /\ backend \in Backends
    /\ up \subseteq Workers
    /\ crashes \in 0..MaxCrashes
    /\ owner \in [Subs -> Workers \cup {NoWorker}]
    /\ active = [w \in Workers |-> {s \in Subs : owner[s] = w /\ InProgress(s)}]
    /\ call \in [Subs -> {"none", "wait", "kill", "drain", "cancelled", "reap", "done", "lost"}]
    /\ wall \in [Subs -> Nat]
    /\ waited \in [Subs -> Nat]
    /\ clock \in [Subs -> 0..JUDGE_JOB_TIMEOUT]
    /\ \A s \in Subs : waited[s] <= wall[s]
    /\ client \in [Subs -> {"none", "alive", "exited", "dead"}]
    /\ thread \in [Subs -> {"none", "configmap", "pod", "poll", "log", "delpod", "delconfigmap",
                            "done", "lost"}]
    /\ stop \subseteq Subs
    /\ cleaner \in [Subs -> {"none", "pod", "configmap", "done", "lost"}]
    /\ obj \in [Subs -> [Kinds(backend) -> {"none", "asked", "up", "ended", "gone"}]]
    /\ age \in [Subs -> [Kinds(backend) -> 0..MaxAge]]
    /\ failed \subseteq Subs
    /\ listed \in [Workers -> SUBSET Subs]

Init ==
    /\ backend \in Backends
    /\ up = Workers
    /\ crashes = 0
    /\ owner = [s \in Subs |-> NoWorker]
    /\ active = [w \in Workers |-> {}]
    /\ call = [s \in Subs |-> "none"]
    /\ wall = [s \in Subs |-> 0]
    /\ waited = [s \in Subs |-> 0]
    /\ clock = [s \in Subs |-> 0]
    /\ client = [s \in Subs |-> "none"]
    /\ thread = [s \in Subs |-> "none"]
    /\ stop = {}
    /\ cleaner = [s \in Subs |-> "none"]
    /\ obj = [s \in Subs |-> [k \in Kinds(backend) |-> "none"]]
    /\ age = [s \in Subs |-> [k \in Kinds(backend) |-> 0]]
    /\ failed = {}
    /\ listed = [w \in Workers |-> {}]

-----------------------------------------------------------------------------
(* Objects *)

Become(s, k, st) ==
    /\ obj' = [obj EXCEPT ![s][k] = st]
    /\ age' = [age EXCEPT ![s][k] = 0]

\* kill or delete: of what exists.  An object that is not there yet is not found.
Remove(s, K) ==
    LET found == {k \in K : Exists(s, k)} IN
    /\ obj' = [obj EXCEPT ![s] = [k \in Kinds(backend) |-> IF k \in found THEN "gone" ELSE @[k]]]
    /\ age' = [age EXCEPT ![s] = [k \in Kinds(backend) |-> IF k \in found THEN 0 ELSE @[k]]]

Call(s, pc) == call' = [call EXCEPT ![s] = pc]
Thread(s, pc) == thread' = [thread EXCEPT ![s] = pc]

-----------------------------------------------------------------------------
(* run_in_container, either backend *)

\* Loading and claiming the row took part of the job's time.
Start(w, s) ==
    /\ w \in up
    /\ call[s] = "none"
    /\ owner' = [owner EXCEPT ![s] = w]
    /\ active' = [active EXCEPT ![w] = @ \cup {s}]
    /\ Call(s, "wait")
    /\ \E n \in CaseCounts, t \in TimeLimits, startup \in StartupSlacks :
         /\ FitsJobTimeout(n, t, startup)
         /\ wall' = [wall EXCEPT ![s] = WallBudget(n, t, startup)]
    /\ waited' = [waited EXCEPT ![s] = 0]
    /\ \E spent \in 0..JUDGE_JOB_TIMEOUT :
         /\ spent <= KILL_AND_WRITE_MARGIN
         /\ clock' = [clock EXCEPT ![s] = spent]
    /\ IF backend = "docker"
         THEN client' = [client EXCEPT ![s] = "alive"] /\ UNCHANGED thread
         ELSE Thread(s, "configmap") /\ UNCHANGED client
    /\ UNCHANGED <<procVars, stop, cleaner, objVars, failed, listed>>

\* Mutant of End: there is no finally.
EndOnly(s) ==
    /\ Call(s, "done")
    /\ UNCHANGED <<owner, active, wall, waited, clock>>

\* It returns or raises: finally, the name leaves _active.
End(s) ==
    /\ Call(s, "done")
    /\ active' = [w \in Workers |-> IF w = owner[s] THEN active[w] \ {s} ELSE active[w]]
    /\ wall' = [wall EXCEPT ![s] = 0]       \* nobody looks at these again
    /\ waited' = [waited EXCEPT ![s] = 0]
    /\ clock' = [clock EXCEPT ![s] = 0]
    /\ UNCHANGED owner

\* arq's timeout, or a shutdown of the worker.  A thread that is still queued never runs.
Cancel(s) ==
    /\ Live(s)
    /\ Call(s, "cancelled")
    /\ IF backend = "docker" THEN UNCHANGED threadVars
       ELSE /\ stop' = stop \cup {s}
            /\ cleaner' = [cleaner EXCEPT ![s] = "pod"]
            /\ \/ UNCHANGED thread
               \/ thread[s] = "configmap" /\ Thread(s, "done")
    /\ UNCHANGED <<procVars, owner, active, wall, waited, clock, client, objVars, failed, listed>>

-----------------------------------------------------------------------------
(* docker_runner *)

\* The client asks the daemon for the container, and the daemon starts it, later perhaps.
AskDaemon(s) ==
    /\ client[s] = "alive"
    /\ obj[s]["container"] = "none"
    /\ Become(s, "container", "asked")
    /\ UNCHANGED <<procVars, callVars, client, threadVars, failed, listed>>

DaemonStarts(s) ==
    /\ backend = "docker"
    /\ obj[s]["container"] = "asked"
    /\ Become(s, "container", "up")
    /\ UNCHANGED <<procVars, callVars, client, threadVars, failed, listed>>

ClientExits(s) ==
    /\ client[s] = "alive"
    /\ obj[s]["container"] = "gone"
    /\ client' = [client EXCEPT ![s] = "exited"]
    /\ UNCHANGED <<procVars, callVars, threadVars, objVars, failed, listed>>

Communicate(s) ==
    /\ call[s] = "wait"
    /\ \/ client[s] = "exited" /\ End(s)
       \/ /\ backend = "docker" /\ waited[s] = wall[s]
          /\ Call(s, "kill")
          /\ UNCHANGED <<owner, active, wall, waited, clock>>
    /\ UNCHANGED <<procVars, client, threadVars, objVars, failed, listed>>

\* docker kill: its exit status is not looked at.
DockerKill(s) ==
    /\ \/ call[s] = "kill" /\ Call(s, "drain")
       \/ call[s] = "cancelled" /\ backend = "docker" /\ Call(s, "reap")
    /\ \/ Remove(s, {"container"}) /\ UNCHANGED failed
       \/ UNCHANGED objVars /\ failed' = failed \cup {s}
    /\ UNCHANGED <<procVars, owner, active, wall, waited, clock, client, threadVars, listed>>

\* Up to five seconds more; a client that is still alive is left alone after a wall-clock kill,
\* and killed after a cancellation.
Drain(s) ==
    /\ call[s] \in {"drain", "reap"}
    /\ client' = IF call[s] = "reap" /\ client[s] = "alive"
                   THEN [client EXCEPT ![s] = "dead"] ELSE client
    /\ End(s)
    /\ UNCHANGED <<procVars, threadVars, objVars, failed, listed>>

DockerStep(s) == Communicate(s) \/ DockerKill(s) \/ Drain(s)

-----------------------------------------------------------------------------
(* k8s_runner: _run_sync in a thread *)

CreateConfigMap(s) ==
    /\ thread[s] = "configmap"
    /\ \/ Become(s, "configmap", "up") /\ Thread(s, "pod") /\ UNCHANGED failed
       \/ /\ Become(s, "configmap", "up") \/ UNCHANGED objVars   \* raises, before the try
          /\ Thread(s, "done")
          /\ failed' = failed \cup {s}
    /\ UNCHANGED <<procVars, callVars, client, stop, cleaner, listed>>

CreatePod(s) ==
    /\ thread[s] = "pod"
    /\ \/ Become(s, "pod", "up") /\ Thread(s, "poll")
       \/ /\ Become(s, "pod", "up") \/ UNCHANGED objVars         \* raises
          /\ Thread(s, "delpod")
    /\ UNCHANGED <<procVars, callVars, client, stop, cleaner, failed, listed>>

\* Mutant of Poll: a cancelled run leaves at once, without its finally.
PollWithoutFinally(s) ==
    /\ thread[s] = "poll"
    /\ \/ (waited[s] = wall[s] \/ obj[s]["pod"] = "ended") /\ Thread(s, "log")
       \/ s \in stop /\ Thread(s, "done")
       \/ Thread(s, "delpod")
    /\ UNCHANGED <<procVars, callVars, client, stop, cleaner, objVars, failed, listed>>

\* Terminated, cancelled or out of time; or the status cannot be read, because the Pod is gone
\* or the call fails.
Poll(s) ==
    /\ thread[s] = "poll"
    /\ \/ /\ \/ obj[s]["pod"] = "ended"
             \/ s \in stop
             \/ waited[s] = wall[s]
          /\ Thread(s, "log")
       \/ Thread(s, "delpod")
    /\ UNCHANGED <<procVars, callVars, client, stop, cleaner, objVars, failed, listed>>

ReadLog(s) ==
    /\ thread[s] = "log"
    /\ Thread(s, "delpod")
    /\ UNCHANGED <<procVars, callVars, client, stop, cleaner, objVars, failed, listed>>

\* _delete: an ApiException is swallowed; any other error is raised and skips the rest.
Delete(s, k, raised) ==
    \/ Remove(s, {k}) /\ ~raised /\ UNCHANGED failed
    \/ (Remove(s, {k}) \/ UNCHANGED objVars) /\ failed' = failed \cup {s}

TearDown(s) ==
    /\ \E raised \in BOOLEAN :
         \/ /\ thread[s] = "delpod"
            /\ Delete(s, "pod", raised)
            /\ Thread(s, IF raised THEN "done" ELSE "delconfigmap")
         \/ /\ thread[s] = "delconfigmap"
            /\ Delete(s, "configmap", raised)
            /\ Thread(s, "done")
    /\ UNCHANGED <<procVars, callVars, client, stop, cleaner, listed>>

\* _delete_run, when the job is cancelled: it does not wait for the polling thread.
DeleteRun(s) ==
    /\ \E raised \in BOOLEAN :
         \/ /\ cleaner[s] = "pod"
            /\ Delete(s, "pod", raised)
            /\ cleaner' = [cleaner EXCEPT ![s] = IF raised THEN "done" ELSE "configmap"]
         \/ /\ cleaner[s] = "configmap"
            /\ Delete(s, "configmap", raised)
            /\ cleaner' = [cleaner EXCEPT ![s] = "done"]
    /\ UNCHANGED <<procVars, callVars, client, thread, stop, listed>>

ThreadReturns(s) ==
    /\ \/ call[s] = "wait" /\ thread[s] = "done"
       \/ call[s] = "cancelled" /\ cleaner[s] = "done"
    /\ End(s)
    /\ UNCHANGED <<procVars, client, threadVars, objVars, failed, listed>>

K8sStep(s) ==
    \/ CreateConfigMap(s)
    \/ CreatePod(s)
    \/ Poll(s)
    \/ ReadLog(s)
    \/ TearDown(s)
    \/ DeleteRun(s)
    \/ ThreadReturns(s)

\* The harness ends, or the Pod's own deadline ends it.  A container is removed with it (--rm).
SandboxEnds(s, k) ==
    /\ k \in Kinds(backend) \ {"configmap"}
    /\ obj[s][k] = "up"
    /\ obj' = [obj EXCEPT ![s][k] = IF backend = "docker" THEN "gone" ELSE "ended"]
    /\ age' = IF backend = "docker" THEN [age EXCEPT ![s][k] = 0] ELSE age
    /\ UNCHANGED <<procVars, callVars, client, threadVars, failed, listed>>

-----------------------------------------------------------------------------
(* sweep_orphans *)

\* Mutants of Old: the age rule is gone; only Pods are looked at.
OldAtAnyAge(s) == \E k \in Kinds(backend) : Exists(s, k)
OldPod(s) ==
    \E k \in Kinds(backend) \ {"configmap"} : Exists(s, k) /\ age[s][k] > MAX_LIVE_SANDBOX_AGE

\* The newest object of the name is past the age of any live sandbox.
Old(s) ==
    /\ \E k \in Kinds(backend) : Exists(s, k)
    /\ \A k \in Kinds(backend) : Exists(s, k) => age[s][k] > MAX_LIVE_SANDBOX_AGE

ListOrphans(w) ==
    /\ w \in up
    /\ listed[w] = {}
    /\ listed' = [listed EXCEPT ![w] = {s \in Subs : Old(s)}]
    /\ UNCHANGED <<procVars, callVars, client, threadVars, objVars, failed>>

\* A name in the process's own _active is left alone.
ReapOrphan(w, s) ==
    /\ s \in listed[w]
    /\ listed' = [listed EXCEPT ![w] = @ \ {s}]
    /\ IF s \in active[w] THEN UNCHANGED objVars ELSE Remove(s, Kinds(backend))
    /\ UNCHANGED <<procVars, callVars, client, threadVars, failed>>

\* A call of the sweep fails: the rest of the list waits for the next minute.
SweepFails(w) ==
    /\ listed[w] # {}
    /\ listed' = [listed EXCEPT ![w] = {}]
    /\ UNCHANGED <<procVars, callVars, client, threadVars, objVars, failed>>

-----------------------------------------------------------------------------
(* Processes and time *)

\* The worker dies with its threads and its docker clients; the sandboxes live on.
Crash(w) ==
    /\ w \in up
    /\ crashes < MaxCrashes
    /\ crashes' = crashes + 1
    /\ up' = up \ {w}
    /\ active' = [active EXCEPT ![w] = {}]
    /\ listed' = [listed EXCEPT ![w] = {}]
    /\ LET Lost(f, alive) ==
             [s \in Subs |-> IF owner[s] = w /\ f[s] \in alive THEN "lost" ELSE f[s]]
       IN  /\ call' = Lost(call, {"wait", "kill", "drain", "cancelled", "reap"})
           /\ thread' = Lost(thread, {"configmap", "pod", "poll", "log", "delpod", "delconfigmap"})
           /\ cleaner' = Lost(cleaner, {"pod", "configmap"})
    /\ client' = [s \in Subs |-> IF owner[s] = w /\ client[s] = "alive" THEN "dead" ELSE client[s]]
    /\ LET Reset(f) == [s \in Subs |-> IF owner[s] = w THEN 0 ELSE f[s]]
       IN  wall' = Reset(wall) /\ waited' = Reset(waited) /\ clock' = Reset(clock)
    /\ UNCHANGED <<backend, owner, stop, objVars, failed>>

Restart(w) ==
    /\ w \notin up
    /\ up' = up \cup {w}
    /\ UNCHANGED <<backend, crashes, callVars, client, threadVars, objVars, failed, listed>>

\* arq has cancelled a job by the time it is as old as the timeout.
Tick ==
    /\ \A s \in Subs : Live(s) => clock[s] < JUDGE_JOB_TIMEOUT
    /\ clock' = [s \in Subs |-> IF Live(s) THEN clock[s] + 1 ELSE clock[s]]
    /\ waited' = [s \in Subs |-> IF Live(s) /\ Polling(s) /\ waited[s] < wall[s]
                                   THEN waited[s] + 1 ELSE waited[s]]
    /\ age' = [s \in Subs |-> [k \in Kinds(backend) |->
                 IF Exists(s, k) /\ age[s][k] < MaxAge THEN age[s][k] + 1 ELSE age[s][k]]]
    /\ UNCHANGED <<procVars, owner, active, call, wall, client, threadVars, obj, failed, listed>>

Next ==
    \/ \E s \in Subs :
         \/ \E w \in Workers : Start(w, s) \/ ReapOrphan(w, s)
         \/ Cancel(s)
         \/ AskDaemon(s) \/ DaemonStarts(s) \/ ClientExits(s)
         \/ DockerStep(s)
         \/ K8sStep(s)
         \/ \E k \in Kinds(backend) : SandboxEnds(s, k)
    \/ \E w \in Workers : ListOrphans(w) \/ SweepFails(w) \/ Crash(w) \/ Restart(w)
    \/ Tick

Spec == Init /\ [][Next]_vars

\* Time passes, arq cancels at its timeout, a worker that died is restarted, the cron runs on
\* it, and the Docker daemon or API server does not fail for ever.
FairSpec ==
    /\ Spec
    /\ WF_vars(Tick)
    /\ \A s \in Subs : WF_vars(Cancel(s) /\ clock[s] = JUDGE_JOB_TIMEOUT)
    /\ \A w \in Workers :
         /\ WF_vars(Restart(w))
         /\ WF_vars(ListOrphans(w))
         /\ \A s \in Subs : SF_vars(ReapOrphan(w, s))

-----------------------------------------------------------------------------
(* Properties *)

\* "no live container is older than the bound. Older means orphaned, whoever started it"
\* (docker_runner.py): what the sweep of any process is about to remove has nobody waiting
\* for it, in that process or in another.
SweptIsOver == \A w \in Workers : \A s \in listed[w] \ active[w] : ~Live(s)

\* "arq never cancels a judge job that was still within its own budget" (worker/main.py): a job
\* reaches arq's timeout only if it has spent more than the margin outside its wall clock.
OwnKillFirst ==
    \A s \in Subs : Live(s) /\ clock[s] = JUDGE_JOB_TIMEOUT
                      => clock[s] - waited[s] > KILL_AND_WRITE_MARGIN

\* A Pod run leaves nothing behind when no call failed, although the deletion after a
\* cancellation overtakes the thread that is still creating the Pod.
CleanedUp ==
    \A s \in Subs : thread[s] = "done" /\ cleaner[s] \in {"none", "done"} /\ s \notin failed
                      => \A k \in Kinds(backend) : ~Exists(s, k)

\* Whatever a crash, a failed call or a late start left behind is removed in the end.
OrphansReaped ==
    \A s \in Subs : \A k \in {"container", "pod", "configmap"} :
        Over(s) /\ k \in DOMAIN obj[s] /\ obj[s][k] \in {"up", "ended"}
          ~> k \in DOMAIN obj[s] /\ obj[s][k] \notin {"up", "ended"}
=============================================================================
