--------------------------- MODULE CollectorLeader ---------------------------
(***************************************************************************)
(* The lifespan of the worker processes (app.py) and the scheduler's start *)
(* and shutdown (services/scheduler.py): which worker runs the background  *)
(* jobs, and which one serves the metrics.  Both are settled by a process  *)
(* lock, a flock that the kernel releases when the process is gone.        *)
(*                                                                         *)
(* A worker that finds the collector's lock taken serves pages and tries   *)
(* again from time to time.  Starting and stopping are several steps, any  *)
(* of which can fail, be cancelled, or be the last one of the process.     *)
(***************************************************************************)
EXTENDS Naturals

CONSTANTS
    Workers,     \* worker processes
    Nobody,      \* a lock that is free
    Jobs,        \* poll, retention, notifier and disk space check
    MaxFailures  \* bound: failing starts, stops and deaths

ASSUME LeaderAssumption == Nobody \notin Workers /\ MaxFailures \in Nat

VARIABLES
    stage,        \* of each worker, see Stages
    collectorLock, metricsLock,
    metrics,      \* its metrics server: "off", "starting", "on"
    scheduler,    \* its scheduler: "none", "running", "paused"
    retrying,     \* it has the retry task
    submitted,    \* jobs that the scheduler has handed to the event loop
    active,       \* _active_jobs: those that have begun
    failures

leaderVars == <<stage, collectorLock, metricsLock, metrics, scheduler, retrying,
                submitted, active, failures>>
jobVars == <<submitted, active>>

\* stopping: the lifespan is left and the metrics server is told to exit.
Stages == {"down", "booting", "metrics", "collector", "serving", "stopping", "pausing",
           "draining"}

LeaderInit ==
    /\ stage = [w \in Workers |-> "down"]
    /\ collectorLock = Nobody /\ metricsLock = Nobody
    /\ metrics = [w \in Workers |-> "off"] /\ scheduler = [w \in Workers |-> "none"]
    /\ retrying = [w \in Workers |-> FALSE]
    /\ submitted = [w \in Workers |-> {}] /\ active = [w \in Workers |-> {}]
    /\ failures = 0

To(w, s) == stage' = [stage EXCEPT ![w] = s]

\* What is free again when w gives its lock back.
Given(lock, w) == IF lock = w THEN Nobody ELSE lock

\* One of the disruptions that the bound allows.
Fails == failures < MaxFailures /\ failures' = failures + 1

-----------------------------------------------------------------------------
(* Start *)

\* _lifespan up to its try: the migration fails outside of it.
Boot(w) ==
    /\ stage[w] = "down" /\ To(w, "booting")
    /\ UNCHANGED <<collectorLock, metricsLock, metrics, scheduler, retrying, jobVars, failures>>

Migrated(w) ==
    /\ stage[w] = "booting"
    /\ \/ To(w, "metrics") /\ UNCHANGED failures
       \/ To(w, "down") /\ Fails
    /\ UNCHANGED <<collectorLock, metricsLock, metrics, scheduler, retrying, jobVars>>

\* _start_metrics_server; a worker that finds the lock taken goes on without.
StartMetrics(w) ==
    /\ stage[w] = "metrics" /\ metrics[w] = "off"
    /\ \/ /\ metricsLock = Nobody /\ metricsLock' = w
          /\ metrics' = [metrics EXCEPT ![w] = "starting"] /\ UNCHANGED stage
       \/ /\ metricsLock # Nobody /\ To(w, "collector") /\ UNCHANGED <<metricsLock, metrics>>
    /\ UNCHANGED <<collectorLock, scheduler, retrying, jobVars, failures>>

\* _wait_for_metrics_server_startup: it is up, or it exited or timed out, and then
\* the lock is released and the whole worker ends.
MetricsStarted(w) ==
    /\ stage[w] = "metrics" /\ metrics[w] = "starting"
    /\ \/ /\ To(w, "collector") /\ metrics' = [metrics EXCEPT ![w] = "on"]
          /\ UNCHANGED <<metricsLock, failures>>
       \/ /\ To(w, "stopping") /\ metrics' = [metrics EXCEPT ![w] = "off"]
          /\ metricsLock' = Given(metricsLock, w) /\ Fails
    /\ UNCHANGED <<collectorLock, scheduler, retrying, jobVars>>

\* The collector's lock is free, it is taken and CollectorService.start succeeds;
\* nothing is awaited in between.
Leads(w) ==
    /\ collectorLock = Nobody /\ collectorLock' = w
    /\ scheduler' = [scheduler EXCEPT ![w] = "running"]

\* _start_collector_scheduler of the lifespan; without the lock it leaves the
\* retry task behind.
StartCollector(w) ==
    /\ stage[w] = "collector" /\ To(w, "serving")
    /\ \/ Leads(w) /\ UNCHANGED retrying
       \/ /\ collectorLock # Nobody
          /\ retrying' = [retrying EXCEPT ![w] = TRUE] /\ UNCHANGED <<collectorLock, scheduler>>
    /\ UNCHANGED <<metricsLock, metrics, jobVars, failures>>

\* One round of _retry_collector_scheduler_start.  The task is not cancelled before
\* the metrics server has stopped, so it may still take over in a worker that ends.
RetryRound(w) == retrying[w] /\ stage[w] \in {"serving", "stopping"}

Retry(w) ==
    /\ RetryRound(w) /\ Leads(w)
    /\ retrying' = [retrying EXCEPT ![w] = FALSE]
    /\ UNCHANGED <<stage, metricsLock, metrics, jobVars, failures>>

FaultStartKeepsLock(w) ==
    /\ collectorLock = Nobody /\ Fails /\ collectorLock' = w
    /\ \/ stage[w] = "collector" /\ To(w, "stopping")
       \/ RetryRound(w) /\ UNCHANGED stage
    /\ UNCHANGED <<metricsLock, metrics, scheduler, retrying, jobVars>>

\* CollectorService.start raises: the lock is released within the same step; the
\* lifespan ends, the retry task goes on.
SchedulerFails(w) ==
    /\ collectorLock = Nobody /\ Fails /\ UNCHANGED collectorLock
    /\ \/ stage[w] = "collector" /\ To(w, "stopping")
       \/ RetryRound(w) /\ UNCHANGED stage
    /\ UNCHANGED <<metricsLock, metrics, scheduler, retrying, jobVars>>

-----------------------------------------------------------------------------
(* The jobs: one instance of each, begun by a later turn of the event loop. *)

Submit(w, j) ==
    /\ scheduler[w] = "running" /\ j \notin submitted[w] \cup active[w]
    /\ submitted' = [submitted EXCEPT ![w] = @ \cup {j}]
    /\ UNCHANGED <<stage, collectorLock, metricsLock, metrics, scheduler, retrying,
                   active, failures>>

\* _run_tracked_job
Begin(w, j) ==
    /\ j \in submitted[w]
    /\ submitted' = [submitted EXCEPT ![w] = @ \ {j}]
    /\ active' = [active EXCEPT ![w] = @ \cup {j}]
    /\ UNCHANGED <<stage, collectorLock, metricsLock, metrics, scheduler, retrying, failures>>

End(w, j) ==
    /\ j \in active[w]
    /\ active' = [active EXCEPT ![w] = @ \ {j}]
    /\ UNCHANGED <<stage, collectorLock, metricsLock, metrics, scheduler, retrying,
                   submitted, failures>>

-----------------------------------------------------------------------------
(* Stop *)

\* The server asks the worker to stop.
Stop(w) ==
    /\ stage[w] = "serving" /\ Fails /\ To(w, "stopping")
    /\ UNCHANGED <<collectorLock, metricsLock, metrics, scheduler, retrying, jobVars>>

\* _stop_metrics_server is done; the retry task is cancelled, then
\* CollectorService.shutdown pauses the scheduler.
Pause(w) ==
    /\ stage[w] = "stopping" /\ To(w, "pausing")
    /\ metrics' = [metrics EXCEPT ![w] = "off"] /\ metricsLock' = Given(metricsLock, w)
    /\ retrying' = [retrying EXCEPT ![w] = FALSE]
    /\ scheduler' = [scheduler EXCEPT ![w] = IF @ = "running" THEN "paused" ELSE @]
    /\ UNCHANGED <<collectorLock, jobVars, failures>>

FaultNoYield(w) ==
    /\ stage[w] = "pausing" /\ To(w, "draining")
    /\ UNCHANGED <<collectorLock, metricsLock, metrics, scheduler, retrying, jobVars, failures>>

\* asyncio.sleep(0): what was handed to the event loop begins before it returns.
Yield(w) ==
    /\ stage[w] = "pausing" /\ submitted[w] = {} /\ To(w, "draining")
    /\ UNCHANGED <<collectorLock, metricsLock, metrics, scheduler, retrying, jobVars, failures>>

\* _wait_for_active_jobs, the scheduler's shutdown, and the lock in the finally.
Drained(w) ==
    /\ stage[w] = "draining" /\ active[w] = {}
    /\ To(w, "down")
    /\ scheduler' = [scheduler EXCEPT ![w] = "none"]
    /\ collectorLock' = Given(collectorLock, w)
    /\ UNCHANGED <<metricsLock, metrics, retrying, jobVars, failures>>

\* The process dies.
Die(w) ==
    /\ stage[w] # "down" /\ Fails /\ To(w, "down")
    /\ collectorLock' = Given(collectorLock, w) /\ metricsLock' = Given(metricsLock, w)
    /\ metrics' = [metrics EXCEPT ![w] = "off"]
    /\ scheduler' = [scheduler EXCEPT ![w] = "none"]
    /\ retrying' = [retrying EXCEPT ![w] = FALSE]
    /\ submitted' = [submitted EXCEPT ![w] = {}] /\ active' = [active EXCEPT ![w] = {}]

-----------------------------------------------------------------------------
WorkerStep(w) ==
    \/ Migrated(w) \/ StartMetrics(w) \/ MetricsStarted(w) \/ StartCollector(w)
    \/ Retry(w) \/ SchedulerFails(w)
    \/ Pause(w) \/ Yield(w) \/ Drained(w)

JobStep(w) == \E j \in Jobs : Begin(w, j) \/ End(w, j)

LeaderNext ==
    \E w \in Workers :
        \/ Boot(w) \/ WorkerStep(w) \/ Stop(w) \/ Die(w)
        \/ JobStep(w) \/ \E j \in Jobs : Submit(w, j)

LeaderSpec == LeaderInit /\ [][LeaderNext]_leaderVars

\* A process that runs goes on with what it does, and every job has timeouts; the
\* retry task meets a free lock again and again as long as it stays free.
LeaderFairness ==
    \A w \in Workers : WF_leaderVars(WorkerStep(w)) /\ WF_leaderVars(JobStep(w))

-----------------------------------------------------------------------------
(* Properties. *)

Working(w) == scheduler[w] = "running" \/ submitted[w] # {} \/ active[w] # {}

\* Whichever workers start, stop, fail and die, the background jobs run in one of
\* them only, and not a single job of the last leader outlives its lock.
OneWorkerWorks == \A v, w \in Workers : Working(v) /\ Working(w) => v = w

\* As long as a worker serves, it takes over, or another one leads, or it stops,
\* once the workers are left alone.  No failed, cancelled or killed leader leaves
\* the lock behind.
LeaderRegained ==
    \A w \in Workers :
        stage[w] = "serving" ~> (\E v \in Workers : scheduler[v] = "running") \/ stage[w] # "serving"
=============================================================================
