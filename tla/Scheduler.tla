------------------------------ MODULE Scheduler ------------------------------
(***************************************************************************)
(* The job scheduler of one process (framework/scheduler/manager.go): the  *)
(* startup sequence, StartBackgroundJobs and StopBackgroundJobs, the       *)
(* fixed-rate and fixed-delay loops, the cron engine and manual triggers.  *)
(*                                                                         *)
(* Start and stop calls interleave freely, for nothing in the code keeps   *)
(* them apart; overlapped remembers that some of them did overlap, and     *)
(* the properties say which promises that costs.  The lock a job may need  *)
(* is module ShedLock; a job that is skipped for it returns at once.       *)
(***************************************************************************)
EXTENDS Naturals, FiniteSets

CONSTANTS
  StartupJobs,  \* jobs with run-on-startup
  Critical,     \* those marked critical
  Priority,     \* [StartupJobs -> Nat]
  Jobs,         \* background jobs, enabled and registered
  Kind,         \* [Jobs -> Kinds]
  Triggered,    \* background jobs that are also triggered by hand
  Starters,     \* calls of StartBackgroundJobs
  Stoppers,     \* calls of StopBackgroundJobs
  MaxRuns,      \* bound on concurrent runs of one job outside the loops
  Nil

Kinds == {"cron", "rate", "delay"}

ASSUME SchedulerAssumption ==
  /\ Critical \subseteq StartupJobs /\ Triggered \subseteq Jobs
  /\ Priority \in [StartupJobs -> Nat]
  /\ Kind \in [Jobs -> Kinds]
  /\ Nil \notin Starters
  /\ MaxRuns \in Nat

VARIABLES
  startup,      \* "pending", "done" or "failed": RunStartupTasksE
  result,       \* what became of each startup job
  running,      \* schedulerRunning
  stopChan,     \* schedulerStopChan: the start call that made it, or Nil
  closed,       \* the stop channels that are closed
  cronManager,  \* the cron engine, named by the start call that made it, or Nil
  cron, entries,         \* per engine: its state and its entries
  startPc, toSchedule,   \* per start call
  stopPc,                \* per stop call
  loop, loopChan,        \* per start call and job: the loop goroutine, its channel
  detached,     \* per job: goroutines of cron firings and manual triggers running it
  panic,        \* what killed the process
  overlapped    \* history: a start call and a stop call overlapped

startupVars == <<startup, result>>
cronVars == <<cronManager, cron, entries>>
loopVars == <<loop, loopChan>>
vars == <<startupVars, running, stopChan, closed, cronVars, startPc, toSchedule, stopPc,
          loopVars, detached, panic, overlapped>>

Loops == {j \in Jobs : Kind[j] # "cron"}
Alive(g, j) == loop[g][j] \notin {"none", "exited"}

Init ==
  /\ startup = "pending"
  /\ result = [j \in StartupJobs |-> "waiting"]
  /\ running = FALSE /\ stopChan = Nil /\ closed = {}
  /\ cronManager = Nil
  /\ cron = [g \in Starters |-> "none"]
  /\ entries = [g \in Starters |-> {}]
  /\ startPc = [g \in Starters |-> "idle"]
  /\ toSchedule = [g \in Starters |-> {}]
  /\ stopPc = [s \in Stoppers |-> "idle"]
  /\ loop = [g \in Starters |-> [j \in Loops |-> "none"]]
  /\ loopChan = [g \in Starters |-> [j \in Loops |-> Nil]]
  /\ detached = [j \in Jobs |-> 0]
  /\ panic = "none" /\ overlapped = FALSE

-----------------------------------------------------------------------------
(* RunStartupTasksE: by priority, one at a time, up to a critical failure. *)

WithResult(r) == {j \in StartupJobs : result[j] = r}

\* Running the jobs in the order of the configuration map.
RunStartupJobUnsorted(j) ==
  /\ startup = "pending"
  /\ WithResult("executing") = {}
  /\ result[j] = "waiting"
  /\ result' = [result EXCEPT ![j] = "executing"]
  /\ UNCHANGED <<startup, running, stopChan, closed, cronVars, startPc, toSchedule, stopPc,
                 loopVars, detached, panic, overlapped>>

\* sortStartupJobs sorts a slice filled in map order: ties run in any order.
RunStartupJob(j) ==
  /\ startup = "pending"
  /\ WithResult("executing") = {}
  /\ result[j] = "waiting"
  /\ \A k \in WithResult("waiting") : Priority[j] <= Priority[k]
  /\ result' = [result EXCEPT ![j] = "executing"]
  /\ UNCHANGED <<startup, running, stopChan, closed, cronVars, startPc, toSchedule, stopPc,
                 loopVars, detached, panic, overlapped>>

\* executeJobByConfig returns: done, skipped for a lock another pod holds, or an
\* error that is only logged; the error of a critical job ends the bootstrap.
StartupJobReturns(j) ==
  /\ result[j] = "executing"
  /\ \/ result' = [result EXCEPT ![j] = "returned"] /\ UNCHANGED startup
     \/ j \in Critical /\ result' = [result EXCEPT ![j] = "failed"] /\ startup' = "failed"
  /\ UNCHANGED <<running, stopChan, closed, cronVars, startPc, toSchedule, stopPc,
                 loopVars, detached, panic, overlapped>>

StartupDone ==
  /\ startup = "pending"
  /\ WithResult("waiting") \cup WithResult("executing") = {}
  /\ startup' = "done"
  /\ UNCHANGED <<result, running, stopChan, closed, cronVars, startPc, toSchedule, stopPc,
                 loopVars, detached, panic, overlapped>>

-----------------------------------------------------------------------------
(* StartBackgroundJobs *)

Starting(g) == startPc[g] \in {"cron", "jobs"}
Stopping(s) == stopPc[s] \in {"waiting", "clearing"}

\* The section under schedulerMu.  BootstrapE has returned before Run starts jobs.
StartSection(g) ==
  /\ startPc[g] = "idle"
  /\ startup = "done"
  /\ IF running
       THEN /\ startPc' = [startPc EXCEPT ![g] = "returned"]
            /\ UNCHANGED <<running, stopChan>>
       ELSE /\ startPc' = [startPc EXCEPT ![g] = "cron"]
            /\ running' = TRUE
            /\ stopChan' = g
  /\ overlapped' = (overlapped \/ \E s \in Stoppers : Stopping(s))
  /\ UNCHANGED <<startupVars, closed, cronVars, toSchedule, stopPc, loopVars, detached, panic>>

\* cronManager = cron.New(...), outside the mutex.
NewCron(g) ==
  /\ startPc[g] = "cron"
  /\ startPc' = [startPc EXCEPT ![g] = "jobs"]
  /\ cronManager' = g
  /\ cron' = [cron EXCEPT ![g] = "new"]
  /\ toSchedule' = [toSchedule EXCEPT ![g] = Jobs]
  /\ UNCHANGED <<startupVars, running, stopChan, closed, entries, stopPc, loopVars, detached,
                 panic, overlapped>>

\* A method call on a nil *cron.Cron.
NilCron == panic' = "nil cron" /\ UNCHANGED <<cron, entries>>

\* startSingleBackgroundJob: the map hands out the jobs in any order.
ScheduleJob(g, j) ==
  /\ startPc[g] = "jobs"
  /\ j \in toSchedule[g]
  /\ toSchedule' = [toSchedule EXCEPT ![g] = @ \ {j}]
  /\ IF Kind[j] = "cron"
       THEN /\ IF cronManager = Nil
                 THEN NilCron
                 ELSE /\ entries' = [entries EXCEPT ![cronManager] = @ \cup {j}]
                      /\ UNCHANGED <<cron, panic>>
            /\ UNCHANGED loop
       ELSE /\ loop' = [loop EXCEPT ![g][j] = "spawned"]
            /\ UNCHANGED <<cron, entries, panic>>
  /\ UNCHANGED <<startupVars, running, stopChan, closed, cronManager, startPc, stopPc,
                 loopChan, detached, overlapped>>

\* cronManager.Start()
StartCron(g) ==
  /\ startPc[g] = "jobs"
  /\ toSchedule[g] = {}
  /\ startPc' = [startPc EXCEPT ![g] = "returned"]
  /\ IF cronManager = Nil
       THEN NilCron
       ELSE cron' = [cron EXCEPT ![cronManager] = "on"] /\ UNCHANGED <<entries, panic>>
  /\ UNCHANGED <<startupVars, running, stopChan, closed, cronManager, toSchedule, stopPc,
                 loopVars, detached, overlapped>>

-----------------------------------------------------------------------------
(* The goroutines that run jobs.  A job returns, fails or panics;          *)
(* executeWithRecover makes these the same.                                *)

\* The goroutine reads schedulerStopChan when it first runs.  runFixedDelayLoop
\* starts with a run of the job, runFixedRateLoop with the select.
LoopStarts(g, j) ==
  /\ loop[g][j] = "spawned"
  /\ loopChan' = [loopChan EXCEPT ![g][j] = stopChan]
  /\ loop' = [loop EXCEPT ![g][j] = IF Kind[j] = "delay" THEN "running" ELSE "waiting"]
  /\ UNCHANGED <<startupVars, running, stopChan, closed, cronVars, startPc, toSchedule,
                 stopPc, detached, panic, overlapped>>

LoopTick(g, j) ==
  /\ loop[g][j] = "waiting"
  /\ loop' = [loop EXCEPT ![g][j] = "running"]
  /\ UNCHANGED <<startupVars, running, stopChan, closed, cronVars, startPc, toSchedule,
                 stopPc, loopChan, detached, panic, overlapped>>

LoopJobReturns(g, j) ==
  /\ loop[g][j] = "running"
  /\ loop' = [loop EXCEPT ![g][j] = "waiting"]
  /\ UNCHANGED <<startupVars, running, stopChan, closed, cronVars, startPc, toSchedule,
                 stopPc, loopChan, detached, panic, overlapped>>

\* A receive from a nil channel blocks for ever.
LoopExit(g, j) ==
  /\ loop[g][j] = "waiting"
  /\ loopChan[g][j] \in closed
  /\ loop' = [loop EXCEPT ![g][j] = "exited"]
  /\ UNCHANGED <<startupVars, running, stopChan, closed, cronVars, startPc, toSchedule,
                 stopPc, loopChan, detached, panic, overlapped>>

\* The cron engine starts a goroutine whether or not the last one is done.
CronFires(g, j) ==
  /\ cron[g] = "on"
  /\ j \in entries[g]
  /\ detached[j] < MaxRuns
  /\ detached' = [detached EXCEPT ![j] = @ + 1]
  /\ UNCHANGED <<startupVars, running, stopChan, closed, cronVars, startPc, toSchedule,
                 stopPc, loopVars, panic, overlapped>>

\* TriggerJobManually, from an actuator request: a goroutine of its own, no lock.
TriggerJobManually(j) ==
  /\ startup = "done"
  /\ j \in Triggered
  /\ detached[j] < MaxRuns
  /\ detached' = [detached EXCEPT ![j] = @ + 1]
  /\ UNCHANGED <<startupVars, running, stopChan, closed, cronVars, startPc, toSchedule,
                 stopPc, loopVars, panic, overlapped>>

DetachedJobReturns(j) ==
  /\ detached[j] > 0
  /\ detached' = [detached EXCEPT ![j] = @ - 1]
  /\ UNCHANGED <<startupVars, running, stopChan, closed, cronVars, startPc, toSchedule,
                 stopPc, loopVars, panic, overlapped>>

-----------------------------------------------------------------------------
(* StopBackgroundJobs *)

StopCron ==
  /\ cronManager' = Nil
  /\ cron' = IF cronManager = Nil THEN cron ELSE [cron EXCEPT ![cronManager] = "off"]
  /\ UNCHANGED entries

CloseStopChan ==
  /\ closed' = IF stopChan = Nil THEN closed ELSE closed \cup {stopChan}
  /\ panic' = IF stopChan \in closed THEN "closed channel" ELSE panic

\* Leaving the cron engine on.
StopSectionKeepsCron(s) ==
  /\ stopPc[s] = "idle"
  /\ IF running
       THEN /\ CloseStopChan
            /\ running' = FALSE
            /\ stopPc' = [stopPc EXCEPT ![s] = "waiting"]
       ELSE /\ stopPc' = [stopPc EXCEPT ![s] = "returned"]
            /\ UNCHANGED <<closed, panic, running>>
  /\ overlapped' = (overlapped \/ \E g \in Starters : Starting(g))
  /\ UNCHANGED <<startupVars, stopChan, cronVars, startPc, toSchedule, loopVars, detached>>

\* Never closing the stop channel.
StopSectionKeepsChan(s) ==
  /\ stopPc[s] = "idle"
  /\ IF running
       THEN /\ StopCron
            /\ running' = FALSE
            /\ stopPc' = [stopPc EXCEPT ![s] = "waiting"]
       ELSE /\ stopPc' = [stopPc EXCEPT ![s] = "returned"]
            /\ UNCHANGED <<cronVars, running>>
  /\ overlapped' = (overlapped \/ \E g \in Starters : Starting(g))
  /\ UNCHANGED <<startupVars, stopChan, closed, panic, startPc, toSchedule, loopVars, detached>>

\* Not testing schedulerRunning, so that a second call closes the channel again.
StopSectionUnchecked(s) ==
  /\ stopPc[s] = "idle"
  /\ StopCron
  /\ CloseStopChan
  /\ running' = FALSE
  /\ stopPc' = [stopPc EXCEPT ![s] = "waiting"]
  /\ overlapped' = (overlapped \/ \E g \in Starters : Starting(g))
  /\ UNCHANGED <<startupVars, stopChan, startPc, toSchedule, loopVars, detached>>

\* The section under schedulerMu.
StopSection(s) ==
  /\ stopPc[s] = "idle"
  /\ IF running
       THEN /\ StopCron
            /\ CloseStopChan
            /\ running' = FALSE
            /\ stopPc' = [stopPc EXCEPT ![s] = "waiting"]
       ELSE /\ stopPc' = [stopPc EXCEPT ![s] = "returned"]
            /\ UNCHANGED <<cronVars, closed, panic, running>>
  /\ overlapped' = (overlapped \/ \E g \in Starters : Starting(g))
  /\ UNCHANGED <<startupVars, stopChan, startPc, toSchedule, loopVars, detached>>

\* Not waiting for the loops.
StopDoesNotWait(s) ==
  /\ stopPc[s] = "waiting"
  /\ stopPc' = [stopPc EXCEPT ![s] = "clearing"]
  /\ UNCHANGED <<startupVars, running, stopChan, closed, cronVars, startPc, toSchedule,
                 loopVars, detached, panic, overlapped>>

\* schedulerWg.Wait()
StopWaits(s) ==
  /\ stopPc[s] = "waiting"
  /\ \A g \in Starters, j \in Loops : ~Alive(g, j)
  /\ stopPc' = [stopPc EXCEPT ![s] = "clearing"]
  /\ UNCHANGED <<startupVars, running, stopChan, closed, cronVars, startPc, toSchedule,
                 loopVars, detached, panic, overlapped>>

\* schedulerStopChan = nil, without the mutex.
StopClears(s) ==
  /\ stopPc[s] = "clearing"
  /\ stopPc' = [stopPc EXCEPT ![s] = "returned"]
  /\ stopChan' = Nil
  /\ UNCHANGED <<startupVars, running, closed, cronVars, startPc, toSchedule,
                 loopVars, detached, panic, overlapped>>

-----------------------------------------------------------------------------
StartStep(g) == NewCron(g) \/ (\E j \in Jobs : ScheduleJob(g, j)) \/ StartCron(g)
StopStep(s) == StopWaits(s) \/ StopClears(s)

Step ==
  \/ \E j \in StartupJobs : RunStartupJob(j) \/ StartupJobReturns(j)
  \/ StartupDone
  \/ \E g \in Starters : StartSection(g) \/ StartStep(g)
  \/ \E g \in Starters, j \in Loops :
       LoopStarts(g, j) \/ LoopTick(g, j) \/ LoopJobReturns(g, j) \/ LoopExit(g, j)
  \/ \E g \in Starters, j \in Jobs : CronFires(g, j)
  \/ \E j \in Jobs : TriggerJobManually(j) \/ DetachedJobReturns(j)
  \/ \E s \in Stoppers : StopSection(s) \/ StopStep(s)

\* A panic outside a job ends the process.
Up == panic = "none"

Next == Up /\ Step

Spec == Init /\ [][Next]_vars

(***************************************************************************)
(* Goroutines that can run do run, and jobs return.  The select of a loop  *)
(* picks at random between its timer and the closed stop channel, hence    *)
(* strong fairness of LoopExit.                                            *)
(***************************************************************************)
Fairness ==
  /\ \A g \in Starters : WF_vars(Up /\ StartStep(g))
  /\ \A g \in Starters, j \in Loops :
       /\ WF_vars(Up /\ LoopStarts(g, j))
       /\ WF_vars(Up /\ LoopJobReturns(g, j))
       /\ SF_vars(Up /\ LoopExit(g, j))
  /\ \A s \in Stoppers : WF_vars(Up /\ StopStep(s))

FairSpec == Spec /\ Fairness

-----------------------------------------------------------------------------
(* Properties *)

\* Before a startup job begins, every critical job of a smaller priority number
\* has returned without an error (sortStartupJobs and the early return of
\* RunStartupTasksE), and no background job is started after a critical failure.
CriticalFirst ==
  \A j \in Critical :
    /\ \A k \in StartupJobs :
         result[k] # "waiting" /\ Priority[j] < Priority[k] => result[j] = "returned"
    /\ running => result[j] = "returned"

\* Whatever start and stop calls do to each other, no stop channel is closed
\* twice; and the cron engine is missing under StartBackgroundJobs only if a
\* StopBackgroundJobs call overlapped it.
NeverPanics == panic # "closed channel" /\ (panic = "nil cron" => overlapped)

Quiescent ==
  /\ ~overlapped /\ ~running
  /\ \A s \in Stoppers : ~Stopping(s)

\* Once StopBackgroundJobs is through, nothing is left that would run a job
\* again: no loop goroutine, no active cron engine, also after restarts.
StoppedIsQuiet ==
  Quiescent => \A g \in Starters : cron[g] # "on" /\ \A j \in Loops : ~Alive(g, j)

\* A fixed-rate or fixed-delay job never overlaps itself, not even the run
\* that was under way when the scheduler was stopped and started again.
LoopJobsDoNotOverlap ==
  ~overlapped =>
    \A j \in Loops : Cardinality({g \in Starters : loop[g][j] = "running"}) <= 1

\* StopBackgroundJobs returns, the loops having seen the closed channel.
StopReturns ==
  \A s \in Stoppers : (stopPc[s] = "waiting" /\ []~overlapped) ~> stopPc[s] = "returned"
=============================================================================
