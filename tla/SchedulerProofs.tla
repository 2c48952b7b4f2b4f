-------------------------- MODULE SchedulerProofs --------------------------
(***************************************************************************)
(* Proofs about the scheduler: its jobs and lifecycle (Scheduler), for any *)
(* startup jobs, background jobs and calls of StartBackgroundJobs and      *)
(* StopBackgroundJobs, and its distributed lock (ShedLock), for any runs,  *)
(* hosts and durations.  That the lock implements the abstract lease is    *)
(* proved for schedules in which a host does not start a run while another *)
(* of its runs is active; without that condition it is false (README,      *)
(* section 6).  The two modules share no state.                            *)
(***************************************************************************)
EXTENDS Scheduler, ShedLock, FiniteSetTheorems, TLAPS

-----------------------------------------------------------------------------
(* Jobs and lifecycle.                                                     *)
USE SchedulerAssumption

LoopStates == {"none", "spawned", "waiting", "running", "exited"}

Types ==
  /\ startup \in {"pending", "done", "failed"}
  /\ result \in [StartupJobs -> {"waiting", "executing", "returned", "failed"}]
  /\ running \in BOOLEAN /\ overlapped \in BOOLEAN
  /\ stopChan \in Starters \cup {Nil} /\ cronManager \in Starters \cup {Nil}
  /\ closed \subseteq Starters
  /\ cron \in [Starters -> {"none", "new", "on", "off"}]
  /\ startPc \in [Starters -> {"idle", "cron", "jobs", "returned"}]
  /\ stopPc \in [Stoppers -> {"idle", "waiting", "clearing", "returned"}]
  /\ loop \in [Starters -> [Loops -> LoopStates]]
  /\ loopChan \in [Starters -> [Loops -> Starters \cup {Nil}]]
  /\ panic \in {"none", "closed channel", "nil cron"}

\* Startup ends in one of two ways, and only the good one lets jobs start.
StartupInv ==
  /\ startup # "failed" => \A j \in StartupJobs : result[j] # "failed"
  /\ startup = "done" => \A j \in StartupJobs : result[j] = "returned"
  /\ running => startup = "done"
  /\ \A j \in Critical, k \in StartupJobs :
       result[k] # "waiting" /\ Priority[j] < Priority[k] => result[j] = "returned"

\* The channel in use is open, and a start call brings a new one.
ChanInv ==
  /\ \A g \in closed : startPc[g] # "idle"
  /\ stopChan # Nil => startPc[stopChan] # "idle"
  /\ running => stopChan \notin closed
  /\ panic # "closed channel"

\* What start and stop calls that keep out of each other's way maintain: one
\* start call at a time, and only while nothing stops; the engine that is on
\* and the loops that are left are those of the scheduler that runs, or of the
\* one that a stop call is waiting for.
Calm ==
  /\ panic = "none"
  /\ \A g \in Starters : Starting(g) =>
       /\ running /\ stopChan = g
       /\ startPc[g] = "jobs" => cronManager = g
       /\ \A h \in Starters \ {g} : ~Starting(h) /\ \A j \in Loops : ~Alive(h, j)
  /\ \A s \in Stoppers : Stopping(s) => ~running
  /\ \A g \in Starters : cron[g] = "on" =>
       running /\ cronManager = g /\ \A h \in Starters : startPc[h] # "cron"
  /\ \A g \in Starters, j \in Loops : Alive(g, j) =>
       /\ running \/ (g \in closed /\ \E s \in Stoppers : stopPc[s] = "waiting")
       /\ \A s \in Stoppers : stopPc[s] # "clearing"
       /\ stopChan = g
       /\ loop[g][j] # "spawned" => loopChan[g][j] = g

IInv == Types /\ StartupInv /\ ChanInv /\ (overlapped \/ Calm)

LEMMA InitIInv == Init => IInv
<1> SUFFICES ASSUME Init PROVE IInv
  OBVIOUS
<1>1. Types
  BY DEF Init, Types, LoopStates
<1>2. StartupInv /\ ChanInv
  BY DEF Init, StartupInv, ChanInv
<1>3. Calm
  BY DEF Init, Calm, Starting, Stopping, Alive
<1>. QED
  BY <1>1, <1>2, <1>3 DEF IInv

LEMMA TypesNext == Types /\ [Next]_vars => Types'
<1> SUFFICES ASSUME Types, [Next]_vars PROVE Types'
  OBVIOUS
<1> USE DEF Types, startupVars, cronVars, loopVars, LoopStates
<1>1. ASSUME NEW j \in StartupJobs, RunStartupJob(j) \/ StartupJobReturns(j) PROVE Types'
  BY <1>1 DEF RunStartupJob, StartupJobReturns
<1>2. CASE StartupDone
  BY <1>2 DEF StartupDone
<1>3. ASSUME NEW g \in Starters, StartSection(g) PROVE Types'
  BY <1>3 DEF StartSection
<1>4. ASSUME NEW g \in Starters, NewCron(g) PROVE Types'
  BY <1>4 DEF NewCron
<1>5. ASSUME NEW g \in Starters, NEW j \in Jobs, ScheduleJob(g, j) PROVE Types'
  <2>1. CASE Kind[j] = "cron"
    BY <1>5, <2>1 DEF ScheduleJob, NilCron
  <2>2. CASE Kind[j] # "cron"
    <3>1. j \in Loops /\ loop' = [loop EXCEPT ![g][j] = "spawned"]
      BY <1>5, <2>2 DEF ScheduleJob, Loops
    <3>2. loop' \in [Starters -> [Loops -> LoopStates]]
      BY <3>1
    <3>. QED
      BY <1>5, <2>2, <3>2 DEF ScheduleJob
  <2>. QED
    BY <2>1, <2>2
<1>6. ASSUME NEW g \in Starters, StartCron(g) PROVE Types'
  BY <1>6 DEF StartCron, NilCron
<1>7. ASSUME NEW g \in Starters, NEW j \in Loops,
             LoopStarts(g, j) \/ LoopTick(g, j) \/ LoopJobReturns(g, j) \/ LoopExit(g, j)
      PROVE  Types'
  <2>1. PICK to \in LoopStates : loop' = [loop EXCEPT ![g][j] = to]
    BY <1>7 DEF LoopStarts, LoopTick, LoopJobReturns, LoopExit
  <2>2. loop' \in [Starters -> [Loops -> LoopStates]]
    BY <2>1
  <2>3. loopChan' = loopChan \/ loopChan' = [loopChan EXCEPT ![g][j] = stopChan]
    BY <1>7 DEF LoopStarts, LoopTick, LoopJobReturns, LoopExit
  <2>4. loopChan' \in [Starters -> [Loops -> Starters \cup {Nil}]]
    <3>1. stopChan \in Starters \cup {Nil}
      OBVIOUS
    <3>2. CASE loopChan' = [loopChan EXCEPT ![g][j] = stopChan]
      BY <3>1, <3>2
    <3>. QED
      BY <2>3, <3>2
  <2>. QED
    BY <1>7, <2>2, <2>4 DEF LoopStarts, LoopTick, LoopJobReturns, LoopExit
<1>8. ASSUME NEW g \in Starters, NEW j \in Jobs, CronFires(g, j) PROVE Types'
  BY <1>8 DEF CronFires
<1>9. ASSUME NEW j \in Jobs, TriggerJobManually(j) \/ DetachedJobReturns(j) PROVE Types'
  BY <1>9 DEF TriggerJobManually, DetachedJobReturns
<1>10. ASSUME NEW s \in Stoppers, StopSection(s) PROVE Types'
  BY <1>10 DEF StopSection, StopCron, CloseStopChan
<1>11. ASSUME NEW s \in Stoppers, StopWaits(s) \/ StopClears(s) PROVE Types'
  BY <1>11 DEF StopWaits, StopClears
<1>12. CASE UNCHANGED vars
  BY <1>12 DEF vars
<1>. QED
  BY <1>1, <1>2, <1>3, <1>4, <1>5, <1>6, <1>7, <1>8, <1>9, <1>10, <1>11, <1>12
     DEF Next, Step, StartStep, StopStep

-----------------------------------------------------------------------------
(* The startup sequence. *)

LEMMA PriorityOrder ==
  \A j, k \in StartupJobs : Priority[j] <= Priority[k] => ~(Priority[k] < Priority[j])
<1>1. \A a, b \in Nat : a <= b => ~(b < a)
  OBVIOUS
<1>2. \A j \in StartupJobs : Priority[j] \in Nat
  OBVIOUS
<1>. QED
  BY <1>1, <1>2

LEMMA StartupNext == IInv /\ [Next]_vars => StartupInv'
<1> SUFFICES ASSUME IInv, [Next]_vars PROVE StartupInv'
  OBVIOUS
<1> USE DEF IInv, Types, startupVars, cronVars, loopVars
<1>1. ASSUME NEW j \in StartupJobs, RunStartupJob(j) PROVE StartupInv'
  <2>1. /\ startup = "pending" /\ startup' = startup /\ running' = running
        /\ result[j] = "waiting" /\ result' = [result EXCEPT ![j] = "executing"]
        /\ \A k \in StartupJobs : result[k] # "executing"
        /\ \A k \in StartupJobs : result[k] = "waiting" => Priority[j] <= Priority[k]
    BY <1>1 DEF RunStartupJob, WithResult
  <2>2. \A k \in Critical : Priority[k] < Priority[j] => result[k] = "returned"
    <3> SUFFICES ASSUME NEW k \in Critical, Priority[k] < Priority[j] PROVE result[k] = "returned"
      OBVIOUS
    <3>1. k \in StartupJobs
      OBVIOUS
    <3>2. ~(Priority[j] <= Priority[k])
      BY <3>1, PriorityOrder
    <3>3. result[k] # "waiting"
      BY <2>1, <3>1, <3>2
    <3>4. result[k] # "executing" /\ result[k] # "failed"
      BY <2>1, <3>1 DEF StartupInv
    <3>. QED
      BY <3>1, <3>3, <3>4
  <2>3. \A k \in Critical, m \in StartupJobs :
          result'[m] # "waiting" /\ Priority[k] < Priority[m] => result'[k] = "returned"
    BY <2>1, <2>2 DEF StartupInv
  <2>. QED
    BY <2>1, <2>3 DEF StartupInv
<1>2. ASSUME NEW j \in StartupJobs, StartupJobReturns(j) PROVE StartupInv'
  <2>1. result[j] = "executing" /\ running' = running /\ startup # "done"
    BY <1>2 DEF StartupJobReturns, StartupInv
  <2>2. CASE result' = [result EXCEPT ![j] = "returned"] /\ startup' = startup
    BY <2>1, <2>2 DEF StartupInv
  <2>3. CASE j \in Critical /\ result' = [result EXCEPT ![j] = "failed"] /\ startup' = "failed"
    BY <2>1, <2>3 DEF StartupInv
  <2>. QED
    BY <1>2, <2>2, <2>3 DEF StartupJobReturns
<1>3. CASE StartupDone
  <2>1. /\ startup = "pending" /\ startup' = "done" /\ result' = result /\ running' = running
        /\ \A j \in StartupJobs : result[j] \notin {"waiting", "executing"}
    BY <1>3 DEF StartupDone, WithResult
  <2>2. \A j \in StartupJobs : result[j] = "returned"
    BY <2>1 DEF StartupInv
  <2>. QED
    BY <2>1, <2>2 DEF StartupInv
<1>4. ASSUME UNCHANGED <<startup, result>>, running' => running \/ startup = "done"
      PROVE  StartupInv'
  BY <1>4 DEF StartupInv
<1>5. ASSUME NEW g \in Starters, StartSection(g) \/ StartStep(g) PROVE StartupInv'
  BY <1>4, <1>5 DEF StartSection, StartStep, NewCron, ScheduleJob, StartCron
<1>6. ASSUME NEW g \in Starters, NEW j \in Loops,
             LoopStarts(g, j) \/ LoopTick(g, j) \/ LoopJobReturns(g, j) \/ LoopExit(g, j)
      PROVE  StartupInv'
  BY <1>4, <1>6 DEF LoopStarts, LoopTick, LoopJobReturns, LoopExit
<1>7. ASSUME NEW j \in Jobs,
             (\E g \in Starters : CronFires(g, j)) \/ TriggerJobManually(j) \/ DetachedJobReturns(j)
      PROVE  StartupInv'
  BY <1>4, <1>7 DEF CronFires, TriggerJobManually, DetachedJobReturns
<1>8. ASSUME NEW s \in Stoppers, StopSection(s) \/ StopStep(s) PROVE StartupInv'
  BY <1>4, <1>8 DEF StopSection, StopStep, StopWaits, StopClears
<1>9. CASE UNCHANGED vars
  BY <1>4, <1>9 DEF vars
<1>. QED
  BY <1>1, <1>2, <1>3, <1>5, <1>6, <1>7, <1>8, <1>9 DEF Next, Step

-----------------------------------------------------------------------------
(* The stop channels. *)

LEMMA ChanNext == IInv /\ [Next]_vars => ChanInv'
<1> SUFFICES ASSUME IInv, [Next]_vars PROVE ChanInv'
  OBVIOUS
<1> USE DEF IInv, Types, startupVars, cronVars, loopVars
<1>1. ASSUME UNCHANGED <<closed, running, stopChan>>,
             \A g \in Starters : startPc'[g] = "idle" => startPc[g] = "idle",
             panic' # "closed channel"
      PROVE  ChanInv'
  BY <1>1 DEF ChanInv
<1>2. ASSUME NEW g \in Starters, StartSection(g) PROVE ChanInv'
  <2>1. \A h \in Starters : startPc'[h] = "idle" => startPc[h] = "idle" /\ h # g
    BY <1>2 DEF StartSection
  <2>2. closed' = closed /\ panic' = panic /\ g \notin closed
    BY <1>2 DEF StartSection, ChanInv
  <2>3. (running' = running /\ stopChan' = stopChan) \/ stopChan' = g
    BY <1>2 DEF StartSection
  <2>4. \A h \in closed' : startPc'[h] # "idle"
    BY <2>1, <2>2 DEF ChanInv
  <2>5. stopChan' # Nil => startPc'[stopChan'] # "idle"
    BY <2>1, <2>3 DEF ChanInv
  <2>6. running' => stopChan' \notin closed'
    BY <2>2, <2>3 DEF ChanInv
  <2>. QED
    BY <2>2, <2>4, <2>5, <2>6 DEF ChanInv
<1>3. ASSUME NEW g \in Starters, StartStep(g) PROVE ChanInv'
  BY <1>1, <1>3 DEF StartStep, NewCron, ScheduleJob, StartCron, NilCron, ChanInv
<1>4. ASSUME NEW s \in Stoppers, StopSection(s) PROVE ChanInv'
  <2>1. startPc' = startPc /\ stopChan' = stopChan
    BY <1>4 DEF StopSection
  <2>2. CASE running
    <3>1. running' = FALSE /\ closed' = (IF stopChan = Nil THEN closed ELSE closed \cup {stopChan})
          /\ panic' = panic
      BY <1>4, <2>2 DEF StopSection, CloseStopChan, ChanInv
    <3>2. \A g \in closed' : startPc[g] # "idle"
      BY <2>2, <3>1 DEF ChanInv
    <3>. QED
      BY <2>1, <3>1, <3>2 DEF ChanInv
  <2>3. CASE ~running
    BY <1>1, <1>4, <2>1, <2>3 DEF StopSection, ChanInv
  <2>. QED
    BY <2>2, <2>3
<1>5. ASSUME NEW s \in Stoppers, StopStep(s) PROVE ChanInv'
  <2>1. UNCHANGED <<closed, running, startPc, panic>> /\ stopChan' \in {stopChan, Nil}
    BY <1>5 DEF StopStep, StopWaits, StopClears
  <2>. QED
    BY <2>1 DEF ChanInv
<1>6. ASSUME NEW g \in Starters, NEW j \in Loops,
             LoopStarts(g, j) \/ LoopTick(g, j) \/ LoopJobReturns(g, j) \/ LoopExit(g, j)
      PROVE  ChanInv'
  BY <1>1, <1>6 DEF LoopStarts, LoopTick, LoopJobReturns, LoopExit, ChanInv
<1>7. ASSUME NEW j \in Jobs,
             (\E g \in Starters : CronFires(g, j)) \/ TriggerJobManually(j) \/ DetachedJobReturns(j)
      PROVE  ChanInv'
  BY <1>1, <1>7 DEF CronFires, TriggerJobManually, DetachedJobReturns, ChanInv
<1>8. ASSUME NEW j \in StartupJobs, RunStartupJob(j) \/ StartupJobReturns(j) PROVE ChanInv'
  BY <1>1, <1>8 DEF RunStartupJob, StartupJobReturns, ChanInv
<1>9. CASE StartupDone \/ UNCHANGED vars
  BY <1>1, <1>9 DEF StartupDone, vars, ChanInv
<1>. QED
  BY <1>2, <1>3, <1>4, <1>5, <1>6, <1>7, <1>8, <1>9 DEF Next, Step

-----------------------------------------------------------------------------
(* Start and stop calls that do not overlap.  Each lemma is about a step   *)
(* that starts in a calm state and overlaps nothing.                       *)

Acts == <<running, stopChan, closed, cronManager, cron, startPc, stopPc, loop, loopChan, panic>>

LEMMA CalmSame == ASSUME Calm, UNCHANGED Acts PROVE Calm'
<1> USE DEF Calm, Acts, Starting, Stopping, Alive
<1>. QED
  OBVIOUS

\* A start call: the scheduler did not run, so no loop is left and no engine on.
LEMMA CalmStartSection ==
  ASSUME Types, Calm, NEW g \in Starters, StartSection(g), ~overlapped' PROVE Calm'
<1> USE DEF Types
<1>1. \A s \in Stoppers : ~Stopping(s)
  BY DEF StartSection
<1>2. UNCHANGED <<closed, cronManager, cron, stopPc, loop, loopChan, panic>>
  BY DEF StartSection, cronVars, loopVars
<1>3. CASE running
  <2>1. /\ startPc' = [startPc EXCEPT ![g] = "returned"] /\ startPc[g] = "idle"
        /\ running' = running /\ stopChan' = stopChan
    BY <1>3 DEF StartSection
  <2>2. \A h \in Starters : /\ Starting(h)' <=> Starting(h)
                            /\ startPc'[h] = "jobs" => startPc[h] = "jobs"
                            /\ startPc'[h] = "cron" => startPc[h] = "cron"
    BY <2>1 DEF Starting
  <2>. QED
    BY <1>2, <2>1, <2>2 DEF Calm, Stopping, Alive
<1>4. CASE ~running
  <2>1. /\ startPc' = [startPc EXCEPT ![g] = "cron"] /\ running' = TRUE /\ stopChan' = g
    BY <1>4 DEF StartSection
  <2>2. \A h \in Starters : ~Starting(h) /\ cron[h] # "on" /\ \A j \in Loops : ~Alive(h, j)
    BY <1>1, <1>4 DEF Calm, Stopping
  <2>3. \A h \in Starters : Starting(h)' => h = g /\ startPc'[h] = "cron"
    BY <2>1, <2>2 DEF Starting
  <2>4. \A h \in Starters, j \in Loops : ~Alive(h, j)'
    BY <1>2, <2>2 DEF Alive
  <2>5. \A s \in Stoppers : ~Stopping(s)'
    BY <1>1, <1>2 DEF Stopping
  <2>. QED
    BY <1>2, <2>1, <2>2, <2>3, <2>4, <2>5 DEF Calm
<1>. QED
  BY <1>3, <1>4

LEMMA CalmStartStep ==
  ASSUME Types, Calm, NEW g \in Starters, StartStep(g) PROVE Calm'
<1> USE DEF Types
<1>1. /\ Starting(g) /\ running /\ stopChan = g /\ \A s \in Stoppers : ~Stopping(s)
      /\ \A h \in Starters \ {g} : ~Starting(h) /\ \A j \in Loops : ~Alive(h, j)
  BY DEF StartStep, NewCron, ScheduleJob, StartCron, Calm, Starting
<1>2. UNCHANGED <<running, stopChan, closed, stopPc, loopChan>>
  BY DEF StartStep, NewCron, ScheduleJob, StartCron, loopVars
<1>3. \A s \in Stoppers : ~Stopping(s)' /\ stopPc'[s] # "clearing"
  BY <1>1, <1>2 DEF Stopping
<1>4. CASE NewCron(g)
  <2>1. /\ startPc' = [startPc EXCEPT ![g] = "jobs"] /\ cronManager' = g /\ startPc[g] = "cron"
        /\ cron' = [cron EXCEPT ![g] = "new"] /\ loop' = loop /\ panic' = panic
    BY <1>4 DEF NewCron, loopVars
  <2>2. \A h \in Starters : cron'[h] # "on"
    BY <2>1 DEF Calm
  <2>3. \A h \in Starters : Starting(h)' => h = g
    BY <1>1, <2>1 DEF Starting
  <2>4. \A h \in Starters, j \in Loops : Alive(h, j)' <=> Alive(h, j)
    BY <2>1 DEF Alive
  <2>. QED
    BY <1>1, <1>2, <1>3, <2>1, <2>2, <2>3, <2>4 DEF Calm
<1>5. ASSUME NEW j \in Jobs, ScheduleJob(g, j) PROVE Calm'
  <2>1. /\ startPc[g] = "jobs" /\ cronManager = g
        /\ UNCHANGED <<cronManager, startPc>>
    BY <1>1, <1>5 DEF ScheduleJob, Calm
  <2>2. cron' = cron /\ panic' = panic
    BY <1>5, <2>1 DEF ScheduleJob
  <2>3. CASE Kind[j] = "cron"
    <3>1. loop' = loop
      BY <1>5, <2>3 DEF ScheduleJob
    <3>. QED
      BY <1>2, <2>1, <2>2, <3>1, CalmSame DEF Acts
  <2>4. CASE Kind[j] # "cron"
    <3>1. j \in Loops /\ loop' = [loop EXCEPT ![g][j] = "spawned"]
      BY <1>5, <2>4 DEF ScheduleJob, Loops
    <3>2. \A h \in Starters \ {g}, k \in Loops : loop'[h][k] = loop[h][k]
      BY <3>1
    <3>3. \A k \in Loops : loop'[g][k] = loop[g][k] \/ loop'[g][k] = "spawned"
      BY <3>1
    <3>4. \A h \in Starters \ {g}, k \in Loops : ~Alive(h, k)'
      <4> SUFFICES ASSUME NEW h \in Starters \ {g}, NEW k \in Loops PROVE ~Alive(h, k)'
        OBVIOUS
      <4>1. loop'[h][k] = loop[h][k] /\ ~Alive(h, k)
        BY <1>1, <3>2
      <4>. QED
        BY <4>1 DEF Alive
    <3>5. \A h \in Starters : Starting(h)' <=> Starting(h)
      BY <2>1 DEF Starting
    <3>6. \A h \in Starters, k \in Loops : Alive(h, k)' =>
            /\ running' /\ stopChan' = h /\ loop'[h][k] # "spawned" => loopChan'[h][k] = h
      <4> SUFFICES ASSUME NEW h \in Starters, NEW k \in Loops, Alive(h, k)'
                   PROVE  /\ running' /\ stopChan' = h
                          /\ loop'[h][k] # "spawned" => loopChan'[h][k] = h
        OBVIOUS
      <4>1. h = g
        BY <3>4
      <4>2. loop'[g][k] # "spawned" => Alive(g, k) /\ loop[g][k] # "spawned"
        BY <3>3, <4>1 DEF Alive
      <4>3. Alive(g, k) /\ loop[g][k] # "spawned" => loopChan[g][k] = g
        BY DEF Calm
      <4>. QED
        BY <1>1, <1>2, <4>1, <4>2, <4>3
    <3>. QED
      BY <1>1, <1>2, <1>3, <2>1, <2>2, <3>4, <3>5, <3>6 DEF Calm
  <2>. QED
    BY <2>3, <2>4
<1>6. CASE StartCron(g)
  <2>1. /\ startPc[g] = "jobs" /\ cronManager = g /\ cronManager' = g
        /\ startPc' = [startPc EXCEPT ![g] = "returned"] /\ loop' = loop
    BY <1>1, <1>6 DEF StartCron, Calm, loopVars
  <2>2. cron' = [cron EXCEPT ![g] = "on"] /\ panic' = panic
    BY <1>6, <2>1 DEF StartCron
  <2>3. \A h \in Starters : ~Starting(h)' /\ startPc'[h] # "cron"
    BY <1>1, <2>1 DEF Starting
  <2>4. \A h \in Starters : cron'[h] = "on" => h = g
    BY <2>1, <2>2 DEF Calm
  <2>5. \A h \in Starters, j \in Loops : Alive(h, j)' <=> Alive(h, j)
    BY <2>1 DEF Alive
  <2>. QED
    BY <1>1, <1>2, <1>3, <2>1, <2>2, <2>3, <2>4, <2>5 DEF Calm
<1>. QED
  BY <1>4, <1>5, <1>6 DEF StartStep

\* A loop goroutine reads the channel of the scheduler that started it.
LEMMA CalmLoop ==
  ASSUME Types, Calm, NEW g \in Starters, NEW j \in Loops,
         LoopStarts(g, j) \/ LoopTick(g, j) \/ LoopJobReturns(g, j) \/ LoopExit(g, j)
  PROVE  Calm'
<1> USE DEF Types
<1>1. UNCHANGED <<running, stopChan, closed, cronManager, cron, startPc, stopPc, panic>>
  BY DEF LoopStarts, LoopTick, LoopJobReturns, LoopExit, cronVars
<1>2. Alive(g, j) /\ stopChan = g
  BY DEF LoopStarts, LoopTick, LoopJobReturns, LoopExit, Alive, Calm
<1>3. PICK to \in LoopStates \ {"spawned"} : loop' = [loop EXCEPT ![g][j] = to]
  BY DEF LoopStarts, LoopTick, LoopJobReturns, LoopExit, LoopStates
<1>4. loopChan' = loopChan \/ loopChan' = [loopChan EXCEPT ![g][j] = g]
  BY <1>2 DEF LoopStarts, LoopTick, LoopJobReturns, LoopExit
<1>5. loopChan'[g][j] = g
  BY <1>2 DEF LoopStarts, LoopTick, LoopJobReturns, LoopExit, Calm
<1>6. \A h \in Starters, k \in Loops : Alive(h, k)' =>
        Alive(h, k) /\ (loop'[h][k] # "spawned" => loopChan'[h][k] = h)
  <2> SUFFICES ASSUME NEW h \in Starters, NEW k \in Loops, Alive(h, k)'
               PROVE  Alive(h, k) /\ (loop'[h][k] # "spawned" => loopChan'[h][k] = h)
    OBVIOUS
  <2>1. CASE h = g /\ k = j
    BY <1>2, <1>5, <2>1
  <2>2. CASE ~(h = g /\ k = j)
    <3>1. loop'[h][k] = loop[h][k]
      BY <1>3, <2>2
    <3>2. loopChan'[h][k] = loopChan[h][k]
      <4>1. CASE loopChan' = loopChan
        BY <4>1
      <4>2. CASE loopChan' = [loopChan EXCEPT ![g][j] = g]
        BY <4>2, <2>2
      <4>. QED
        BY <1>4, <4>1, <4>2
    <3>3. Alive(h, k)
      BY <3>1 DEF Alive
    <3>. QED
      BY <3>1, <3>2, <3>3 DEF Calm
  <2>. QED
    BY <2>1, <2>2
<1>7. \A h \in Starters : Starting(h)' <=> Starting(h)
  BY <1>1 DEF Starting
<1>8. \A s \in Stoppers : Stopping(s)' <=> Stopping(s)
  BY <1>1 DEF Stopping
<1>. QED
  BY <1>1, <1>6, <1>7, <1>8 DEF Calm

\* A stop call turns the engine off and closes the channel of every loop left.
LEMMA CalmStopSection ==
  ASSUME Types, ChanInv, Calm, NEW s \in Stoppers, StopSection(s), ~overlapped' PROVE Calm'
<1> USE DEF Types
<1>1. \A g \in Starters : ~Starting(g) /\ startPc[g] # "cron"
  BY DEF StopSection, Starting
<1>2. UNCHANGED <<stopChan, startPc, loop, loopChan>> /\ stopPc[s] = "idle"
  BY DEF StopSection, loopVars
<1>3. \A g \in Starters : ~Starting(g)' /\ startPc'[g] # "cron"
  BY <1>1, <1>2 DEF Starting
<1>4. \A g \in Starters, j \in Loops : Alive(g, j)' <=> Alive(g, j)
  BY <1>2 DEF Alive
<1>5. CASE running
  <2>1. /\ running' = FALSE /\ stopPc' = [stopPc EXCEPT ![s] = "waiting"] /\ panic' = panic
        /\ closed' = (IF stopChan = Nil THEN closed ELSE closed \cup {stopChan})
        /\ cron' = (IF cronManager = Nil THEN cron ELSE [cron EXCEPT ![cronManager] = "off"])
    BY <1>5 DEF StopSection, StopCron, CloseStopChan, ChanInv
  <2>2. \A g \in Starters : cron'[g] # "on"
    BY <2>1 DEF Calm
  <2>3. \A g \in Starters, j \in Loops : Alive(g, j) => g \in closed'
    BY <2>1 DEF Calm
  <2>4. stopPc'[s] = "waiting" /\ \A r \in Stoppers : stopPc'[r] # "clearing"
    BY <1>5, <2>1 DEF Calm, Stopping
  <2>5. \A g \in Starters, j \in Loops : Alive(g, j) =>
          stopChan = g /\ (loop[g][j] # "spawned" => loopChan[g][j] = g)
    BY DEF Calm
  <2>6. panic = "none"
    BY DEF Calm
  <2>. QED
    BY <1>2, <1>3, <1>4, <2>1, <2>2, <2>3, <2>4, <2>5, <2>6 DEF Calm
<1>6. CASE ~running
  <2>1. /\ stopPc' = [stopPc EXCEPT ![s] = "returned"]
        /\ UNCHANGED <<running, closed, cronManager, cron, panic>>
    BY <1>6 DEF StopSection, cronVars
  <2>2. \A r \in Stoppers : /\ stopPc'[r] \in {"waiting", "clearing"} => stopPc'[r] = stopPc[r]
                            /\ stopPc[r] = "waiting" => stopPc'[r] = "waiting"
    BY <1>2, <2>1
  <2>. QED
    BY <1>2, <1>3, <1>4, <1>6, <2>1, <2>2 DEF Calm, Stopping
<1>. QED
  BY <1>5, <1>6

\* It leaves its wait when no loop is left, and clears the channel then.
LEMMA CalmStopStep ==
  ASSUME Types, Calm, NEW s \in Stoppers, StopStep(s) PROVE Calm'
<1> USE DEF Types
<1>1. UNCHANGED <<running, closed, cronManager, cron, startPc, loop, loopChan, panic>>
  BY DEF StopStep, StopWaits, StopClears, cronVars, loopVars
<1>2. Stopping(s) /\ ~running
  BY DEF StopStep, StopWaits, StopClears, Stopping, Calm
<1>3. \A g \in Starters : ~Starting(g)' /\ cron'[g] # "on"
  BY <1>1, <1>2 DEF Starting, Calm
<1>4. \A g \in Starters, j \in Loops : ~Alive(g, j)
  BY <1>2 DEF StopStep, StopWaits, StopClears, Calm
<1>5. \A g \in Starters, j \in Loops : ~Alive(g, j)'
  BY <1>1, <1>4 DEF Alive
<1>6. panic = "none"
  BY DEF Calm
<1>. QED
  BY <1>1, <1>2, <1>3, <1>5, <1>6 DEF Calm

LEMMA CalmNext == IInv /\ [Next]_vars => overlapped' \/ Calm'
<1> SUFFICES ASSUME Types, ChanInv, overlapped \/ Calm, [Next]_vars, ~overlapped' PROVE Calm'
  BY DEF IInv
<1> USE DEF startupVars, cronVars, loopVars
<1>1. ~overlapped /\ Calm
  <2> SUFFICES ASSUME overlapped PROVE overlapped'
    OBVIOUS
  <2>1. ASSUME NEW g \in Starters, StartSection(g) \/ StartStep(g) PROVE overlapped'
    BY <2>1 DEF StartSection, StartStep, NewCron, ScheduleJob, StartCron
  <2>2. ASSUME NEW s \in Stoppers, StopSection(s) \/ StopStep(s) PROVE overlapped'
    BY <2>2 DEF StopSection, StopStep, StopWaits, StopClears
  <2>3. ASSUME NEW g \in Starters, NEW j \in Loops,
               LoopStarts(g, j) \/ LoopTick(g, j) \/ LoopJobReturns(g, j) \/ LoopExit(g, j)
        PROVE  overlapped'
    BY <2>3 DEF LoopStarts, LoopTick, LoopJobReturns, LoopExit
  <2>4. ASSUME NEW j \in Jobs,
               (\E g \in Starters : CronFires(g, j)) \/ TriggerJobManually(j) \/ DetachedJobReturns(j)
        PROVE  overlapped'
    BY <2>4 DEF CronFires, TriggerJobManually, DetachedJobReturns
  <2>5. ASSUME NEW j \in StartupJobs, RunStartupJob(j) \/ StartupJobReturns(j) PROVE overlapped'
    BY <2>5 DEF RunStartupJob, StartupJobReturns
  <2>6. CASE StartupDone \/ UNCHANGED vars
    BY <2>6 DEF StartupDone, vars
  <2>. QED
    BY <2>1, <2>2, <2>3, <2>4, <2>5, <2>6 DEF Next, Step
<1>2. ASSUME NEW j \in StartupJobs, RunStartupJob(j) \/ StartupJobReturns(j) PROVE Calm'
  BY <1>1, <1>2, CalmSame DEF RunStartupJob, StartupJobReturns, Acts
<1>3. CASE StartupDone \/ UNCHANGED vars
  BY <1>1, <1>3, CalmSame DEF StartupDone, vars, Acts
<1>4. ASSUME NEW j \in Jobs,
             (\E g \in Starters : CronFires(g, j)) \/ TriggerJobManually(j) \/ DetachedJobReturns(j)
      PROVE  Calm'
  BY <1>1, <1>4, CalmSame DEF CronFires, TriggerJobManually, DetachedJobReturns, Acts
<1>. QED
  BY <1>1, <1>2, <1>3, <1>4, CalmStartSection, CalmStartStep, CalmLoop, CalmStopSection,
     CalmStopStep DEF Next, Step

LEMMA IInvCorrect == Spec => []IInv
<1>1. IInv /\ [Next]_vars => IInv'
  BY TypesNext, StartupNext, ChanNext, CalmNext DEF IInv
<1>. QED
  BY InitIInv, <1>1, PTL DEF Spec

-----------------------------------------------------------------------------
(* What follows. *)

\* No startup job begins before the critical ones of a smaller priority number
\* have returned, and nothing is scheduled unless all critical ones have
\* (RunStartupTasksE, StartBackgroundJobs).
THEOREM CriticalJobsFirst == Spec => []CriticalFirst
<1>1. IInv => CriticalFirst
  BY DEF IInv, StartupInv, CriticalFirst
<1>. QED
  BY <1>1, IInvCorrect, PTL

\* No stop channel is closed twice by any calls of StopBackgroundJobs, and the
\* cron engine is nil under a start call only if a stop call overlapped it.
THEOREM NoPanic == Spec => []NeverPanics
<1>1. IInv => NeverPanics
  BY DEF IInv, ChanInv, Calm, NeverPanics
<1>. QED
  BY <1>1, IInvCorrect, PTL

\* After StopBackgroundJobs neither a loop nor an active cron engine is left,
\* however often the scheduler was started and stopped before.
THEOREM QuietWhenStopped == Spec => []StoppedIsQuiet
<1>1. IInv => StoppedIsQuiet
  BY DEF IInv, Calm, Stopping, Quiescent, StoppedIsQuiet
<1>. QED
  BY <1>1, IInvCorrect, PTL

\* Two loop goroutines of one job never run it at the same time, not even the
\* last run of a scheduler that was stopped and the first of the next one.
THEOREM LoopsExclude == Spec => []LoopJobsDoNotOverlap
<1>1. IInv => LoopJobsDoNotOverlap
  <2> SUFFICES ASSUME Calm, NEW j \in Loops
               PROVE  Cardinality({g \in Starters : loop[g][j] = "running"}) <= 1
    BY DEF IInv, LoopJobsDoNotOverlap
  <2> DEFINE S == {g \in Starters : loop[g][j] = "running"}
  <2>1. \A g, h \in S : g = h
    BY DEF Calm, Alive
  <2> HIDE DEF S
  <2>2. ASSUME S = {} PROVE Cardinality(S) = 0
    BY <2>2, FS_EmptySet
  <2>3. ASSUME NEW g \in S PROVE Cardinality(S) = 1
    <3>1. S = {g}
      BY <2>1, <2>3
    <3>. QED
      BY <3>1, FS_Singleton
  <2>4. Cardinality(S) <= 1
    BY <2>2, <2>3
  <2>. QED
    BY <2>4 DEF S
<1>. QED
  BY <1>1, IInvCorrect, PTL

\* While a stop call waits, the select of every loop that is left has a closed
\* channel to receive from, or will read one when its goroutine begins: the
\* safety that StopReturns rests on (runFixedRateLoop, runFixedDelayLoop).
LoopsCanSeeTheStop ==
  \A s \in Stoppers, g \in Starters, j \in Loops :
    ~overlapped /\ stopPc[s] = "waiting" /\ Alive(g, j) =>
      IF loop[g][j] = "spawned" THEN stopChan \in closed ELSE loopChan[g][j] \in closed

\* No loop that a stop call waits for listens to a channel nobody closes.
THEOREM StopReachesLoops == Spec => []LoopsCanSeeTheStop
<1>1. IInv => LoopsCanSeeTheStop
  BY DEF IInv, Calm, Stopping, LoopsCanSeeTheStop
<1>. QED
  BY <1>1, IInvCorrect, PTL

-----------------------------------------------------------------------------
(* The distributed lock.                                                   *)

HIDE SchedulerAssumption
USE LockAssumption DEF Row, Terminal, RunStates

LEMMA TypeInit == LockInit => TypeOK
BY DEF LockInit, TypeOK

LEMMA LockTyped == TypeOK => \A r \in Runs : Lock(r) \in Row /\ Lock(r) # NoRow
<1> SUFFICES ASSUME TypeOK, NEW r \in Runs PROVE Lock(r) \in Row /\ Lock(r) # NoRow
  OBVIOUS
<1>1. start[r] + AtMost \in Int /\ Host[r] \in Hosts
  BY DEF TypeOK
<1>2. Lock(r) \in Row
  BY <1>1 DEF Lock
<1>. QED
  BY <1>2

LEMMA TypeNext == TypeOK /\ [LockNext]_lockVars => TypeOK'
<1> SUFFICES ASSUME TypeOK, [LockNext]_lockVars PROVE TypeOK'
  OBVIOUS
<1> USE DEF TypeOK, Goto
<1>1. CASE Tick
  BY <1>1 DEF Tick
<1>2. ASSUME NEW r \in Runs, RunStep(r) PROVE TypeOK'
  <2>1. CASE Begin(r)
    BY <2>1 DEF Begin
  <2>2. CASE Select(r)
    BY <2>2 DEF Select
  <2>3. CASE Create(r)
    BY <2>3, LockTyped DEF Create
  <2>4. CASE Update(r)
    BY <2>4, LockTyped DEF Update
  <2>5. CASE DbError(r)
    BY <2>5 DEF DbError
  <2>6. CASE Finish(r) \/ ReleaseError(r)
    BY <2>6 DEF Finish, ReleaseError
  <2>7. CASE Release(r)
    <3>1. ReleaseTime(r) \in Int
      BY DEF ReleaseTime
    <3>. QED
      BY <2>7, <3>1 DEF Release
  <2>8. CASE Crash(r)
    BY <2>8 DEF Crash
  <2>. QED
    BY <1>2, <2>1, <2>2, <2>3, <2>4, <2>5, <2>6, <2>7, <2>8 DEF RunStep
<1>3. CASE UNCHANGED lockVars
  BY <1>3 DEF lockVars
<1>. QED
  BY <1>1, <1>2, <1>3 DEF LockNext

\* Every reachable state is well typed.
THEOREM TypeCorrect == LockSpec => []TypeOK
BY TypeInit, TypeNext, PTL DEF LockSpec

-----------------------------------------------------------------------------
(* A lock runs out by itself, whatever the schedule. *)

\* Runs that have read the clock did so in the past.
StartPast == \A r \in Runs : start[r] <= now

LEMMA StartPastNext == TypeOK /\ StartPast /\ [LockNext]_lockVars => StartPast'
BY DEF TypeOK, StartPast, LockNext, RunStep, Tick, Begin, Select, Create, Update, DbError, Finish,
       Release, ReleaseError, Crash, Goto, lockVars

LEMMA LockRunsOutNext ==
  TypeOK /\ StartPast /\ LockRunsOut /\ [LockNext]_lockVars => LockRunsOut'
<1> SUFFICES ASSUME TypeOK, StartPast, LockRunsOut, [LockNext]_lockVars PROVE LockRunsOut'
  OBVIOUS
<1> USE DEF TypeOK, StartPast, LockRunsOut
<1>1. CASE Tick
  BY <1>1 DEF Tick
<1>2. ASSUME NEW r \in Runs, RunStep(r) PROVE LockRunsOut'
  <2>1. CASE row' = row /\ now' = now
    BY <2>1
  <2>2. CASE row' = Lock(r) /\ now' = now
    BY <2>2 DEF Lock
  <2>3. CASE Release(r)
    <3>1. ReleaseTime(r) \in Int /\ (ReleaseTime(r) <= now + AtLeast)
      BY DEF ReleaseTime
    <3>. QED
      BY <2>3, <3>1 DEF Release
  <2>. QED
    BY <1>2, <2>1, <2>2, <2>3
       DEF RunStep, Begin, Select, Create, Update, DbError, Finish, ReleaseError, Crash
<1>3. CASE UNCHANGED lockVars
  BY <1>3 DEF lockVars
<1>. QED
  BY <1>1, <1>2, <1>3 DEF LockNext

\* No crash and no failed release keeps a lock beyond its longest duration.
THEOREM LockRunsOutAlways == LockSpec => []LockRunsOut
<1>1. LockInit => StartPast /\ LockRunsOut
  BY DEF LockInit, StartPast, LockRunsOut
<1>. QED
  BY <1>1, TypeInit, TypeNext, StartPastNext, LockRunsOutNext, PTL DEF LockSpec

-----------------------------------------------------------------------------
(* The lock implements the abstract lease. *)

\* A host has one active run at a time.
OneActivePerHost ==
  \A r, s \in Runs : Active(r) /\ Active(s) /\ Host[r] = Host[s] => r = s

\* The row belongs to whoever executes under an unexpired lease.
HolderOwnsRow == \A r \in LeaseHolders : row = Lock(r)

LockInv == TypeOK /\ StartPast /\ OneActivePerHost /\ HolderOwnsRow

LEMMA OneHolder ==
  LockInv => \A r, s \in LeaseHolders : r = s
BY DEF LockInv, TypeOK, OneActivePerHost, HolderOwnsRow, LeaseHolders, Lock, Active

\* A run takes the row only when nobody executes under a lease.
LEMMA AcquireFree ==
  ASSUME LockInv, NEW r \in Runs,
         \/ row = NoRow
         \/ row # NoRow /\ row.until <= start[r]
  PROVE  LeaseHolders = {}
<1> SUFFICES ASSUME NEW s \in Runs, s \in LeaseHolders PROVE FALSE
  BY DEF LeaseHolders
<1>1. row = Lock(s) /\ now < start[s] + AtMost
  BY DEF LockInv, HolderOwnsRow, LeaseHolders, Unexpired
<1>2. row # NoRow
  BY <1>1, LockTyped DEF LockInv
<1>3. row.until = start[s] + AtMost
  BY <1>1 DEF Lock
<1>. QED
  BY <1>1, <1>2, <1>3 DEF LockInv, TypeOK, StartPast

LEMMA OneActiveNext ==
  ASSUME ~Overlapping PROVE LockInv /\ [LockNext]_lockVars => OneActivePerHost'
<1> SUFFICES ASSUME LockInv, [LockNext]_lockVars PROVE OneActivePerHost'
  OBVIOUS
<1> USE DEF LockInv, TypeOK, OneActivePerHost, Active
<1>1. CASE Tick \/ UNCHANGED lockVars
  BY <1>1 DEF Tick, lockVars
<1>2. ASSUME NEW r \in Runs, RunStep(r) PROVE OneActivePerHost'
  <2>1. CASE Begin(r)
    BY <2>1 DEF Begin, Goto
  <2>2. CASE ~Begin(r)
    <3>1. \A s \in Runs : Active(s)' => Active(s)
      BY <1>2, <2>2 DEF RunStep, Goto, Select, Create, Update, DbError, Finish, Release,
                        ReleaseError, Crash
    <3>. QED
      BY <3>1
  <2>. QED
    BY <2>1, <2>2
<1>. QED
  BY <1>1, <1>2 DEF LockNext

\* Every step either leaves the lease holders alone, or one loses the lease, or
\* one takes it when there is none; the row follows.
LEMMA HolderStep ==
  LockInv /\ [LockNext]_lockVars => [L!Next]_LeaseHolders /\ HolderOwnsRow'
<1> SUFFICES ASSUME LockInv, [LockNext]_lockVars
             PROVE  [L!Next]_LeaseHolders /\ HolderOwnsRow'
  OBVIOUS
<1>0. TypeOK'
  BY TypeNext DEF LockInv
<1>1. ASSUME LeaseHolders' \subseteq LeaseHolders,
             LeaseHolders' = {} \/ row' = row,
             start' = start
      PROVE  [L!Next]_LeaseHolders /\ HolderOwnsRow'
  <2>1. LeaseHolders' = LeaseHolders \/ \E c \in LeaseHolders : LeaseHolders' = LeaseHolders \ {c}
    BY <1>1, OneHolder
  <2>2. [L!Next]_LeaseHolders
    BY <2>1 DEF L!Next, L!Lose, LeaseHolders
  <2>3. HolderOwnsRow'
    BY <1>1 DEF LockInv, HolderOwnsRow, Lock
  <2>. QED
    BY <2>2, <2>3
<1>2. ASSUME NEW r \in Runs, LeaseHolders = {}, row' = Lock(r), start' = start,
             LeaseHolders' \subseteq {r}
      PROVE  [L!Next]_LeaseHolders /\ HolderOwnsRow'
  BY <1>2 DEF L!Next, L!Acquire, HolderOwnsRow, Lock
<1>3. CASE Tick
  <2>1. LeaseHolders' \subseteq LeaseHolders
    BY <1>3 DEF Tick, LeaseHolders, Unexpired, LockInv, TypeOK
  <2>. QED
    BY <1>1, <1>3, <2>1 DEF Tick
<1>4. ASSUME NEW r \in Runs, Begin(r) PROVE [L!Next]_LeaseHolders /\ HolderOwnsRow'
  <2>1. LeaseHolders' = LeaseHolders
    BY <1>4 DEF Begin, Goto, LeaseHolders, Unexpired, LockInv, TypeOK
  <2>2. \A s \in LeaseHolders : Lock(s)' = Lock(s)
    BY <1>4 DEF Begin, Goto, LeaseHolders, Lock, LockInv, TypeOK
  <2>. QED
    BY <1>4, <2>1, <2>2 DEF Begin, HolderOwnsRow, LockInv
<1>5. ASSUME NEW r \in Runs,
             Select(r) \/ DbError(r) \/ Finish(r) \/ ReleaseError(r) \/ Crash(r)
      PROVE  [L!Next]_LeaseHolders /\ HolderOwnsRow'
  <2>1. row' = row /\ start' = start /\ now' = now
    BY <1>5 DEF Select, DbError, Finish, ReleaseError, Crash
  <2>2. \A s \in Runs : pc'[s] = "running" => pc[s] = "running"
    BY <1>5 DEF Select, DbError, Finish, ReleaseError, Crash, Goto, LockInv, TypeOK
  <2>. QED
    BY <1>1, <2>1, <2>2 DEF LeaseHolders, Unexpired
<1>6. ASSUME NEW r \in Runs, Create(r) \/ Update(r)
      PROVE  [L!Next]_LeaseHolders /\ HolderOwnsRow'
  <2>1. start' = start /\ now' = now
    BY <1>6 DEF Create, Update
  <2>2. CASE row' = row /\ pc' = [pc EXCEPT ![r] = "skipped"]
    BY <1>1, <2>1, <2>2 DEF LeaseHolders, Unexpired, LockInv, TypeOK
  <2>3. CASE /\ row' = Lock(r) /\ pc' = [pc EXCEPT ![r] = "running"]
             /\ row = NoRow \/ (row # NoRow /\ row.until <= start[r])
    <3>1. LeaseHolders = {}
      BY <2>3, AcquireFree
    <3>2. LeaseHolders' \subseteq {r}
      BY <2>1, <2>3, <3>1 DEF LeaseHolders, Unexpired, LockInv, TypeOK
    <3>. QED
      BY <1>2, <2>1, <2>3, <3>1, <3>2
  <2>. QED
    BY <1>6, <2>2, <2>3 DEF Create, Update, LockInv, TypeOK
<1>7. ASSUME NEW r \in Runs, Release(r) PROVE [L!Next]_LeaseHolders /\ HolderOwnsRow'
  <2>1. start' = start /\ now' = now /\ pc[r] = "release" /\ pc' = [pc EXCEPT ![r] = "done"]
    BY <1>7 DEF Release, Goto
  <2>2. LeaseHolders' = LeaseHolders
    BY <2>1 DEF LeaseHolders, Unexpired, LockInv, TypeOK
  <2>3. ASSUME NEW s \in LeaseHolders PROVE row' = row
    <3>1. row = Lock(s) /\ s \in Runs /\ s # r /\ Active(s) /\ Active(r)
      BY <2>1 DEF LockInv, TypeOK, HolderOwnsRow, LeaseHolders, Active
    <3>2. row.by # Host[r]
      BY <3>1 DEF LockInv, OneActivePerHost, Lock
    <3>. QED
      BY <1>7, <3>2 DEF Release
  <2>. QED
    BY <1>1, <2>1, <2>2, <2>3
<1>8. CASE UNCHANGED lockVars
  BY <1>1, <1>8 DEF lockVars, LeaseHolders, Unexpired
<1>. QED
  BY <1>3, <1>4, <1>5, <1>6, <1>7, <1>8 DEF LockNext, RunStep

LEMMA LockInvCorrect == ASSUME ~Overlapping PROVE LockSpec => []LockInv
<1>1. LockInit => LockInv
  BY TypeInit DEF LockInit, LockInv, StartPast, OneActivePerHost, HolderOwnsRow, LeaseHolders, Active
<1>2. LockInv /\ [LockNext]_lockVars => LockInv'
  BY TypeNext, StartPastNext, OneActiveNext, HolderStep DEF LockInv
<1>. QED
  BY <1>1, <1>2, PTL DEF LockSpec

\* With one run at a time on each host, the runs that execute under an
\* unexpired lease take turns: the row in springo_shedlock implements Lease.
THEOREM ImplementsLease == ASSUME ~Overlapping PROVE LockSpec => LeaseSpec
<1>1. LockInit => L!Init
  BY DEF LockInit, L!Init, LeaseHolders
<1>2. LockInv /\ [LockNext]_lockVars => [L!Next]_LeaseHolders
  BY HolderStep
<1>. QED
  BY <1>1, <1>2, LockInvCorrect, PTL DEF LockSpec, LeaseSpec, L!Spec

\* In particular two hosts never both execute the job within their leases.
THEOREM OnePod == ASSUME ~Overlapping PROVE LockSpec => []OnePodAtATime
<1>1. LockInv => OnePodAtATime
  BY OneHolder DEF OnePodAtATime
<1>. QED
  BY <1>1, LockInvCorrect, PTL

-----------------------------------------------------------------------------
(* lock-at-least-for keeps the runs that get the lock apart. *)

Shorter == IF AtLeast <= AtMost THEN AtLeast ELSE AtMost

\* Of a run that got the lock, the row remembers the shorter duration, even
\* when the row was written by a later run or a release since.
RowRemembers ==
  \A r \in Runs : Acquired(r) => row # NoRow /\ start[r] + Shorter <= row.until

\* A run that still executes, or is about to release, and whose host the row
\* names came last: it is the one whose release the row takes.
ReleaserIsLast ==
  \A r, s \in Runs :
    /\ pc[r] \in {"running", "release"} /\ row # NoRow /\ row.by = Host[r]
    /\ s # r /\ Acquired(s)
    => start[s] + Shorter <= start[r]

\* In terms of Shorter.
RunsApart ==
  \A r, s \in Runs :
    r # s /\ Acquired(r) /\ Acquired(s) =>
      start[r] + Shorter <= start[s] \/ start[s] + Shorter <= start[r]

AtLeastInv == RowRemembers /\ ReleaserIsLast /\ RunsApart

LEMMA ShorterType == Shorter \in Nat /\ Shorter <= AtLeast /\ Shorter <= AtMost
BY DEF Shorter

LEMMA RunsApartSuffices == TypeOK /\ RunsApart => AtLeastHonoured
BY DEF TypeOK, RunsApart, AtLeastHonoured, Shorter

\* Who takes the row finds every earlier lease over.
LEMMA AcquireApart ==
  ASSUME LockInv, AtLeastInv, NEW r \in Runs, Active(r), ~Acquired(r),
         row = NoRow \/ (row # NoRow /\ row.until <= start[r]),
         row' = Lock(r), pc' = [pc EXCEPT ![r] = "running"], start' = start
  PROVE  AtLeastInv'
<1> USE ShorterType DEF LockInv, TypeOK, AtLeastInv, Acquired
<1>1. \A s \in Runs \ {r} : Acquired(s)' => start[s] + Shorter <= start[r]
  BY DEF RowRemembers
<1>2. row' # NoRow /\ row'.until = start[r] + AtMost /\ row'.by = Host[r]
  BY LockTyped DEF Lock
<1>3. RowRemembers'
  BY <1>1, <1>2 DEF RowRemembers
<1>4. RunsApart'
  BY <1>1 DEF RunsApart
<1>5. \A s \in Runs \ {r} : pc'[s] \in {"running", "release"} => Host[s] # Host[r]
  BY DEF OneActivePerHost, Active
<1>6. ReleaserIsLast'
  BY <1>1, <1>2, <1>5 DEF ReleaserIsLast
<1>. QED
  BY <1>3, <1>4, <1>6

\* A release never cuts the row short of what another run is promised.
LEMMA ReleaseApart == ASSUME LockInv, AtLeastInv, NEW r \in Runs, Release(r) PROVE AtLeastInv'
<1> USE ShorterType DEF LockInv, TypeOK, AtLeastInv, Acquired
<1>1. /\ start' = start /\ pc[r] = "release" /\ pc' = [pc EXCEPT ![r] = "done"]
      /\ \A s \in Runs : Acquired(s)' <=> Acquired(s)
  BY DEF Release, Goto
<1>2. RunsApart'
  BY <1>1 DEF RunsApart
<1>3. row # NoRow
  BY <1>1 DEF RowRemembers
<1>4. row' # NoRow /\ row'.by = row.by
  <2>1. row \in Row /\ ReleaseTime(r) \in Int
    BY <1>3 DEF ReleaseTime
  <2>. QED
    BY <1>3, <2>1 DEF Release
<1>5. ReleaserIsLast'
  BY <1>1, <1>3, <1>4 DEF ReleaserIsLast
<1>6. ASSUME row.by # Host[r] PROVE RowRemembers'
  <2>1. row' = row
    BY <1>6 DEF Release
  <2>. QED
    BY <1>1, <2>1 DEF RowRemembers
<1>7. ASSUME row.by = Host[r] PROVE RowRemembers'
  <2>1. row'.until = ReleaseTime(r)
    BY <1>3, <1>7 DEF Release
  <2>2. \A s \in Runs : Acquired(s) => start[s] + Shorter <= ReleaseTime(r)
    <3>1. start[r] + Shorter <= ReleaseTime(r)
      BY DEF ReleaseTime
    <3>2. start[r] <= ReleaseTime(r) /\ ReleaseTime(r) \in Int
      BY DEF ReleaseTime, StartPast
    <3>3. \A s \in Runs \ {r} : Acquired(s) => start[s] + Shorter <= start[r]
      BY <1>1, <1>3, <1>7 DEF ReleaserIsLast
    <3>. QED
      BY <3>1, <3>2, <3>3
  <2>. QED
    BY <1>1, <1>4, <2>1, <2>2 DEF RowRemembers
<1>. QED
  BY <1>2, <1>5, <1>6, <1>7

LEMMA AtLeastNext == LockInv /\ AtLeastInv /\ [LockNext]_lockVars => AtLeastInv'
<1> SUFFICES ASSUME LockInv, AtLeastInv, [LockNext]_lockVars PROVE AtLeastInv'
  OBVIOUS
<1> USE DEF LockInv, TypeOK, AtLeastInv, Acquired, RowRemembers, ReleaserIsLast, RunsApart
<1>1. CASE row' = row /\ start' = start /\ \A s \in Runs : pc'[s] = pc[s]
  BY <1>1
<1>2. ASSUME NEW r \in Runs, row' = row, start' = start, pc[r] \in RunStates,
             NEW q \in {"update", "create", "skipped", "crashed"}, pc' = [pc EXCEPT ![r] = q]
      PROVE  AtLeastInv'
  BY <1>2
<1>3. ASSUME NEW r \in Runs, Begin(r) PROVE AtLeastInv'
  BY <1>3 DEF Begin, Goto
<1>4. ASSUME NEW r \in Runs, Select(r) \/ DbError(r) \/ Crash(r) PROVE AtLeastInv'
  BY <1>2, <1>4 DEF Select, DbError, Crash
<1>5. ASSUME NEW r \in Runs, Finish(r) \/ ReleaseError(r) PROVE AtLeastInv'
  BY <1>5 DEF Finish, ReleaseError, Goto
<1>6. ASSUME NEW r \in Runs, Create(r) \/ Update(r) PROVE AtLeastInv'
  <2>1. CASE row' = row /\ pc' = [pc EXCEPT ![r] = "skipped"]
    BY <1>2, <1>6, <2>1 DEF Create, Update
  <2>2. CASE /\ row' = Lock(r) /\ pc' = [pc EXCEPT ![r] = "running"]
             /\ row = NoRow \/ (row # NoRow /\ row.until <= start[r])
    <3>1. Active(r) /\ ~Acquired(r) /\ start' = start
      BY <1>6 DEF Create, Update, Active
    <3> HIDE DEF LockInv, TypeOK, AtLeastInv, Acquired
    <3>. QED
      BY <2>2, <3>1, AcquireApart
  <2>. QED
    BY <1>6, <2>1, <2>2 DEF Create, Update
<1>7. ASSUME NEW r \in Runs, Release(r) PROVE AtLeastInv'
  BY <1>7, ReleaseApart
<1>. QED
  BY <1>1, <1>3, <1>4, <1>5, <1>6, <1>7 DEF LockNext, RunStep, Tick, lockVars

\* With one run at a time on each host, two runs that got the lock began at
\* least lock-at-least-for (or lock-at-most-for, if shorter) apart, however
\* crashes and failed releases interleave (releaseShedLock, updateExpiredLock).
THEOREM AtLeastHonouredAlways == ASSUME ~Overlapping PROVE LockSpec => []AtLeastHonoured
<1>1. LockInit => AtLeastInv
  BY DEF LockInit, AtLeastInv, RowRemembers, ReleaserIsLast, RunsApart, Acquired
<1>2. LockInv /\ AtLeastInv => AtLeastHonoured
  BY RunsApartSuffices DEF LockInv, AtLeastInv
<1>. QED
  BY <1>1, <1>2, LockInvCorrect, AtLeastNext, PTL DEF LockSpec
=============================================================================
