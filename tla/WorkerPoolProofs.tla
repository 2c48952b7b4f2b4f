-------------------------- MODULE WorkerPoolProofs --------------------------
(***************************************************************************)
(* Proofs about WorkerPool for any number of tasks, workers, pools and     *)
(* callers of StopWorkerPool, any capacity and any publishing relation.    *)
(***************************************************************************)
EXTENDS WorkerPool, FiniteSetTheorems, TLAPS

USE DEF NoPolicy, Publishing, DispatchStates, ExecStates, Stopping, StopStates

(***************************************************************************)
(* Type correctness.                                                       *)
(***************************************************************************)

LEMMA TypeInit == Init => TypeOK
<1> SUFFICES ASSUME Init PROVE TypeOK
  OBVIOUS
<1>1. /\ accepting \in [Pools -> BOOLEAN] /\ closed \in [Pools -> BOOLEAN]
      /\ queue \in [Pools -> Seq(Tasks)]
      /\ worker \in [Pools -> [Workers -> Tasks \cup {Idle, Exited}]]
  BY DEF Init
<1>2. /\ dispatch \in [Tasks -> DispatchStates] /\ exec \in [Tasks -> ExecStates]
      /\ pool \in [Tasks -> Pools \cup {NoPool}]
      /\ \A t \in Tasks : dispatch[t] \in Publishing => pool[t] \in Pools
      /\ policy \in [Tasks -> Policies \cup {NoPolicy}]
  BY DEF Init
<1>3. /\ stopPc \in [Stoppers -> StopStates]
      /\ stopPool \in [Stoppers -> Pools \cup {NoPool}]
      /\ discardedEvents \in Nat
  BY DEF Init
<1>. QED
  BY <1>1, <1>2, <1>3 DEF Init, TypeOK

LEMMA TypeNext == TypeOK /\ [Next]_vars => TypeOK'
<1> SUFFICES ASSUME TypeOK, [Next]_vars PROVE TypeOK'
  OBVIOUS
<1> USE DEF TypeOK, busVars, poolVars, taskVars, stopVars, pollVars
<1>1. ASSUME NEW p \in Pools, NEW pol \in Policies, StartWorkerPool(p, pol) PROVE TypeOK'
  BY <1>1 DEF StartWorkerPool
<1>2. ASSUME NEW t \in Tasks, Register(t) PROVE TypeOK'
  BY <1>2 DEF Register
<1>3. ASSUME NEW t \in Tasks, PublishWithoutPool(t) PROVE TypeOK'
  <2>1. discardedEvents' \in Nat
    BY <1>3 DEF PublishWithoutPool
  <2>2. exec' \in [Tasks -> ExecStates]
    BY <1>3 DEF PublishWithoutPool
  <2>. QED
    BY <1>3, <2>1, <2>2 DEF PublishWithoutPool
<1>4. ASSUME NEW t \in Tasks, DispatchStep(t) PROVE TypeOK'
  <2>1. CASE Accept(t)
    BY <2>1 DEF Accept
  <2>2. CASE DispatchStoppingPool(t)
    <3>1. /\ Discard(t) \/ SpawnFallback(t)
          /\ dispatch[t] = "registered"
          /\ UNCHANGED <<busVars, poolVars, pool, policy, stopVars, outbox, pollVars>>
      BY <2>2 DEF DispatchStoppingPool
    <3>2. CASE Discard(t)
      BY <3>1, <3>2 DEF Discard
    <3>3. CASE SpawnFallback(t)
      BY <3>1, <3>3 DEF SpawnFallback
    <3>. QED
      BY <3>1, <3>2, <3>3
  <2>3. CASE SendToQueue(t)
    BY <2>3 DEF SendToQueue
  <2>4. CASE DiscardOnFull(t)
    BY <2>4 DEF DiscardOnFull, Discard
  <2>5. CASE NotSent(t)
    BY <2>5 DEF NotSent
  <2>6. CASE HandleUnsentTask(t)
    BY <2>6 DEF HandleUnsentTask, SpawnFallback
  <2>7. CASE PublishReturns(t)
    BY <2>7 DEF PublishReturns
  <2>. QED
    BY <1>4, <2>1, <2>2, <2>3, <2>4, <2>5, <2>6, <2>7 DEF DispatchStep
<1>5. ASSUME NEW t \in Tasks, FinishOwnGoroutine(t) PROVE TypeOK'
  BY <1>5 DEF FinishOwnGoroutine
<1>6. ASSUME NEW p \in Pools, NEW w \in Workers, WorkerStep(p, w) PROVE TypeOK'
  <2>1. CASE TakeTask(p, w)
    <3>1. Head(queue[p]) \in Tasks /\ Tail(queue[p]) \in Seq(Tasks)
      BY <2>1 DEF TakeTask
    <3>. QED
      BY <2>1, <3>1 DEF TakeTask
  <2>2. CASE FinishTask(p, w)
    BY <2>2 DEF FinishTask
  <2>3. CASE WorkerExit(p, w)
    BY <2>3 DEF WorkerExit
  <2>. QED
    BY <1>6, <2>1, <2>2, <2>3 DEF WorkerStep
<1>7. CASE PollerTick \/ PollerDone \/ PollerExit
  BY <1>7 DEF PollerTick, PollerDone, PollerExit
<1>8. ASSUME NEW s \in Stoppers, StopCapture(s) PROVE TypeOK'
  BY <1>8 DEF StopCapture
<1>9. ASSUME NEW s \in Stoppers, StopStep(s) PROVE TypeOK'
  BY <1>9 DEF StopStep, StopTo, StopAccepting, StopClosePoller, StopPollerStopped,
              StopCloseQueue, StopWorkersExited, StopReturn
<1>10. CASE UNCHANGED vars
  BY <1>10 DEF vars
<1>. QED
  BY <1>1, <1>2, <1>3, <1>4, <1>5, <1>6, <1>7, <1>8, <1>9, <1>10 DEF Next

\* Every reachable state is well typed; in particular a goroutine inside
\* dispatchWithPool has captured a pool, never nil.
THEOREM TypeCorrect == Spec => []TypeOK
BY TypeInit, TypeNext, PTL DEF Spec

(***************************************************************************)
(* The inductive invariant.  Neither safety property is inductive: both    *)
(* rest on what the stages of StopWorkerPool have already established for  *)
(* the pool they captured.                                                 *)
(***************************************************************************)

\* s has closed the queue of the pool it captured.
HasClosed(s) ==
  \/ stopPc[s] \in {"workersWait", "fallbacksWait"}
  \/ stopPc[s] = "returned" /\ stopPool[s] # NoPool

\* The pool in use is open and no StopWorkerPool has captured it; a pool that
\* was never started has not been touched.
CurrentOpen ==
  /\ currentPool # NoPool => currentPool \in started
  /\ \A p \in Pools : p = currentPool \/ p \notin started =>
       ~closed[p] /\ \A s \in Stoppers : stopPool[s] # p

StopPools ==
  \A s \in Stoppers :
    /\ stopPc[s] \in Stopping => stopPool[s] \in Pools
    /\ HasClosed(s) => closed[stopPool[s]]

\* A queue is closed only when nobody is left to send to it.
ClosedQuiet ==
  \A t \in Tasks : dispatch[t] \in Publishing => ~closed[pool[t]]

\* How far the publishing goroutine is bounds what became of the listener.
DispatchBeforeExec ==
  \A t \in Tasks :
    /\ dispatch[t] = "idle" => pool[t] = NoPool /\ exec[t] = "none"
    /\ dispatch[t] \in {"returning", "returned"} => exec[t] # "none"
    /\ exec[t] = "legacy" => pool[t] = NoPool

\* A queued task is in its pool's queue, a running one on one of its workers.
QueueContents ==
  /\ \A p \in Pools : \A i \in 1..Len(queue[p]) : pool[queue[p][i]] = p
  /\ \A t \in Tasks : exec[t] = "queued" =>
       pool[t] \in Pools /\ \E i \in 1..Len(queue[pool[t]]) : queue[pool[t]][i] = t

WorkerContents ==
  /\ \A p \in Pools, w \in Workers :
       /\ worker[p][w] \in Tasks => pool[worker[p][w]] = p
       /\ worker[p][w] = Exited => closed[p] /\ queue[p] = << >>
  /\ \A t \in Tasks : exec[t] = "running" =>
       pool[t] \in Pools /\ \E w \in Workers : worker[pool[t]][w] = t

\* What the two last waits of StopWorkerPool have seen.
WaitsDone ==
  \A s \in Stoppers :
    /\ stopPc[s] = "fallbacksWait" \/ (stopPc[s] = "returned" /\ stopPool[s] # NoPool)
         => \A w \in Workers : worker[stopPool[s]][w] = Exited
    /\ stopPc[s] = "returned" /\ stopPool[s] # NoPool
         => \A t \in Tasks : pool[t] = stopPool[s] => exec[t] # "fallback"

IInv ==
  /\ TypeOK
  /\ CurrentOpen /\ StopPools /\ ClosedQuiet
  /\ DispatchBeforeExec /\ QueueContents /\ WorkerContents /\ WaitsDone
  /\ OnlyDiscardDrops

LEMMA CurrentOpenNext == IInv /\ TypeOK' /\ [Next]_vars => CurrentOpen'
<1> SUFFICES ASSUME IInv, TypeOK', [Next]_vars PROVE CurrentOpen'
  OBVIOUS
<1> USE DEF IInv, TypeOK
<1>0. UNCHANGED <<currentPool, started, closed, stopPool>> => CurrentOpen'
  BY DEF CurrentOpen
<1>1. ASSUME NEW p \in Pools, NEW pol \in Policies, StartWorkerPool(p, pol) PROVE CurrentOpen'
  BY <1>1 DEF StartWorkerPool, CurrentOpen, busVars, poolVars, taskVars, stopVars,
     pollVars
<1>2. ASSUME NEW t \in Tasks, Register(t) PROVE CurrentOpen'
  BY <1>0, <1>2 DEF Register, busVars, poolVars, taskVars, stopVars, pollVars
<1>3. ASSUME NEW t \in Tasks, PublishWithoutPool(t) PROVE CurrentOpen'
  BY <1>0, <1>3 DEF PublishWithoutPool, busVars, poolVars, taskVars, stopVars,
     pollVars
<1>4. ASSUME NEW t \in Tasks, DispatchStep(t) PROVE CurrentOpen'
  BY <1>0, <1>4 DEF DispatchStep, Accept, DispatchStoppingPool, SendToQueue,
     DiscardOnFull, NotSent, HandleUnsentTask, PublishReturns, Discard, SpawnFallback,
     busVars, poolVars, taskVars, stopVars, pollVars
<1>5. ASSUME NEW t \in Tasks, FinishOwnGoroutine(t) PROVE CurrentOpen'
  BY <1>0, <1>5 DEF FinishOwnGoroutine, busVars, poolVars, taskVars, stopVars,
     pollVars
<1>6. ASSUME NEW p \in Pools, NEW w \in Workers, WorkerStep(p, w) PROVE CurrentOpen'
  BY <1>0, <1>6 DEF WorkerStep, TakeTask, FinishTask, WorkerExit, busVars, poolVars,
     taskVars, stopVars, pollVars
<1>7. CASE PollerTick \/ PollerDone \/ PollerExit
  BY <1>0, <1>7 DEF PollerTick, PollerDone, PollerExit, busVars, poolVars, taskVars,
     stopVars, pollVars
<1>8. ASSUME NEW s \in Stoppers, StopCapture(s) PROVE CurrentOpen'
  <2>. SUFFICES ASSUME NEW p \in Pools, p \notin started
                PROVE  ~closed[p] /\ \A r \in Stoppers : stopPool'[r] # p
    BY <1>8, NamesAssumption DEF StopCapture, CurrentOpen, busVars, poolVars
  <2>1. currentPool # p
    BY NamesAssumption DEF CurrentOpen
  <2>2. stopPool' = [stopPool EXCEPT ![s] = currentPool]
    BY <1>8 DEF StopCapture
  <2>. QED
    BY <2>1, <2>2 DEF CurrentOpen
<1>9. ASSUME NEW s \in Stoppers, StopStep(s) PROVE CurrentOpen'
  BY <1>9 DEF StopStep, StopTo, StopAccepting, StopClosePoller, StopPollerStopped,
     StopCloseQueue, StopWorkersExited, StopReturn, ActivePublishers, Fallbacks,
     CurrentOpen, busVars, poolVars, taskVars, stopVars, pollVars
<1>10. CASE UNCHANGED vars
  BY <1>0, <1>10 DEF vars, busVars, poolVars, taskVars, stopVars, pollVars
<1>. QED
  BY <1>1, <1>2, <1>3, <1>4, <1>5, <1>6, <1>7, <1>8, <1>9, <1>10 DEF Next

LEMMA StopPoolsNext == IInv /\ TypeOK' /\ [Next]_vars => StopPools'
<1> SUFFICES ASSUME IInv, TypeOK', [Next]_vars PROVE StopPools'
  OBVIOUS
<1> USE DEF IInv, TypeOK
<1>0. UNCHANGED <<closed, stopPc, stopPool>> => StopPools'
  BY DEF StopPools, HasClosed
<1>1. ASSUME NEW p \in Pools, NEW pol \in Policies, StartWorkerPool(p, pol) PROVE StopPools'
  BY <1>0, <1>1 DEF StartWorkerPool, busVars, poolVars, taskVars, stopVars, pollVars
<1>2. ASSUME NEW t \in Tasks, Register(t) PROVE StopPools'
  BY <1>0, <1>2 DEF Register, busVars, poolVars, taskVars, stopVars, pollVars
<1>3. ASSUME NEW t \in Tasks, PublishWithoutPool(t) PROVE StopPools'
  BY <1>0, <1>3 DEF PublishWithoutPool, busVars, poolVars, taskVars, stopVars,
     pollVars
<1>4. ASSUME NEW t \in Tasks, DispatchStep(t) PROVE StopPools'
  BY <1>0, <1>4 DEF DispatchStep, Accept, DispatchStoppingPool, SendToQueue,
     DiscardOnFull, NotSent, HandleUnsentTask, PublishReturns, Discard, SpawnFallback,
     busVars, poolVars, taskVars, stopVars, pollVars
<1>5. ASSUME NEW t \in Tasks, FinishOwnGoroutine(t) PROVE StopPools'
  BY <1>0, <1>5 DEF FinishOwnGoroutine, busVars, poolVars, taskVars, stopVars,
     pollVars
<1>6. ASSUME NEW p \in Pools, NEW w \in Workers, WorkerStep(p, w) PROVE StopPools'
  BY <1>0, <1>6 DEF WorkerStep, TakeTask, FinishTask, WorkerExit, busVars, poolVars,
     taskVars, stopVars, pollVars
<1>7. CASE PollerTick \/ PollerDone \/ PollerExit
  BY <1>0, <1>7 DEF PollerTick, PollerDone, PollerExit, busVars, poolVars, taskVars,
     stopVars, pollVars
<1>8. ASSUME NEW s \in Stoppers, StopCapture(s) PROVE StopPools'
  BY <1>8 DEF StopCapture, StopPools, HasClosed, busVars, poolVars, taskVars,
     stopVars, pollVars
<1>9. ASSUME NEW s \in Stoppers, StopStep(s) PROVE StopPools'
  <2>. USE DEF StopTo, StopPools, HasClosed, busVars, poolVars, taskVars, stopVars, pollVars
  <2>1. CASE StopCloseQueue(s)
    BY <2>1 DEF StopCloseQueue
  <2>2. CASE StopWorkersExited(s)
    BY <2>2 DEF StopWorkersExited
  <2>3. CASE StopReturn(s)
    BY <2>3 DEF StopReturn
  <2>4. CASE StopAccepting(s)
    BY <2>4 DEF StopAccepting
  <2>5. CASE StopClosePoller(s)
    BY <2>5 DEF StopClosePoller
  <2>6. CASE StopPollerStopped(s)
    BY <2>6 DEF StopPollerStopped
  <2>. QED
    BY <1>9, <2>1, <2>2, <2>3, <2>4, <2>5, <2>6 DEF StopStep
<1>10. CASE UNCHANGED vars
  BY <1>0, <1>10 DEF vars, busVars, poolVars, taskVars, stopVars, pollVars
<1>. QED
  BY <1>1, <1>2, <1>3, <1>4, <1>5, <1>6, <1>7, <1>8, <1>9, <1>10 DEF Next

LEMMA ClosedQuietNext == IInv /\ TypeOK' /\ [Next]_vars => ClosedQuiet'
<1> SUFFICES ASSUME IInv, TypeOK', [Next]_vars PROVE ClosedQuiet'
  OBVIOUS
<1> USE DEF IInv, TypeOK
<1>0. UNCHANGED <<closed, dispatch, pool>> => ClosedQuiet'
  BY DEF ClosedQuiet
<1>1. ASSUME NEW p \in Pools, NEW pol \in Policies, StartWorkerPool(p, pol) PROVE ClosedQuiet'
  BY <1>0, <1>1 DEF StartWorkerPool, busVars, poolVars, taskVars, stopVars, pollVars
<1>2. ASSUME NEW t \in Tasks, Register(t) PROVE ClosedQuiet'
  BY <1>2 DEF Register, ClosedQuiet, CurrentOpen, busVars, poolVars, taskVars, stopVars, pollVars
<1>3. ASSUME NEW t \in Tasks, PublishWithoutPool(t) PROVE ClosedQuiet'
  BY <1>3 DEF PublishWithoutPool, ClosedQuiet, busVars, poolVars, taskVars, stopVars,
     pollVars
<1>4. ASSUME NEW t \in Tasks, DispatchStep(t) PROVE ClosedQuiet'
  BY <1>4 DEF DispatchStep, Accept, DispatchStoppingPool, SendToQueue, DiscardOnFull,
     NotSent, HandleUnsentTask, PublishReturns, Discard, SpawnFallback, ClosedQuiet,
     busVars, poolVars, taskVars, stopVars, pollVars
<1>5. ASSUME NEW t \in Tasks, FinishOwnGoroutine(t) PROVE ClosedQuiet'
  BY <1>0, <1>5 DEF FinishOwnGoroutine, busVars, poolVars, taskVars, stopVars,
     pollVars
<1>6. ASSUME NEW p \in Pools, NEW w \in Workers, WorkerStep(p, w) PROVE ClosedQuiet'
  BY <1>0, <1>6 DEF WorkerStep, TakeTask, FinishTask, WorkerExit, busVars, poolVars,
     taskVars, stopVars, pollVars
<1>7. CASE PollerTick \/ PollerDone \/ PollerExit
  BY <1>0, <1>7 DEF PollerTick, PollerDone, PollerExit, busVars, poolVars, taskVars,
     stopVars, pollVars
<1>8. ASSUME NEW s \in Stoppers, StopCapture(s) PROVE ClosedQuiet'
  BY <1>0, <1>8 DEF StopCapture, busVars, poolVars, taskVars, stopVars, pollVars
<1>9. ASSUME NEW s \in Stoppers, StopStep(s) PROVE ClosedQuiet'
  BY <1>9 DEF StopStep, StopTo, StopAccepting, StopClosePoller, StopPollerStopped,
     StopCloseQueue, StopWorkersExited, StopReturn, ActivePublishers, Fallbacks,
     ClosedQuiet, busVars, poolVars, taskVars, stopVars, pollVars
<1>10. CASE UNCHANGED vars
  BY <1>0, <1>10 DEF vars, busVars, poolVars, taskVars, stopVars, pollVars
<1>. QED
  BY <1>1, <1>2, <1>3, <1>4, <1>5, <1>6, <1>7, <1>8, <1>9, <1>10 DEF Next

LEMMA DispatchBeforeExecNext == IInv /\ TypeOK' /\ [Next]_vars => DispatchBeforeExec'
<1> SUFFICES ASSUME IInv, TypeOK', [Next]_vars PROVE DispatchBeforeExec'
  OBVIOUS
<1> USE DEF IInv, TypeOK
<1>0. UNCHANGED <<dispatch, exec, pool>> => DispatchBeforeExec'
  BY DEF DispatchBeforeExec
<1>1. ASSUME NEW p \in Pools, NEW pol \in Policies, StartWorkerPool(p, pol) PROVE DispatchBeforeExec'
  BY <1>0, <1>1 DEF StartWorkerPool, busVars, poolVars, taskVars, stopVars, pollVars
<1>2. ASSUME NEW t \in Tasks, Register(t) PROVE DispatchBeforeExec'
  BY <1>2 DEF Register, DispatchBeforeExec, busVars, poolVars, taskVars, stopVars,
     pollVars
<1>3. ASSUME NEW t \in Tasks, PublishWithoutPool(t) PROVE DispatchBeforeExec'
  BY <1>3 DEF PublishWithoutPool, DispatchBeforeExec, busVars, poolVars, taskVars,
     stopVars, pollVars
<1>4. ASSUME NEW t \in Tasks, DispatchStep(t) PROVE DispatchBeforeExec'
  BY <1>4 DEF DispatchStep, Accept, DispatchStoppingPool, SendToQueue, DiscardOnFull,
     NotSent, HandleUnsentTask, PublishReturns, Discard, SpawnFallback,
     DispatchBeforeExec, busVars, poolVars, taskVars, stopVars, pollVars
<1>5. ASSUME NEW t \in Tasks, FinishOwnGoroutine(t) PROVE DispatchBeforeExec'
  BY <1>5 DEF FinishOwnGoroutine, DispatchBeforeExec, busVars, poolVars, taskVars,
     stopVars, pollVars
<1>6. ASSUME NEW p \in Pools, NEW w \in Workers, WorkerStep(p, w) PROVE DispatchBeforeExec'
  <2>. USE NamesAssumption DEF DispatchBeforeExec, QueueContents, WorkerContents, busVars, poolVars, taskVars, stopVars, pollVars
  <2>1. CASE TakeTask(p, w)
    <3>1. pool[Head(queue[p])] = p /\ Head(queue[p]) \in Tasks
      BY <2>1 DEF TakeTask
    <3>. QED
      BY <2>1, <3>1 DEF TakeTask
  <2>2. CASE FinishTask(p, w)
    BY <2>2 DEF FinishTask
  <2>3. CASE WorkerExit(p, w)
    BY <2>3 DEF WorkerExit
  <2>. QED
    BY <1>6, <2>1, <2>2, <2>3 DEF WorkerStep
<1>7. CASE PollerTick \/ PollerDone \/ PollerExit
  BY <1>0, <1>7 DEF PollerTick, PollerDone, PollerExit, busVars, poolVars, taskVars,
     stopVars, pollVars
<1>8. ASSUME NEW s \in Stoppers, StopCapture(s) PROVE DispatchBeforeExec'
  BY <1>0, <1>8 DEF StopCapture, busVars, poolVars, taskVars, stopVars, pollVars
<1>9. ASSUME NEW s \in Stoppers, StopStep(s) PROVE DispatchBeforeExec'
  BY <1>0, <1>9 DEF StopStep, StopTo, StopAccepting, StopClosePoller,
     StopPollerStopped, StopCloseQueue, StopWorkersExited, StopReturn,
     ActivePublishers, Fallbacks, busVars, poolVars, taskVars, stopVars, pollVars
<1>10. CASE UNCHANGED vars
  BY <1>0, <1>10 DEF vars, busVars, poolVars, taskVars, stopVars, pollVars
<1>. QED
  BY <1>1, <1>2, <1>3, <1>4, <1>5, <1>6, <1>7, <1>8, <1>9, <1>10 DEF Next

LEMMA QueueContentsNext == IInv /\ TypeOK' /\ [Next]_vars => QueueContents'
<1> SUFFICES ASSUME IInv, TypeOK', [Next]_vars PROVE QueueContents'
  OBVIOUS
<1> USE DEF IInv, TypeOK
<1>0. UNCHANGED <<queue, exec, pool>> => QueueContents'
  BY DEF QueueContents
<1>1. ASSUME NEW p \in Pools, NEW pol \in Policies, StartWorkerPool(p, pol) PROVE QueueContents'
  BY <1>0, <1>1 DEF StartWorkerPool, busVars, poolVars, taskVars, stopVars, pollVars
<1>2. ASSUME NEW t \in Tasks, Register(t) PROVE QueueContents'
  BY <1>2, NamesAssumption DEF Register, QueueContents, DispatchBeforeExec, busVars, poolVars, taskVars, stopVars, pollVars
<1>3. ASSUME NEW t \in Tasks, PublishWithoutPool(t) PROVE QueueContents'
  BY <1>3 DEF PublishWithoutPool, QueueContents, busVars, poolVars, taskVars,
     stopVars, pollVars
<1>4. ASSUME NEW t \in Tasks, DispatchStep(t) PROVE QueueContents'
  <2>1. CASE SendToQueue(t)
    <3>1. pool[t] \in Pools
      BY <2>1 DEF SendToQueue
    <3>2. queue' = [queue EXCEPT ![pool[t]] = Append(queue[pool[t]], t)] /\ pool' = pool
      BY <2>1 DEF SendToQueue
    <3>3. \A p \in Pools : \A i \in 1..Len(queue'[p]) : pool'[queue'[p][i]] = p
      BY <3>1, <3>2 DEF QueueContents
    <3>4. ASSUME NEW u \in Tasks, exec'[u] = "queued"
          PROVE  pool'[u] \in Pools /\ \E i \in 1..Len(queue'[pool'[u]]) : queue'[pool'[u]][i] = u
      <4>1. CASE u = t
        <5>1. Len(queue'[pool[t]]) \in 1..Len(queue'[pool[t]]) /\ queue'[pool[t]][Len(queue'[pool[t]])] = t
          BY <3>1, <3>2
        <5>. QED
          BY <3>1, <3>2, <4>1, <5>1
      <4>2. CASE u # t
        <5>1. exec[u] = "queued"
          BY <2>1, <3>4, <4>2 DEF SendToQueue
        <5>2. PICK i \in 1..Len(queue[pool[u]]) : queue[pool[u]][i] = u
          BY <5>1 DEF QueueContents
        <5>3. pool[u] \in Pools
          BY <5>1 DEF QueueContents
        <5>4. i \in 1..Len(queue'[pool[u]]) /\ queue'[pool[u]][i] = u
          BY <3>1, <3>2, <5>2, <5>3
        <5>. QED
          BY <3>2, <5>3, <5>4
      <4>. QED
        BY <4>1, <4>2
    <3>. QED
      BY <3>3, <3>4 DEF QueueContents
  <2>2. CASE ~SendToQueue(t)
    <3>1. /\ queue' = queue /\ pool' = pool
          /\ \A u \in Tasks : exec'[u] = "queued" => exec[u] = "queued"
      BY <1>4, <2>2 DEF DispatchStep, Accept, DispatchStoppingPool, SendToQueue, DiscardOnFull, NotSent, HandleUnsentTask, PublishReturns, Discard, SpawnFallback, busVars, poolVars, taskVars, stopVars, pollVars
    <3>. QED
      BY <3>1 DEF QueueContents
  <2>. QED
    BY <2>1, <2>2
<1>5. ASSUME NEW t \in Tasks, FinishOwnGoroutine(t) PROVE QueueContents'
  BY <1>5 DEF FinishOwnGoroutine, QueueContents, busVars, poolVars, taskVars,
     stopVars, pollVars
<1>6. ASSUME NEW p \in Pools, NEW w \in Workers, WorkerStep(p, w) PROVE QueueContents'
  <2>1. CASE TakeTask(p, w)
    <3>1. queue[p] # << >> /\ queue' = [queue EXCEPT ![p] = Tail(queue[p])] /\ pool' = pool
      BY <2>1 DEF TakeTask
    <3>2. exec' = [exec EXCEPT ![Head(queue[p])] = "running"]
      BY <2>1 DEF TakeTask
    <3>3. /\ Len(Tail(queue[p])) = Len(queue[p]) - 1
          /\ \A i \in 1..Len(Tail(queue[p])) : Tail(queue[p])[i] = queue[p][i + 1]
      BY <3>1
    <3>4. \A q \in Pools : \A i \in 1..Len(queue'[q]) : pool'[queue'[q][i]] = q
      BY <3>1, <3>3 DEF QueueContents
    <3>5. ASSUME NEW u \in Tasks, exec'[u] = "queued"
          PROVE  pool'[u] \in Pools /\ \E i \in 1..Len(queue'[pool'[u]]) : queue'[pool'[u]][i] = u
      <4>1. u # Head(queue[p]) /\ exec[u] = "queued"
        BY <3>2, <3>5, <3>1
      <4>2. PICK i \in 1..Len(queue[pool[u]]) : queue[pool[u]][i] = u
        BY <4>1 DEF QueueContents
      <4>3. pool[u] \in Pools
        BY <4>1 DEF QueueContents
      <4>4. CASE pool[u] = p
        <5>1. i # 1
          BY <4>1, <4>2, <4>4, <3>1
        <5>2. i - 1 \in 1..Len(queue'[p]) /\ queue'[p][i - 1] = u
          BY <3>1, <3>3, <4>2, <4>4, <5>1
        <5>. QED
          BY <3>1, <4>3, <4>4, <5>2
      <4>5. CASE pool[u] # p
        BY <3>1, <4>2, <4>3, <4>5
      <4>. QED
        BY <4>4, <4>5
    <3>. QED
      BY <3>4, <3>5 DEF QueueContents
  <2>2. CASE FinishTask(p, w) \/ WorkerExit(p, w)
    BY <2>2 DEF FinishTask, WorkerExit, QueueContents, busVars, poolVars, taskVars, stopVars, pollVars
  <2>. QED
    BY <1>6, <2>1, <2>2 DEF WorkerStep
<1>7. CASE PollerTick \/ PollerDone \/ PollerExit
  BY <1>0, <1>7 DEF PollerTick, PollerDone, PollerExit, busVars, poolVars, taskVars,
     stopVars, pollVars
<1>8. ASSUME NEW s \in Stoppers, StopCapture(s) PROVE QueueContents'
  BY <1>0, <1>8 DEF StopCapture, busVars, poolVars, taskVars, stopVars, pollVars
<1>9. ASSUME NEW s \in Stoppers, StopStep(s) PROVE QueueContents'
  BY <1>0, <1>9 DEF StopStep, StopTo, StopAccepting, StopClosePoller,
     StopPollerStopped, StopCloseQueue, StopWorkersExited, StopReturn,
     ActivePublishers, Fallbacks, busVars, poolVars, taskVars, stopVars, pollVars
<1>10. CASE UNCHANGED vars
  BY <1>0, <1>10 DEF vars, busVars, poolVars, taskVars, stopVars, pollVars
<1>. QED
  BY <1>1, <1>2, <1>3, <1>4, <1>5, <1>6, <1>7, <1>8, <1>9, <1>10 DEF Next

LEMMA WorkerContentsNext == IInv /\ TypeOK' /\ [Next]_vars => WorkerContents'
<1> SUFFICES ASSUME IInv, TypeOK', [Next]_vars PROVE WorkerContents'
  OBVIOUS
<1> USE DEF IInv, TypeOK
<1>0. UNCHANGED <<queue, worker, closed, exec, pool>> => WorkerContents'
  BY DEF WorkerContents
<1>1. ASSUME NEW p \in Pools, NEW pol \in Policies, StartWorkerPool(p, pol) PROVE WorkerContents'
  BY <1>0, <1>1 DEF StartWorkerPool, busVars, poolVars, taskVars, stopVars, pollVars
<1>2. ASSUME NEW t \in Tasks, Register(t) PROVE WorkerContents'
  BY <1>2, NamesAssumption DEF Register, WorkerContents, DispatchBeforeExec, busVars, poolVars, taskVars, stopVars, pollVars
<1>3. ASSUME NEW t \in Tasks, PublishWithoutPool(t) PROVE WorkerContents'
  BY <1>3 DEF PublishWithoutPool, WorkerContents, busVars, poolVars, taskVars,
     stopVars, pollVars
<1>4. ASSUME NEW t \in Tasks, DispatchStep(t) PROVE WorkerContents'
  <2>1. CASE SendToQueue(t)
    <3>1. ~closed[pool[t]] /\ pool[t] \in Pools
      BY <2>1 DEF SendToQueue, ClosedQuiet
    <3>2. \A p \in Pools, v \in Workers : worker[p][v] = Exited => queue'[p] = << >>
      BY <2>1, <3>1 DEF SendToQueue, WorkerContents
    <3>. QED
      BY <2>1, <3>2 DEF SendToQueue, WorkerContents
  <2>2. CASE ~SendToQueue(t)
    <3>1. /\ UNCHANGED <<queue, pool, worker, closed>>
          /\ \A u \in Tasks : exec'[u] = "running" => exec[u] = "running"
      BY <1>4, <2>2 DEF DispatchStep, Accept, DispatchStoppingPool, SendToQueue, DiscardOnFull, NotSent, HandleUnsentTask, PublishReturns, Discard, SpawnFallback, busVars, poolVars, taskVars, stopVars, pollVars
    <3>. QED
      BY <3>1 DEF WorkerContents
  <2>. QED
    BY <2>1, <2>2
<1>5. ASSUME NEW t \in Tasks, FinishOwnGoroutine(t) PROVE WorkerContents'
  BY <1>5 DEF FinishOwnGoroutine, WorkerContents, busVars, poolVars, taskVars,
     stopVars, pollVars
<1>6. ASSUME NEW p \in Pools, NEW w \in Workers, WorkerStep(p, w) PROVE WorkerContents'
  <2>1. CASE TakeTask(p, w)
    <3>1. /\ worker[p][w] = Idle /\ queue[p] # << >>
          /\ queue' = [queue EXCEPT ![p] = Tail(queue[p])]
          /\ worker' = [worker EXCEPT ![p][w] = Head(queue[p])]
          /\ exec' = [exec EXCEPT ![Head(queue[p])] = "running"]
          /\ pool' = pool /\ closed' = closed
      BY <2>1 DEF TakeTask
    <3>2. pool[Head(queue[p])] = p /\ Head(queue[p]) \in Tasks
      BY <3>1 DEF QueueContents
    <3>3. \A v \in Workers : worker[p][v] # Exited
      BY <3>1 DEF WorkerContents
    <3>4. ASSUME NEW q \in Pools, NEW v \in Workers
          PROVE  /\ worker'[q][v] \in Tasks => pool'[worker'[q][v]] = q
                 /\ worker'[q][v] = Exited => closed'[q] /\ queue'[q] = << >>
      <4>1. CASE q = p /\ v = w
        BY <3>1, <3>2, <4>1, NamesAssumption
      <4>2. CASE ~(q = p /\ v = w)
        <5>1. worker'[q][v] = worker[q][v]
          BY <3>1, <4>2
        <5>. QED
          BY <3>1, <3>3, <5>1 DEF WorkerContents
      <4>. QED
        BY <4>1, <4>2
    <3>5. ASSUME NEW u \in Tasks, exec'[u] = "running"
          PROVE  pool'[u] \in Pools /\ \E v \in Workers : worker'[pool'[u]][v] = u
      <4>1. CASE u = Head(queue[p])
        BY <3>1, <3>2, <4>1
      <4>2. CASE u # Head(queue[p])
        <5>1. pool[u] \in Pools /\ \E v \in Workers : worker[pool[u]][v] = u
          BY <3>1, <3>5, <4>2 DEF WorkerContents
        <5>2. PICK v \in Workers : worker[pool[u]][v] = u
          BY <5>1
        <5>3. worker'[pool[u]][v] = u
          BY <3>1, <5>1, <5>2, NamesAssumption
        <5>. QED
          BY <3>1, <5>1, <5>3
      <4>. QED
        BY <4>1, <4>2
    <3>. QED
      BY <3>4, <3>5 DEF WorkerContents
  <2>2. CASE FinishTask(p, w)
    <3>1. /\ worker[p][w] \in Tasks
          /\ worker' = [worker EXCEPT ![p][w] = Idle]
          /\ exec' = [exec EXCEPT ![worker[p][w]] = "done"]
          /\ pool' = pool /\ closed' = closed /\ queue' = queue
      BY <2>2 DEF FinishTask
    <3>2. ASSUME NEW q \in Pools, NEW v \in Workers
          PROVE  /\ worker'[q][v] \in Tasks => pool'[worker'[q][v]] = q
                 /\ worker'[q][v] = Exited => closed'[q] /\ queue'[q] = << >>
      BY <3>1, NamesAssumption DEF WorkerContents
    <3>3. ASSUME NEW u \in Tasks, exec'[u] = "running"
          PROVE  pool'[u] \in Pools /\ \E v \in Workers : worker'[pool'[u]][v] = u
      <4>1. u # worker[p][w] /\ exec[u] = "running"
        BY <3>1, <3>3
      <4>2. PICK v \in Workers : worker[pool[u]][v] = u
        BY <4>1 DEF WorkerContents
      <4>3. pool[u] \in Pools
        BY <4>1 DEF WorkerContents
      <4>. QED
        BY <3>1, <4>1, <4>2, <4>3
    <3>. QED
      BY <3>2, <3>3 DEF WorkerContents
  <2>3. CASE WorkerExit(p, w)
    <3>1. /\ worker[p][w] = Idle /\ closed[p] /\ queue[p] = << >>
          /\ worker' = [worker EXCEPT ![p][w] = Exited]
          /\ exec' = exec /\ pool' = pool /\ closed' = closed /\ queue' = queue
      BY <2>3 DEF WorkerExit, taskVars
    <3>2. ASSUME NEW q \in Pools, NEW v \in Workers
          PROVE  /\ worker'[q][v] \in Tasks => pool'[worker'[q][v]] = q
                 /\ worker'[q][v] = Exited => closed'[q] /\ queue'[q] = << >>
      BY <3>1, NamesAssumption DEF WorkerContents
    <3>3. ASSUME NEW u \in Tasks, exec'[u] = "running"
          PROVE  pool'[u] \in Pools /\ \E v \in Workers : worker'[pool'[u]][v] = u
      <4>1. exec[u] = "running"
        BY <3>1, <3>3
      <4>2. PICK v \in Workers : worker[pool[u]][v] = u
        BY <4>1 DEF WorkerContents
      <4>3. pool[u] \in Pools
        BY <4>1 DEF WorkerContents
      <4>. QED
        BY <3>1, <4>2, <4>3, NamesAssumption
    <3>. QED
      BY <3>2, <3>3 DEF WorkerContents
  <2>. QED
    BY <1>6, <2>1, <2>2, <2>3 DEF WorkerStep
<1>7. CASE PollerTick \/ PollerDone \/ PollerExit
  BY <1>0, <1>7 DEF PollerTick, PollerDone, PollerExit, busVars, poolVars, taskVars,
     stopVars, pollVars
<1>8. ASSUME NEW s \in Stoppers, StopCapture(s) PROVE WorkerContents'
  BY <1>0, <1>8 DEF StopCapture, busVars, poolVars, taskVars, stopVars, pollVars
<1>9. ASSUME NEW s \in Stoppers, StopStep(s) PROVE WorkerContents'
  BY <1>9 DEF StopStep, StopTo, StopAccepting, StopClosePoller, StopPollerStopped,
     StopCloseQueue, StopWorkersExited, StopReturn, ActivePublishers, Fallbacks,
     WorkerContents, busVars, poolVars, taskVars, stopVars, pollVars
<1>10. CASE UNCHANGED vars
  BY <1>0, <1>10 DEF vars, busVars, poolVars, taskVars, stopVars, pollVars
<1>. QED
  BY <1>1, <1>2, <1>3, <1>4, <1>5, <1>6, <1>7, <1>8, <1>9, <1>10 DEF Next

LEMMA WaitsDoneNext == IInv /\ TypeOK' /\ [Next]_vars => WaitsDone'
<1> SUFFICES ASSUME IInv, TypeOK', [Next]_vars PROVE WaitsDone'
  OBVIOUS
<1> USE DEF IInv, TypeOK
<1>0. UNCHANGED <<stopPc, stopPool, worker, exec, pool>> => WaitsDone'
  BY DEF WaitsDone
<1>1. ASSUME NEW p \in Pools, NEW pol \in Policies, StartWorkerPool(p, pol) PROVE WaitsDone'
  BY <1>0, <1>1 DEF StartWorkerPool, busVars, poolVars, taskVars, stopVars, pollVars
<1>2. ASSUME NEW t \in Tasks, Register(t) PROVE WaitsDone'
  BY <1>2 DEF Register, WaitsDone, DispatchBeforeExec, busVars, poolVars, taskVars, stopVars, pollVars
<1>3. ASSUME NEW t \in Tasks, PublishWithoutPool(t) PROVE WaitsDone'
  BY <1>3 DEF PublishWithoutPool, WaitsDone, busVars, poolVars, taskVars, stopVars,
     pollVars
<1>4. ASSUME NEW t \in Tasks, DispatchStep(t) PROVE WaitsDone'
  <2>1. \A s \in Stoppers : HasClosed(s) => pool[t] # stopPool[s]
    BY <1>4 DEF DispatchStep, Accept, DispatchStoppingPool, SendToQueue, DiscardOnFull, NotSent, HandleUnsentTask, PublishReturns, Discard, SpawnFallback, ClosedQuiet, StopPools
  <2>2. \A u \in Tasks : u # t => exec'[u] = exec[u]
    BY <1>4 DEF DispatchStep, Accept, DispatchStoppingPool, SendToQueue, DiscardOnFull, NotSent, HandleUnsentTask, PublishReturns, Discard, SpawnFallback, busVars, poolVars, taskVars, stopVars, pollVars
  <2>3. UNCHANGED <<pool, worker, stopPc, stopPool>>
    BY <1>4 DEF DispatchStep, Accept, DispatchStoppingPool, SendToQueue, DiscardOnFull, NotSent, HandleUnsentTask, PublishReturns, Discard, SpawnFallback, busVars, poolVars, taskVars, stopVars, pollVars
  <2>. QED
    BY <2>1, <2>2, <2>3 DEF WaitsDone, HasClosed
<1>5. ASSUME NEW t \in Tasks, FinishOwnGoroutine(t) PROVE WaitsDone'
  BY <1>5 DEF FinishOwnGoroutine, WaitsDone, busVars, poolVars, taskVars, stopVars,
     pollVars
<1>6. ASSUME NEW p \in Pools, NEW w \in Workers, WorkerStep(p, w) PROVE WaitsDone'
  <2>1. ASSUME NEW s \in Stoppers,
               stopPc[s] = "fallbacksWait" \/ (stopPc[s] = "returned" /\ stopPool[s] # NoPool),
               NEW v \in Workers
        PROVE  worker'[stopPool[s]][v] = Exited
    <3>1. stopPool[s] \in Pools
      BY <2>1 DEF StopPools
    <3>2. worker[stopPool[s]][v] = Exited
      BY <2>1 DEF WaitsDone
    <3>3. \/ worker' = [worker EXCEPT ![p][w] = Exited]
          \/ worker[p][w] # Exited /\ \E x : worker' = [worker EXCEPT ![p][w] = x]
      BY <1>6, NamesAssumption DEF WorkerStep, TakeTask, FinishTask, WorkerExit
    <3>4. CASE worker' = [worker EXCEPT ![p][w] = Exited]
      BY <3>1, <3>2, <3>4
    <3>5. ASSUME NEW x, worker[p][w] # Exited, worker' = [worker EXCEPT ![p][w] = x]
          PROVE  worker'[stopPool[s]][v] = Exited
      BY <3>1, <3>2, <3>5
    <3>. QED
      BY <3>3, <3>4, <3>5
  <2>2. \A u \in Tasks : exec'[u] = "fallback" => exec[u] = "fallback"
    BY <1>6 DEF WorkerStep, TakeTask, FinishTask, WorkerExit, taskVars
  <2>3. UNCHANGED <<pool, stopPc, stopPool>>
    BY <1>6 DEF WorkerStep, TakeTask, FinishTask, WorkerExit, busVars, poolVars, taskVars, stopVars, pollVars
  <2>. QED
    BY <2>1, <2>2, <2>3 DEF WaitsDone
<1>7. CASE PollerTick \/ PollerDone \/ PollerExit
  BY <1>0, <1>7 DEF PollerTick, PollerDone, PollerExit, busVars, poolVars, taskVars,
     stopVars, pollVars
<1>8. ASSUME NEW s \in Stoppers, StopCapture(s) PROVE WaitsDone'
  BY <1>8 DEF StopCapture, WaitsDone, busVars, poolVars, taskVars, stopVars, pollVars
<1>9. ASSUME NEW s \in Stoppers, StopStep(s) PROVE WaitsDone'
  BY <1>9 DEF StopStep, StopTo, StopAccepting, StopClosePoller, StopPollerStopped,
     StopCloseQueue, StopWorkersExited, StopReturn, ActivePublishers, Fallbacks,
     WaitsDone, busVars, poolVars, taskVars, stopVars, pollVars
<1>10. CASE UNCHANGED vars
  BY <1>0, <1>10 DEF vars, busVars, poolVars, taskVars, stopVars, pollVars
<1>. QED
  BY <1>1, <1>2, <1>3, <1>4, <1>5, <1>6, <1>7, <1>8, <1>9, <1>10 DEF Next

LEMMA OnlyDiscardDropsNext == IInv /\ TypeOK' /\ [Next]_vars => OnlyDiscardDrops'
<1> SUFFICES ASSUME IInv, TypeOK', [Next]_vars PROVE OnlyDiscardDrops'
  OBVIOUS
<1> USE DEF IInv, TypeOK
<1>0. UNCHANGED <<exec, pool, policy>> => OnlyDiscardDrops'
  BY DEF OnlyDiscardDrops
<1>1. ASSUME NEW p \in Pools, NEW pol \in Policies, StartWorkerPool(p, pol) PROVE OnlyDiscardDrops'
  BY <1>0, <1>1 DEF StartWorkerPool, busVars, poolVars, taskVars, stopVars, pollVars
<1>2. ASSUME NEW t \in Tasks, Register(t) PROVE OnlyDiscardDrops'
  BY <1>2 DEF Register, OnlyDiscardDrops, DispatchBeforeExec, busVars, poolVars, taskVars, stopVars, pollVars
<1>3. ASSUME NEW t \in Tasks, PublishWithoutPool(t) PROVE OnlyDiscardDrops'
  BY <1>3 DEF PublishWithoutPool, OnlyDiscardDrops, DispatchBeforeExec, busVars, poolVars, taskVars, stopVars, pollVars
<1>4. ASSUME NEW t \in Tasks, DispatchStep(t) PROVE OnlyDiscardDrops'
  BY <1>4 DEF DispatchStep, Accept, DispatchStoppingPool, SendToQueue, DiscardOnFull,
     NotSent, HandleUnsentTask, PublishReturns, Discard, SpawnFallback,
     OnlyDiscardDrops, busVars, poolVars, taskVars, stopVars, pollVars
<1>5. ASSUME NEW t \in Tasks, FinishOwnGoroutine(t) PROVE OnlyDiscardDrops'
  BY <1>5 DEF FinishOwnGoroutine, OnlyDiscardDrops, busVars, poolVars, taskVars,
     stopVars, pollVars
<1>6. ASSUME NEW p \in Pools, NEW w \in Workers, WorkerStep(p, w) PROVE OnlyDiscardDrops'
  BY <1>6 DEF WorkerStep, TakeTask, FinishTask, WorkerExit, OnlyDiscardDrops, busVars,
     poolVars, taskVars, stopVars, pollVars
<1>7. CASE PollerTick \/ PollerDone \/ PollerExit
  BY <1>0, <1>7 DEF PollerTick, PollerDone, PollerExit, busVars, poolVars, taskVars,
     stopVars, pollVars
<1>8. ASSUME NEW s \in Stoppers, StopCapture(s) PROVE OnlyDiscardDrops'
  BY <1>0, <1>8 DEF StopCapture, busVars, poolVars, taskVars, stopVars, pollVars
<1>9. ASSUME NEW s \in Stoppers, StopStep(s) PROVE OnlyDiscardDrops'
  BY <1>0, <1>9 DEF StopStep, StopTo, StopAccepting, StopClosePoller,
     StopPollerStopped, StopCloseQueue, StopWorkersExited, StopReturn,
     ActivePublishers, Fallbacks, busVars, poolVars, taskVars, stopVars, pollVars
<1>10. CASE UNCHANGED vars
  BY <1>0, <1>10 DEF vars, busVars, poolVars, taskVars, stopVars, pollVars
<1>. QED
  BY <1>1, <1>2, <1>3, <1>4, <1>5, <1>6, <1>7, <1>8, <1>9, <1>10 DEF Next

LEMMA IInvInit == Init => IInv
BY TypeInit, NamesAssumption DEF Init, IInv, CurrentOpen, StopPools, HasClosed, ClosedQuiet, DispatchBeforeExec,
   QueueContents, WorkerContents, WaitsDone, OnlyDiscardDrops

LEMMA IInvNext == IInv /\ [Next]_vars => IInv'
<1> SUFFICES ASSUME IInv, [Next]_vars PROVE IInv'
  OBVIOUS
<1>1. TypeOK'
  BY TypeNext DEF IInv
<1>. QED
  BY <1>1, CurrentOpenNext, StopPoolsNext, ClosedQuietNext, DispatchBeforeExecNext,
     QueueContentsNext, WorkerContentsNext, WaitsDoneNext, OnlyDiscardDropsNext DEF IInv

LEMMA IInvCorrect == Spec => []IInv
BY IInvInit, IInvNext, PTL DEF Spec

\* No goroutine still inside dispatchWithPool ever meets a closed queue.
THEOREM NoSendOnClosed == Spec => []NoSendOnClosedQueue
<1>1. IInv => NoSendOnClosedQueue
  BY DEF IInv, ClosedQuiet, NoSendOnClosedQueue
<1>. QED
  BY <1>1, IInvCorrect, PTL

\* When StopWorkerPool returns, the pool it captured has no listener left to
\* run: each one has run or has been counted as discarded.
THEOREM StopDrains == Spec => []DrainedWhenStopped
<1>1. IInv => DrainedWhenStopped
  <2> SUFFICES ASSUME IInv, NEW s \in Stoppers, NEW t \in Tasks,
                      stopPc[s] = "returned", stopPool[s] # NoPool, pool[t] = stopPool[s]
               PROVE  exec[t] \in {"done", "discarded"}
    BY DEF DrainedWhenStopped
  <2>1. closed[pool[t]] /\ pool[t] \in Pools
    BY DEF IInv, TypeOK, StopPools, HasClosed
  <2>2. dispatch[t] = "returned"
    BY <2>1 DEF IInv, TypeOK, ClosedQuiet, DispatchBeforeExec
  <2>3. exec[t] # "none" /\ exec[t] # "legacy" /\ exec[t] # "fallback"
    BY <2>2 DEF IInv, DispatchBeforeExec, WaitsDone
  <2>4. \A w \in Workers : worker[pool[t]][w] = Exited
    BY DEF IInv, WaitsDone
  <2>5. exec[t] # "running"
    BY <2>4, NamesAssumption DEF IInv, WorkerContents
  <2>6. queue[pool[t]] = << >>
    BY <2>1, <2>4, WorkersAssumption DEF IInv, WorkerContents
  <2>7. exec[t] # "queued"
    BY <2>1, <2>6 DEF IInv, QueueContents
  <2>. QED
    BY <2>3, <2>5, <2>7 DEF IInv, TypeOK
<1>. QED
  BY <1>1, IInvCorrect, PTL

\* A shutdown overtaking a publication drops it only under "discard".
THEOREM OnlyDiscardDropsAlways == Spec => []OnlyDiscardDrops
<1>1. IInv => OnlyDiscardDrops
  BY DEF IInv
<1>. QED
  BY <1>1, IInvCorrect, PTL

-----------------------------------------------------------------------------
(* Every drop is counted once: nothing is dropped that was dropped before, *)
(* and what was dropped never runs.                                        *)

Discarded == {t \in Tasks : exec[t] = "discarded"}

\* Until its fate is decided a task has none.
Undecided ==
  \A t \in Tasks : dispatch[t] \in {"idle", "registered", "accepted", "unsent"} => exec[t] = "none"

\* A queue holds queued tasks, each once; a worker holds a running task, and
\* no two workers the same.
QueueHolds ==
  \A p \in Pools : \A i \in 1..Len(queue[p]) :
    /\ exec[queue[p][i]] = "queued"
    /\ \A j \in 1..Len(queue[p]) : queue[p][i] = queue[p][j] => i = j
WorkerHolds ==
  \A p \in Pools, w \in Workers : worker[p][w] \in Tasks =>
    /\ exec[worker[p][w]] = "running"
    /\ \A v \in Workers : worker[p][v] = worker[p][w] => v = w

Holds == Undecided /\ QueueHolds /\ WorkerHolds

LEMMA HoldsSame ==
  ASSUME Holds, UNCHANGED <<dispatch, exec, queue, worker>> PROVE Holds'
BY DEF Holds, Undecided, QueueHolds, WorkerHolds

\* The fate of a task that nobody holds is decided, or its goroutine moves on.
LEMMA HoldsDecide ==
  ASSUME IInv, Holds, NEW t \in Tasks, NEW to \in ExecStates,
         exec[t] \notin {"queued", "running"},
         exec' = [exec EXCEPT ![t] = to], UNCHANGED <<queue, worker>>,
         \A u \in Tasks \ {t} : dispatch'[u] = dispatch[u],
         dispatch'[t] \in {"returning", "returned"} \/ (dispatch'[t] = dispatch[t] /\ exec[t] # "none")
  PROVE  Holds'
<1> USE DEF IInv, TypeOK, Holds
<1>1. \A u \in Tasks : exec'[u] = IF u = t THEN to ELSE exec[u]
  OBVIOUS
<1>2. Undecided'
  BY <1>1 DEF Undecided
<1>3. QueueHolds'
  <2>1. \A p \in Pools : \A i \in 1..Len(queue[p]) : queue[p][i] \in Tasks \ {t}
    BY DEF QueueHolds
  <2>. QED
    BY <1>1, <2>1 DEF QueueHolds
<1>4. WorkerHolds'
  BY <1>1 DEF WorkerHolds
<1>. QED
  BY <1>2, <1>3, <1>4

LEMMA HoldsSend == ASSUME IInv, Holds, NEW t \in Tasks, SendToQueue(t) PROVE Holds'
<1> USE DEF IInv, TypeOK, Holds
<1> DEFINE p == pool[t]
<1>1. /\ p \in Pools /\ exec[t] = "none"
      /\ exec' = [exec EXCEPT ![t] = "queued"] /\ queue' = [queue EXCEPT ![p] = Append(@, t)]
      /\ worker' = worker /\ dispatch' = [dispatch EXCEPT ![t] = "returning"]
  BY DEF SendToQueue, Undecided
<1>2. \A q \in Pools : \A i \in 1..Len(queue[q]) : queue[q][i] \in Tasks \ {t}
  BY <1>1 DEF QueueHolds
<1>3. /\ queue'[p] = Append(queue[p], t) /\ \A q \in Pools \ {p} : queue'[q] = queue[q]
  BY <1>1
<1>4. /\ queue[p] \in Seq(Tasks) /\ Len(queue'[p]) = Len(queue[p]) + 1
      /\ \A i \in 1..Len(queue[p]) : queue'[p][i] = queue[p][i]
      /\ queue'[p][Len(queue[p]) + 1] = t
  BY <1>1, <1>3
<1> HIDE DEF p
<1>5. QueueHolds'
  <2> SUFFICES ASSUME NEW q \in Pools, NEW i \in 1..Len(queue'[q])
               PROVE  /\ exec'[queue'[q][i]] = "queued"
                      /\ \A j \in 1..Len(queue'[q]) : queue'[q][i] = queue'[q][j] => i = j
    BY DEF QueueHolds
  <2>1. CASE q = p
    BY <1>1, <1>2, <1>4, <2>1 DEF QueueHolds
  <2>2. CASE q # p
    BY <1>1, <1>2, <1>3, <2>2 DEF QueueHolds
  <2>. QED
    BY <2>1, <2>2
<1>6. WorkerHolds'
  BY <1>1 DEF WorkerHolds
<1>7. Undecided'
  BY <1>1 DEF Undecided
<1>. QED
  BY <1>5, <1>6, <1>7

LEMMA HoldsTake ==
  ASSUME IInv, Holds, NEW p \in Pools, NEW w \in Workers, TakeTask(p, w) PROVE Holds'
<1> USE DEF IInv, TypeOK, Holds
<1> DEFINE t == Head(queue[p])
<1>1. /\ queue[p] \in Seq(Tasks) /\ queue[p] # << >> /\ t = queue[p][1] /\ t \in Tasks
      /\ exec' = [exec EXCEPT ![t] = "running"] /\ queue' = [queue EXCEPT ![p] = Tail(@)]
      /\ worker' = [worker EXCEPT ![p][w] = t] /\ dispatch' = dispatch
  BY DEF TakeTask
<1>2. exec[t] = "queued" /\ pool[t] = p
  BY <1>1 DEF QueueHolds, QueueContents
<1>3. /\ Len(queue'[p]) = Len(queue[p]) - 1
      /\ \A i \in 1..Len(queue'[p]) : queue'[p][i] = queue[p][i + 1]
      /\ \A q \in Pools \ {p} : queue'[q] = queue[q]
  BY <1>1
<1>4. \A q \in Pools \ {p} : \A i \in 1..Len(queue[q]) : queue[q][i] \in Tasks \ {t}
  BY <1>2 DEF QueueContents
<1>5. \A i \in 1..Len(queue'[p]) : i + 1 \in 1..Len(queue[p]) /\ queue[p][i + 1] \in Tasks \ {t}
  BY <1>1, <1>3 DEF QueueHolds
<1>6. \A q \in Pools, v \in Workers : worker'[q][v] = IF q = p /\ v = w THEN t ELSE worker[q][v]
  BY <1>1
<1>7. \A q \in Pools, v \in Workers : worker[q][v] # t
  BY <1>1, <1>2 DEF WorkerHolds
<1> HIDE DEF t
<1>8. QueueHolds'
  <2> SUFFICES ASSUME NEW q \in Pools, NEW i \in 1..Len(queue'[q])
               PROVE  /\ exec'[queue'[q][i]] = "queued"
                      /\ \A j \in 1..Len(queue'[q]) : queue'[q][i] = queue'[q][j] => i = j
    BY DEF QueueHolds
  <2>1. CASE q = p
    <3>1. \A k \in 1..Len(queue'[p]) : exec'[queue'[p][k]] = "queued"
      <4> SUFFICES ASSUME NEW k \in 1..Len(queue'[p]) PROVE exec'[queue'[p][k]] = "queued"
        OBVIOUS
      <4>1. queue'[p][k] = queue[p][k + 1] /\ queue[p][k + 1] # t /\ queue[p][k + 1] \in Tasks
        BY <1>3, <1>5
      <4>2. exec[queue[p][k + 1]] = "queued"
        BY <1>5 DEF QueueHolds
      <4>. QED
        BY <1>1, <4>1, <4>2
    <3>2. \A k, j \in 1..Len(queue'[p]) : queue'[p][k] = queue'[p][j] => k = j
      <4> SUFFICES ASSUME NEW k \in 1..Len(queue'[p]), NEW j \in 1..Len(queue'[p]),
                          queue'[p][k] = queue'[p][j]
                   PROVE  k = j
        OBVIOUS
      <4>1. queue[p][k + 1] = queue[p][j + 1]
        BY <1>3
      <4>2. k + 1 = j + 1
        BY <1>5, <4>1 DEF QueueHolds
      <4>. QED
        BY <4>2
    <3>. QED
      BY <2>1, <3>1, <3>2
  <2>2. CASE q # p
    BY <1>1, <1>3, <1>4, <2>2 DEF QueueHolds
  <2>. QED
    BY <2>1, <2>2
<1>9. WorkerHolds'
  BY <1>1, <1>6, <1>7 DEF WorkerHolds
<1>10. Undecided'
  BY <1>1, <1>2 DEF Undecided
<1>. QED
  BY <1>8, <1>9, <1>10

LEMMA HoldsFinish ==
  ASSUME IInv, Holds, NEW p \in Pools, NEW w \in Workers, FinishTask(p, w) PROVE Holds'
<1> USE NamesAssumption DEF IInv, TypeOK, Holds
<1> DEFINE t == worker[p][w]
<1>1. /\ t \in Tasks /\ exec' = [exec EXCEPT ![t] = "done"] /\ queue' = queue
      /\ worker' = [worker EXCEPT ![p][w] = Idle] /\ dispatch' = dispatch
  BY DEF FinishTask
<1>2. exec[t] = "running" /\ pool[t] = p
  BY <1>1 DEF WorkerHolds, WorkerContents
<1>3. \A q \in Pools, v \in Workers : worker'[q][v] = IF q = p /\ v = w THEN Idle ELSE worker[q][v]
  BY <1>1
<1>4. \A q \in Pools, v \in Workers : worker[q][v] = t => q = p /\ v = w
  BY <1>1, <1>2 DEF WorkerHolds, WorkerContents
<1> HIDE DEF t
<1>5. QueueHolds'
  <2>1. \A q \in Pools : \A i \in 1..Len(queue[q]) : queue[q][i] \in Tasks \ {t}
    BY <1>2 DEF QueueHolds
  <2>. QED
    BY <1>1, <2>1 DEF QueueHolds
<1>6. WorkerHolds'
  BY <1>1, <1>3, <1>4 DEF WorkerHolds
<1>7. Undecided'
  BY <1>1, <1>2 DEF Undecided
<1>. QED
  BY <1>5, <1>6, <1>7

LEMMA HoldsNext == IInv /\ Holds /\ [Next]_vars => Holds'
<1> SUFFICES ASSUME IInv, Holds, [Next]_vars PROVE Holds'
  OBVIOUS
<1> USE DEF IInv, TypeOK, busVars, poolVars, taskVars, stopVars, pollVars
<1>1. ASSUME NEW p \in Pools, NEW pol \in Policies, StartWorkerPool(p, pol) PROVE Holds'
  BY <1>1, HoldsSame DEF StartWorkerPool
<1>2. ASSUME NEW t \in Tasks, Register(t) \/ Accept(t) \/ NotSent(t) \/ PublishReturns(t)
      PROVE  Holds'
  BY <1>2 DEF Register, Accept, NotSent, PublishReturns, Holds, Undecided, QueueHolds, WorkerHolds
<1>3. ASSUME NEW t \in Tasks,
             PublishWithoutPool(t) \/ DispatchStoppingPool(t) \/ DiscardOnFull(t) \/ HandleUnsentTask(t)
      PROVE  Holds'
  <2>1. exec[t] = "none"
    BY <1>3 DEF PublishWithoutPool, DispatchStoppingPool, DiscardOnFull, HandleUnsentTask, Holds, Undecided
  <2>2. PICK to \in ExecStates : exec' = [exec EXCEPT ![t] = to]
    BY <1>3 DEF PublishWithoutPool, DispatchStoppingPool, DiscardOnFull, HandleUnsentTask, Discard,
                SpawnFallback
  <2>3. UNCHANGED <<queue, worker>>
    BY <1>3 DEF PublishWithoutPool, DispatchStoppingPool, DiscardOnFull, HandleUnsentTask
  <2>4. /\ dispatch'[t] \in {"returning", "returned"}
        /\ \A u \in Tasks \ {t} : dispatch'[u] = dispatch[u]
    BY <1>3 DEF PublishWithoutPool, DispatchStoppingPool, DiscardOnFull, HandleUnsentTask, Discard,
                SpawnFallback
  <2> HIDE DEF IInv, TypeOK
  <2>. QED
    BY <2>1, <2>2, <2>3, <2>4, HoldsDecide
<1>4. ASSUME NEW t \in Tasks, SendToQueue(t) PROVE Holds'
  BY <1>4, HoldsSend
<1>5. ASSUME NEW t \in Tasks, FinishOwnGoroutine(t) PROVE Holds'
  BY <1>5, HoldsDecide DEF FinishOwnGoroutine
<1>6. ASSUME NEW p \in Pools, NEW w \in Workers, TakeTask(p, w) \/ FinishTask(p, w) PROVE Holds'
  BY <1>6, HoldsTake, HoldsFinish
<1>7. ASSUME NEW p \in Pools, NEW w \in Workers, WorkerExit(p, w) PROVE Holds'
  BY <1>7, NamesAssumption DEF WorkerExit, Holds, Undecided, QueueHolds, WorkerHolds
<1>8. CASE PollerTick \/ PollerDone \/ PollerExit
  BY <1>8, HoldsSame DEF PollerTick, PollerDone, PollerExit
<1>9. ASSUME NEW s \in Stoppers, StopCapture(s) \/ StopStep(s) PROVE Holds'
  BY <1>9, HoldsSame DEF StopCapture, StopStep, StopTo, StopAccepting, StopClosePoller,
     StopPollerStopped, StopCloseQueue, StopWorkersExited, StopReturn
<1>10. CASE UNCHANGED vars
  BY <1>10, HoldsSame DEF vars
<1>. QED
  BY <1>1, <1>2, <1>3, <1>4, <1>5, <1>6, <1>7, <1>8, <1>9, <1>10
     DEF Next, DispatchStep, WorkerStep

Counted == IsFiniteSet(Discarded) /\ discardedEvents = Cardinality(Discarded)

LEMMA CountedNext == IInv /\ Holds /\ Counted /\ [Next]_vars => Counted'
<1> SUFFICES ASSUME IInv, Holds, Counted, [Next]_vars PROVE Counted'
  OBVIOUS
<1> USE DEF IInv, TypeOK, busVars, poolVars, taskVars, stopVars, pollVars
<1>1. ASSUME Discarded' = Discarded, discardedEvents' = discardedEvents PROVE Counted'
  BY <1>1 DEF Counted
<1>2. ASSUME NEW t \in Tasks, exec[t] = "none", discardedEvents' = discardedEvents + 1,
             exec' = [exec EXCEPT ![t] = "discarded"]
      PROVE  Counted'
  <2>1. t \notin Discarded /\ Discarded' = Discarded \cup {t}
    BY <1>2 DEF Discarded
  <2>. QED
    BY <1>2, <2>1, FS_AddElement DEF Counted
<1>3. ASSUME NEW t \in Tasks, exec[t] # "discarded", discardedEvents' = discardedEvents,
             NEW to \in ExecStates \ {"discarded"}, exec' = [exec EXCEPT ![t] = to]
      PROVE  Counted'
  <2>1. Discarded' = Discarded
    BY <1>3 DEF Discarded
  <2>. QED
    BY <1>1, <1>3, <2>1
<1>4. ASSUME UNCHANGED <<exec, discardedEvents>> PROVE Counted'
  BY <1>1, <1>4 DEF Discarded
<1>5. ASSUME NEW t \in Tasks,
             PublishWithoutPool(t) \/ DispatchStoppingPool(t) \/ DiscardOnFull(t) \/ HandleUnsentTask(t)
      PROVE  Counted'
  <2>1. exec[t] = "none"
    BY <1>5 DEF PublishWithoutPool, DispatchStoppingPool, DiscardOnFull, HandleUnsentTask, Holds, Undecided
  <2>2. \/ exec' = [exec EXCEPT ![t] = "discarded"] /\ discardedEvents' = discardedEvents + 1
        \/ /\ discardedEvents' = discardedEvents
           /\ \E to \in {"legacy", "fallback"} : exec' = [exec EXCEPT ![t] = to]
    BY <1>5 DEF PublishWithoutPool, DispatchStoppingPool, DiscardOnFull, HandleUnsentTask, Discard,
                SpawnFallback
  <2>. QED
    BY <1>2, <1>3, <2>1, <2>2
<1>6. ASSUME NEW t \in Tasks, SendToQueue(t) PROVE Counted'
  <2>1. exec[t] = "none" /\ exec' = [exec EXCEPT ![t] = "queued"] /\ discardedEvents' = discardedEvents
    BY <1>6 DEF SendToQueue, Holds, Undecided
  <2>. QED
    BY <1>3, <2>1
<1>7. ASSUME NEW t \in Tasks, FinishOwnGoroutine(t) PROVE Counted'
  <2>1. /\ exec[t] # "discarded" /\ exec' = [exec EXCEPT ![t] = "done"]
        /\ discardedEvents' = discardedEvents
    BY <1>7 DEF FinishOwnGoroutine
  <2>. QED
    BY <1>3, <2>1
<1>8. ASSUME NEW p \in Pools, NEW w \in Workers, TakeTask(p, w) PROVE Counted'
  <2>1. /\ queue[p] \in Seq(Tasks) /\ queue[p] # << >>
        /\ exec' = [exec EXCEPT ![Head(queue[p])] = "running"] /\ discardedEvents' = discardedEvents
    BY <1>8 DEF TakeTask
  <2>2. Head(queue[p]) \in Tasks /\ exec[Head(queue[p])] = "queued"
    BY <2>1 DEF Holds, QueueHolds
  <2>. QED
    BY <1>3, <2>1, <2>2
<1>9. ASSUME NEW p \in Pools, NEW w \in Workers, FinishTask(p, w) PROVE Counted'
  <2>1. /\ worker[p][w] \in Tasks /\ exec[worker[p][w]] = "running"
        /\ exec' = [exec EXCEPT ![worker[p][w]] = "done"] /\ discardedEvents' = discardedEvents
    BY <1>9 DEF FinishTask, Holds, WorkerHolds
  <2>. QED
    BY <1>3, <2>1
<1>10. ASSUME NEW t \in Tasks, Register(t) \/ Accept(t) \/ NotSent(t) \/ PublishReturns(t)
       PROVE  Counted'
  BY <1>4, <1>10 DEF Register, Accept, NotSent, PublishReturns
<1>11. ASSUME NEW p \in Pools, (\E pol \in Policies : StartWorkerPool(p, pol))
                               \/ \E w \in Workers : WorkerExit(p, w)
       PROVE  Counted'
  BY <1>4, <1>11 DEF StartWorkerPool, WorkerExit
<1>12. CASE PollerTick \/ PollerDone \/ PollerExit \/ UNCHANGED vars
  BY <1>4, <1>12 DEF PollerTick, PollerDone, PollerExit, vars
<1>13. ASSUME NEW s \in Stoppers, StopCapture(s) \/ StopStep(s) PROVE Counted'
  BY <1>4, <1>13 DEF StopCapture, StopStep, StopTo, StopAccepting, StopClosePoller,
     StopPollerStopped, StopCloseQueue, StopWorkersExited, StopReturn
<1>. QED
  BY <1>5, <1>6, <1>7, <1>8, <1>9, <1>10, <1>11, <1>12, <1>13 DEF Next, DispatchStep, WorkerStep

\* discardedEvents counts every dropped listener call once, whichever path of
\* dispatchToHandler drops it and whatever the shutdown is doing meanwhile.
THEOREM DropsAreCounted == Spec => []DiscardsCounted
<1>1. Init => Holds /\ Counted
  <2> SUFFICES ASSUME Init PROVE Holds /\ Counted
    OBVIOUS
  <2>1. Holds
    BY NamesAssumption DEF Init, Holds, Undecided, QueueHolds, WorkerHolds
  <2>2. Discarded = {} /\ discardedEvents = 0
    BY DEF Init, Discarded
  <2>. QED
    BY <2>1, <2>2, FS_EmptySet DEF Counted
<1>2. Counted => DiscardsCounted
  BY DEF Counted, DiscardsCounted, Discarded
<1>. QED
  BY <1>1, <1>2, IInvCorrect, HoldsNext, CountedNext, PTL DEF Spec
=============================================================================
