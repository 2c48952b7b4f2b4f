----------------------------- MODULE WorkerPool -----------------------------
(***************************************************************************)
(* The asynchronous worker pool of the event bus                           *)
(* (framework/event/event_bus.go): StartWorkerPool, StopWorkerPool, the    *)
(* workers, the fallback goroutines, the outbox poller goroutine seen as a *)
(* publisher, and dispatchToHandler with its rejection policies.           *)
(*                                                                         *)
(* A task is one call of dispatchToHandler: one event for one listener.    *)
(* Its goroutine walks through dispatch[t]; what becomes of the listener   *)
(* is exec[t].  A listener may itself publish: Publisher[t] says which     *)
(* goroutine makes the call (a request, the poller, or the listener of     *)
(* another task, which is blocked for as long as the call lasts).          *)
(*                                                                         *)
(* poolMu and pool.mu only guard short critical sections, so each section  *)
(* is one step; the three WaitGroups are the sets they count.              *)
(***************************************************************************)
EXTENDS Naturals, Sequences, FiniteSets

CONSTANTS
  Tasks,      \* calls of dispatchToHandler
  Workers,    \* the worker goroutines of one pool (PoolSize)
  Pools,      \* pools that may be started, one after the other
  Stoppers,   \* callers of StopWorkerPool
  Capacity,   \* QueueCapacity
  Policies,   \* rejection policies a configuration may name
  Publisher,  \* which goroutine publishes a task
  External,   \* a goroutine outside the event bus
  Poller,     \* the outbox poller goroutine
  NoPool, Idle, Exited

ASSUME CapacityAssumption == Capacity \in Nat \ {0}
ASSUME WorkersAssumption == Workers # {}
ASSUME NamesAssumption ==
  /\ NoPool \notin Pools
  /\ {Idle, Exited} \cap Tasks = {}
  /\ Idle # Exited
ASSUME PublisherAssumption ==
  Publisher \in [Tasks -> Tasks \cup {External, Poller}]

VARIABLES
  currentPool,  \* the pool publications go to, or NoPool
  poolStopped,
  rejPolicy,
  started,      \* pools StartWorkerPool has created
  accepting, queue, closed, worker,       \* the fields of each pool
  dispatch, exec, pool, policy,           \* per task
  stopPc, stopPool,                       \* per caller of StopWorkerPool
  outbox,       \* props.Outbox.Enabled
  poller, pollerStop,                     \* poller goroutine, its stop channel
  discardedEvents

busVars  == <<currentPool, poolStopped, rejPolicy, started>>
poolVars == <<accepting, queue, closed, worker>>
taskVars == <<dispatch, exec, pool, policy>>
stopVars == <<stopPc, stopPool>>
pollVars == <<poller, pollerStop>>
vars == <<busVars, poolVars, taskVars, stopVars, outbox, pollVars, discardedEvents>>

NoPolicy == "none"   \* rejPolicy before the first StartWorkerPool

Publishing == {"registered", "accepted", "unsent", "returning"}
DispatchStates == Publishing \cup {"idle", "returned"}
ExecStates ==
  {"none", "queued", "running", "fallback", "legacy", "done", "discarded"}
StopStates == {"idle", "captured", "closing", "pollerWait", "publishersWait",
               "workersWait", "fallbacksWait", "returned"}
Stopping == StopStates \ {"idle", "returned"}

TypeOK ==
  /\ currentPool \in Pools \cup {NoPool}
  /\ poolStopped \in BOOLEAN
  /\ rejPolicy \in Policies \cup {NoPolicy}
  /\ started \subseteq Pools
  /\ accepting \in [Pools -> BOOLEAN]
  /\ queue \in [Pools -> Seq(Tasks)]
  /\ closed \in [Pools -> BOOLEAN]
  /\ worker \in [Pools -> [Workers -> Tasks \cup {Idle, Exited}]]
  /\ dispatch \in [Tasks -> DispatchStates]
  /\ exec \in [Tasks -> ExecStates]
  /\ pool \in [Tasks -> Pools \cup {NoPool}]
  /\ \A t \in Tasks : dispatch[t] \in Publishing => pool[t] \in Pools
  /\ policy \in [Tasks -> Policies \cup {NoPolicy}]
  /\ stopPc \in [Stoppers -> StopStates]
  /\ stopPool \in [Stoppers -> Pools \cup {NoPool}]
  /\ outbox \in BOOLEAN
  /\ poller \in {"off", "waiting", "polling"}
  /\ pollerStop \in BOOLEAN
  /\ discardedEvents \in Nat

Init ==
  /\ currentPool = NoPool /\ poolStopped = FALSE /\ rejPolicy = NoPolicy
  /\ started = {}
  /\ accepting = [p \in Pools |-> FALSE]
  /\ queue = [p \in Pools |-> << >>]
  /\ closed = [p \in Pools |-> FALSE]
  /\ worker = [p \in Pools |-> [w \in Workers |-> Idle]]
  /\ dispatch = [t \in Tasks |-> "idle"]
  /\ exec = [t \in Tasks |-> "none"]
  /\ pool = [t \in Tasks |-> NoPool]
  /\ policy = [t \in Tasks |-> NoPolicy]
  /\ stopPc = [s \in Stoppers |-> "idle"]
  /\ stopPool = [s \in Stoppers |-> NoPool]
  /\ outbox \in BOOLEAN
  /\ poller = "off" /\ pollerStop = FALSE
  /\ discardedEvents = 0

-----------------------------------------------------------------------------
(* Which goroutines can publish. *)

\* Tasks counted by the publishers WaitGroup of pool p.
ActivePublishers(p) == {t \in Tasks : pool[t] = p /\ dispatch[t] \in Publishing}

\* Tasks counted by the fallbacks WaitGroup of pool p.
Fallbacks(p) == {t \in Tasks : pool[t] = p /\ exec[t] = "fallback"}

Executing(t) == exec[t] \in {"running", "fallback", "legacy"}

\* Goroutine g is inside a call of dispatchToHandler.
InPublish(g) == \E t \in Tasks : Publisher[t] = g /\ dispatch[t] \in Publishing

CanPublish(g) ==
  \/ g = External
  \/ g = Poller /\ poller = "polling" /\ ~InPublish(g)
  \/ g \in Tasks /\ Executing(g) /\ ~InPublish(g)

-----------------------------------------------------------------------------
(* StartWorkerPool.  Its callers (the bootstrap of the application and the *)
(* tests) start a pool only when no StopWorkerPool is still running.       *)

StartWorkerPool(p, pol) ==
  /\ \A s \in Stoppers : stopPc[s] \notin Stopping
  /\ currentPool = NoPool
  /\ p \notin started
  /\ currentPool' = p
  /\ poolStopped' = FALSE
  /\ rejPolicy' = pol
  /\ started' = started \cup {p}
  /\ accepting' = [accepting EXCEPT ![p] = TRUE]
  /\ IF outbox THEN poller' = "waiting" /\ pollerStop' = FALSE
               ELSE UNCHANGED pollVars
  /\ UNCHANGED <<queue, closed, worker, taskVars, stopVars, outbox, discardedEvents>>

-----------------------------------------------------------------------------
(* dispatchToHandler: look at the pool under poolMu and register with it.  *)

\* Register with the pool without testing it for nil.
RegisterUnchecked(t) ==
  /\ dispatch[t] = "idle"
  /\ CanPublish(Publisher[t])
  /\ pool' = [pool EXCEPT ![t] = currentPool]
  /\ policy' = [policy EXCEPT ![t] = rejPolicy]
  /\ dispatch' = [dispatch EXCEPT ![t] = "registered"]
  /\ UNCHANGED <<busVars, poolVars, exec, stopVars, outbox, pollVars, discardedEvents>>

Register(t) ==
  /\ dispatch[t] = "idle"
  /\ CanPublish(Publisher[t])
  /\ currentPool # NoPool
  /\ pool' = [pool EXCEPT ![t] = currentPool]
  /\ policy' = [policy EXCEPT ![t] = rejPolicy]
  /\ dispatch' = [dispatch EXCEPT ![t] = "registered"]
  /\ UNCHANGED <<busVars, poolVars, exec, stopVars, outbox, pollVars, discardedEvents>>

\* No pool: rejected once the pool was stopped, a free goroutine before.
PublishWithoutPool(t) ==
  /\ dispatch[t] = "idle"
  /\ CanPublish(Publisher[t])
  /\ currentPool = NoPool
  /\ dispatch' = [dispatch EXCEPT ![t] = "returned"]
  /\ IF poolStopped
       THEN /\ exec' = [exec EXCEPT ![t] = "discarded"]
            /\ discardedEvents' = discardedEvents + 1
       ELSE /\ exec' = [exec EXCEPT ![t] = "legacy"]
            /\ UNCHANGED discardedEvents
  /\ UNCHANGED <<busVars, poolVars, pool, policy, stopVars, outbox, pollVars>>

\* dispatchWithPool, pool still accepting.
Accept(t) ==
  /\ dispatch[t] = "registered"
  /\ accepting[pool[t]]
  /\ dispatch' = [dispatch EXCEPT ![t] = "accepted"]
  /\ UNCHANGED <<busVars, poolVars, exec, pool, policy, stopVars, outbox, pollVars, discardedEvents>>

\* Task t is dropped and counted; its dispatch call is about to return.
Discard(t) ==
  /\ exec' = [exec EXCEPT ![t] = "discarded"]
  /\ dispatch' = [dispatch EXCEPT ![t] = "returning"]
  /\ discardedEvents' = discardedEvents + 1

\* Task t gets a goroutine of its own, counted by pool.fallbacks.
SpawnFallback(t) ==
  /\ exec' = [exec EXCEPT ![t] = "fallback"]
  /\ dispatch' = [dispatch EXCEPT ![t] = "returning"]
  /\ UNCHANGED discardedEvents

\* dispatchStoppingPool dropping the task under every policy.
DispatchStoppingPoolDrops(t) ==
  /\ dispatch[t] = "registered"
  /\ ~accepting[pool[t]]
  /\ Discard(t)
  /\ UNCHANGED <<busVars, poolVars, pool, policy, stopVars, outbox, pollVars>>

\* dispatchStoppingPool
DispatchStoppingPool(t) ==
  /\ dispatch[t] = "registered"
  /\ ~accepting[pool[t]]
  /\ IF policy[t] = "discard" THEN Discard(t) ELSE SpawnFallback(t)
  /\ UNCHANGED <<busVars, poolVars, pool, policy, stopVars, outbox, pollVars>>

Full(p) == Len(queue[p]) >= Capacity

\* dispatchAcceptingPool: the send succeeds.  Under "block" the goroutine
\* waits for room, under "fallback" and "discard" it tries once.
SendToQueue(t) ==
  /\ dispatch[t] = "accepted"
  /\ policy[t] \in {"block", "fallback", "discard"}
  /\ ~Full(pool[t])
  /\ queue' = [queue EXCEPT ![pool[t]] = Append(@, t)]
  /\ exec' = [exec EXCEPT ![t] = "queued"]
  /\ dispatch' = [dispatch EXCEPT ![t] = "returning"]
  /\ UNCHANGED <<busVars, accepting, closed, worker, pool, policy, stopVars, outbox,
                 pollVars, discardedEvents>>

\* Full queue under "discard", without "sent = true": the task is counted as
\* discarded and then handed to handleUnsentTask as well.
DiscardOnFullFallsThrough(t) ==
  /\ dispatch[t] = "accepted"
  /\ policy[t] = "discard"
  /\ Full(pool[t])
  /\ exec' = [exec EXCEPT ![t] = "discarded"]
  /\ dispatch' = [dispatch EXCEPT ![t] = "returning"]
  /\ discardedEvents' = discardedEvents + 2
  /\ UNCHANGED <<busVars, poolVars, pool, policy, stopVars, outbox, pollVars>>

DiscardOnFull(t) ==
  /\ dispatch[t] = "accepted"
  /\ policy[t] = "discard"
  /\ Full(pool[t])
  /\ Discard(t)
  /\ UNCHANGED <<busVars, poolVars, pool, policy, stopVars, outbox, pollVars>>

\* Full queue under "fallback", or a policy the switch does not know.
NotSent(t) ==
  /\ dispatch[t] = "accepted"
  /\ \/ policy[t] = "fallback" /\ Full(pool[t])
     \/ policy[t] \notin {"block", "fallback", "discard"}
  /\ dispatch' = [dispatch EXCEPT ![t] = "unsent"]
  /\ UNCHANGED <<busVars, poolVars, exec, pool, policy, stopVars, outbox, pollVars, discardedEvents>>

\* handleUnsentTask
HandleUnsentTask(t) ==
  /\ dispatch[t] = "unsent"
  /\ SpawnFallback(t)
  /\ UNCHANGED <<busVars, poolVars, pool, policy, stopVars, outbox, pollVars>>

\* The deferred publishers.Done() of dispatchWithPool.
PublishReturns(t) ==
  /\ dispatch[t] = "returning"
  /\ dispatch' = [dispatch EXCEPT ![t] = "returned"]
  /\ UNCHANGED <<busVars, poolVars, exec, pool, policy, stopVars, outbox, pollVars, discardedEvents>>

-----------------------------------------------------------------------------
(* Workers, fallback goroutines and legacy goroutines run the listeners.   *)

TakeTask(p, w) ==
  /\ p \in started
  /\ worker[p][w] = Idle
  /\ queue[p] # << >>
  /\ LET t == Head(queue[p]) IN
       /\ worker' = [worker EXCEPT ![p][w] = t]
       /\ exec' = [exec EXCEPT ![t] = "running"]
  /\ queue' = [queue EXCEPT ![p] = Tail(@)]
  /\ UNCHANGED <<busVars, accepting, closed, dispatch, pool, policy, stopVars, outbox,
                 pollVars, discardedEvents>>

FinishTask(p, w) ==
  /\ worker[p][w] \in Tasks
  /\ ~InPublish(worker[p][w])
  /\ exec' = [exec EXCEPT ![worker[p][w]] = "done"]
  /\ worker' = [worker EXCEPT ![p][w] = Idle]
  /\ UNCHANGED <<busVars, accepting, queue, closed, dispatch, pool, policy, stopVars,
                 outbox, pollVars, discardedEvents>>

\* A worker that leaves as soon as the queue is closed, without draining it.
WorkerExitUndrained(p, w) ==
  /\ p \in started
  /\ worker[p][w] = Idle
  /\ closed[p]
  /\ worker' = [worker EXCEPT ![p][w] = Exited]
  /\ UNCHANGED <<busVars, accepting, queue, closed, taskVars, stopVars, outbox,
                 pollVars, discardedEvents>>

\* "range queue" ends: the queue is closed and drained.
WorkerExit(p, w) ==
  /\ p \in started
  /\ worker[p][w] = Idle
  /\ queue[p] = << >>
  /\ closed[p]
  /\ worker' = [worker EXCEPT ![p][w] = Exited]
  /\ UNCHANGED <<busVars, accepting, queue, closed, taskVars, stopVars, outbox,
                 pollVars, discardedEvents>>

FinishOwnGoroutine(t) ==
  /\ exec[t] \in {"fallback", "legacy"}
  /\ ~InPublish(t)
  /\ exec' = [exec EXCEPT ![t] = "done"]
  /\ UNCHANGED <<busVars, poolVars, dispatch, pool, policy, stopVars, outbox,
                 pollVars, discardedEvents>>

-----------------------------------------------------------------------------
(* The outbox poller goroutine: a select over the ticker and the stop      *)
(* channel; a poll publishes tasks from this goroutine.                    *)

PollerTick ==
  /\ poller = "waiting"
  /\ poller' = "polling"
  /\ UNCHANGED <<busVars, poolVars, taskVars, stopVars, outbox, pollerStop, discardedEvents>>

PollerDone ==
  /\ poller = "polling"
  /\ ~InPublish(Poller)
  /\ poller' = "waiting"
  /\ UNCHANGED <<busVars, poolVars, taskVars, stopVars, outbox, pollerStop, discardedEvents>>

PollerExit ==
  /\ poller = "waiting"
  /\ pollerStop
  /\ poller' = "off"
  /\ UNCHANGED <<busVars, poolVars, taskVars, stopVars, outbox, pollerStop, discardedEvents>>

-----------------------------------------------------------------------------
(* StopWorkerPool, statement by statement.                                 *)

StopTo(s, from, to) ==
  /\ stopPc[s] = from
  /\ stopPc' = [stopPc EXCEPT ![s] = to]

\* Under poolMu: publications from here on are rejected; capture the pool.
StopCapture(s) ==
  /\ stopPc[s] = "idle"
  /\ poolStopped' = TRUE
  /\ currentPool' = NoPool
  /\ stopPool' = [stopPool EXCEPT ![s] = currentPool]
  /\ stopPc' = [stopPc EXCEPT ![s] = IF currentPool = NoPool THEN "returned" ELSE "captured"]
  /\ UNCHANGED <<rejPolicy, started, poolVars, taskVars, outbox, pollVars, discardedEvents>>

StopAccepting(s) ==
  /\ StopTo(s, "captured", "closing")
  /\ accepting' = [accepting EXCEPT ![stopPool[s]] = FALSE]
  /\ UNCHANGED <<busVars, queue, closed, worker, taskVars, stopPool, outbox, pollVars, discardedEvents>>

\* Waiting for the poller without closing its stop channel.
StopLeavesPoller(s) ==
  /\ StopTo(s, "closing", "pollerWait")
  /\ UNCHANGED <<busVars, poolVars, taskVars, stopPool, outbox, pollVars, discardedEvents>>

\* stopOutboxPoller: close the channel, then outboxWg.Wait().
StopClosePoller(s) ==
  /\ StopTo(s, "closing", "pollerWait")
  /\ pollerStop' = outbox
  /\ UNCHANGED <<busVars, poolVars, taskVars, stopPool, outbox, poller, discardedEvents>>

StopPollerStopped(s) ==
  /\ StopTo(s, "pollerWait", "publishersWait")
  /\ poller = "off"
  /\ UNCHANGED <<busVars, poolVars, taskVars, stopPool, outbox, pollVars, discardedEvents>>

\* close(pool.queue) without waiting for the publishers.
StopCloseEarly(s) ==
  /\ StopTo(s, "publishersWait", "workersWait")
  /\ closed' = [closed EXCEPT ![stopPool[s]] = TRUE]
  /\ UNCHANGED <<busVars, accepting, queue, worker, taskVars, stopPool, outbox, pollVars, discardedEvents>>

\* pool.publishers.Wait(); close(pool.queue); close(pool.done)
StopCloseQueue(s) ==
  /\ StopTo(s, "publishersWait", "workersWait")
  /\ ActivePublishers(stopPool[s]) = {}
  /\ closed' = [closed EXCEPT ![stopPool[s]] = TRUE]
  /\ UNCHANGED <<busVars, accepting, queue, worker, taskVars, stopPool, outbox, pollVars, discardedEvents>>

\* pool.workers.Wait()
StopWorkersExited(s) ==
  /\ StopTo(s, "workersWait", "fallbacksWait")
  /\ \A w \in Workers : worker[stopPool[s]][w] = Exited
  /\ UNCHANGED <<busVars, poolVars, taskVars, stopPool, outbox, pollVars, discardedEvents>>

\* StopWorkerPool returns without pool.fallbacks.Wait().
StopReturnEarly(s) ==
  /\ StopTo(s, "fallbacksWait", "returned")
  /\ UNCHANGED <<busVars, poolVars, taskVars, stopPool, outbox, pollVars, discardedEvents>>

\* pool.fallbacks.Wait(), then StopWorkerPool returns.
StopReturn(s) ==
  /\ StopTo(s, "fallbacksWait", "returned")
  /\ Fallbacks(stopPool[s]) = {}
  /\ UNCHANGED <<busVars, poolVars, taskVars, stopPool, outbox, pollVars, discardedEvents>>

-----------------------------------------------------------------------------
DispatchStep(t) ==
  \/ Accept(t) \/ DispatchStoppingPool(t) \/ SendToQueue(t) \/ DiscardOnFull(t)
  \/ NotSent(t) \/ HandleUnsentTask(t) \/ PublishReturns(t)

WorkerStep(p, w) == TakeTask(p, w) \/ FinishTask(p, w) \/ WorkerExit(p, w)

StopStep(s) ==
  \/ StopAccepting(s) \/ StopClosePoller(s) \/ StopPollerStopped(s)
  \/ StopCloseQueue(s) \/ StopWorkersExited(s) \/ StopReturn(s)

Next ==
  \/ \E p \in Pools, pol \in Policies : StartWorkerPool(p, pol)
  \/ \E t \in Tasks : Register(t) \/ PublishWithoutPool(t)
  \/ \E t \in Tasks : DispatchStep(t) \/ FinishOwnGoroutine(t)
  \/ \E p \in Pools, w \in Workers : WorkerStep(p, w)
  \/ PollerTick \/ PollerDone \/ PollerExit
  \/ \E s \in Stoppers : StopCapture(s) \/ StopStep(s)

Spec == Init /\ [][Next]_vars

(***************************************************************************)
(* The Go scheduler runs every goroutine that can run, and listeners       *)
(* return.  Publishing, starting and stopping are up to the environment.   *)
(* select picks at random between a tick and the closed stop channel, so   *)
(* PollerExit is not passed over for ever.                                 *)
(***************************************************************************)
Fairness ==
  /\ \A t \in Tasks : WF_vars(DispatchStep(t)) /\ WF_vars(FinishOwnGoroutine(t))
  /\ \A p \in Pools, w \in Workers : WF_vars(WorkerStep(p, w))
  /\ WF_vars(PollerDone) /\ SF_vars(PollerExit)
  /\ \A s \in Stoppers : WF_vars(StopStep(s))

FairSpec == Spec /\ Fairness

-----------------------------------------------------------------------------
(* Properties *)

\* A goroutine that may still send to a pool's queue never finds it closed:
\* a send on a closed channel would panic (the comment of the "block" case of
\* dispatchAcceptingPool, and close(pool.queue) in StopWorkerPool).
NoSendOnClosedQueue ==
  \A t \in Tasks : dispatch[t] \in {"registered", "accepted", "unsent"} => ~closed[pool[t]]

\* When the StopWorkerPool call that captured a pool has returned, every
\* publication that registered with the pool has been run or counted as
\* discarded: nothing is queued, running or in a fallback goroutine.
DrainedWhenStopped ==
  \A s \in Stoppers, t \in Tasks :
    stopPc[s] = "returned" /\ stopPool[s] # NoPool /\ pool[t] = stopPool[s]
      => exec[t] \in {"done", "discarded"}

\* Every dropped listener call is counted once by discardedEvents, on each of
\* the paths of dispatchToHandler that drop one.
DiscardsCounted == discardedEvents = Cardinality({t \in Tasks : exec[t] = "discarded"})

\* Under "block" and "fallback" a publication that registered with a pool is
\* never dropped, not even by a shutdown that overtakes it.
OnlyDiscardDrops ==
  \A t \in Tasks : exec[t] = "discarded" /\ pool[t] # NoPool => policy[t] = "discard"

\* A listener waits for room in the queue its own pool is meant to drain.
ListenerBlocked ==
  \E t \in Tasks :
    Publisher[t] \in Tasks /\ dispatch[t] = "accepted" /\ policy[t] = "block" /\ Full(pool[t])

\* StopWorkerPool returns, provided no listener publishes into a full queue
\* under the "block" policy.
StopReturns ==
  \A s \in Stoppers :
    (stopPc[s] = "captured" /\ []~ListenerBlocked) ~> stopPc[s] = "returned"

\* A queued task is run, whatever the pool does in the meantime.
QueuedTaskRuns ==
  \A t \in Tasks : (exec[t] = "queued" /\ []~ListenerBlocked) ~> exec[t] = "done"
=============================================================================
