------------------------------- MODULE Outbox -------------------------------
(***************************************************************************)
(* The life of one event published inside a transaction when the outbox is *)
(* enabled (framework/event/event_bus.go): its row in springo_outbox, the  *)
(* dispatch after the commit, the pollers of all replicas that pick up     *)
(* rows left behind, and the counters that decide when a row is done.      *)
(*                                                                         *)
(* Ages are what the code compares, not times: aged is "created more than  *)
(* 5 s ago", stuck is "PROCESSING and not updated for 5 minutes", and the  *)
(* poller lock may run out.  Timely says that no age is reached and no     *)
(* lock lost while the work it would overtake is still under way.          *)
(*                                                                         *)
(* A dispatch is one call of dispatch() for the row: it sets the counter   *)
(* of the row in its process and hands every listener to the pool.  Slots  *)
(* name the dispatches in flight and are used again.  What the pool does   *)
(* with a task is module WorkerPool.                                       *)
(***************************************************************************)
EXTENDS Integers, FiniteSets

CONSTANTS
  Nodes,       \* replicas of the application
  Home,        \* the one whose transaction publishes the event
  Listeners,
  Slots,       \* bound on dispatches in flight
  MaxFaults,   \* bound on crashes and failed statements
  Timely,
  Nil

ASSUME OutboxAssumption ==
  /\ Home \in Nodes
  /\ Listeners # {} /\ IsFiniteSet(Listeners)
  /\ Nil \notin Nodes \cup Slots
  /\ MaxFaults \in Nat /\ Timely \in BOOLEAN

VARIABLES
  tx,         \* the publishing transaction and its post-commit hook
  written,    \* the outbox row is part of the transaction (outboxID > 0)
  row,        \* status of the committed row
  cleanUp,    \* props.Outbox.CleanUp
  knows,      \* replicas that have listeners for the type of the event
  readable,   \* the payload of the row can be unmarshalled
  aged, stuck,
  lock,       \* holder of outbox-poller-lock
  poller,     \* per node: where its poller is
  up, faults,
  slotNode,   \* per slot: the node of the dispatch
  task,       \* per slot and listener
  counterOf,  \* outboxCounters: per node, the counter (named by its slot) or Nil
  counter,    \* per slot: the value of its counter
  read,       \* per slot and listener: the counter finishListener looked up
  executed,   \* history: how often each listener ran, up to 2
  dropped     \* history: listeners whose task the pool discarded

rowVars == <<row, aged, stuck>>
confVars == <<cleanUp, knows, readable>>
nodeVars == <<up, faults>>
taskVars == <<slotNode, task, counterOf, counter, read>>
histVars == <<executed, dropped>>
vars == <<tx, written, rowVars, confVars, lock, poller, nodeVars, taskVars, histVars>>

Complete == {"PROCESSED", "deleted"}

Init ==
  /\ tx = "open" /\ written = FALSE /\ row = "none"
  /\ cleanUp \in BOOLEAN /\ knows \in SUBSET Nodes /\ readable \in BOOLEAN
  /\ aged = FALSE /\ stuck = FALSE /\ lock = Nil
  /\ poller = [n \in Nodes |-> "idle"]
  /\ up = [n \in Nodes |-> TRUE] /\ faults = 0
  /\ slotNode = [d \in Slots |-> Nil]
  /\ task = [d \in Slots |-> [l \in Listeners |-> "none"]]
  /\ counterOf = [n \in Nodes |-> Nil]
  /\ counter = [d \in Slots |-> 0]
  /\ read = [d \in Slots |-> [l \in Listeners |-> Nil]]
  /\ executed = [l \in Listeners |-> 0]
  /\ dropped = {}

-----------------------------------------------------------------------------
(* The ages and the lock run on, unless Timely holds them back.            *)

Active(d) == \E l \in Listeners : task[d][l] \notin {"none", "done"}
Polling == \E n \in Nodes : poller[n] \in {"claiming", "dispatching"}
InFlight == tx = "committed" \/ Polling \/ \E d \in Slots : Active(d)

Ages ==
  /\ row = "PENDING" /\ ~aged
  /\ Timely => ~InFlight
  /\ aged' = TRUE
  /\ UNCHANGED <<tx, written, row, stuck, confVars, lock, poller, nodeVars, taskVars, histVars>>

GetsStuck ==
  /\ row = "PROCESSING" /\ ~stuck
  /\ Timely => ~InFlight
  /\ stuck' = TRUE
  /\ UNCHANGED <<tx, written, row, aged, confVars, lock, poller, nodeVars, taskVars, histVars>>

LockExpires ==
  /\ lock # Nil
  /\ Timely => poller[lock] \in {"off", "idle", "locking"}
  /\ lock' = Nil
  /\ UNCHANGED <<tx, written, rowVars, confVars, poller, nodeVars, taskVars, histVars>>

-----------------------------------------------------------------------------
(* Publish inside a transaction, its end, and the post-commit hook.        *)

\* Publish: tx.Create writes the row.  If it fails, the event stays buffered
\* with outbox ID 0.
PublishInTx ==
  /\ tx = "open" /\ ~written
  /\ written' = TRUE
  /\ UNCHANGED <<tx, rowVars, confVars, lock, poller, nodeVars, taskVars, histVars>>

Commit ==
  /\ tx = "open"
  /\ tx' = "committed"
  /\ row' = IF written THEN "PENDING" ELSE row
  /\ UNCHANGED <<written, aged, stuck, confVars, lock, poller, nodeVars, taskVars, histVars>>

Rollback ==
  /\ tx = "open"
  /\ tx' = "rolledback"
  /\ UNCHANGED <<written, rowVars, confVars, lock, poller, nodeVars, taskVars, histVars>>

Free(d) ==
  /\ ~Active(d)
  /\ \A e \in Slots, l \in Listeners :
       read[e][l] = d => task[e][l] \notin {"read", "zero", "completing"}

\* A counter that starts one short.
DispatchMiscounted(n, d) ==
  /\ Free(d)
  /\ slotNode' = [slotNode EXCEPT ![d] = n]
  /\ task' = [task EXCEPT ![d] = [l \in Listeners |-> "queued"]]
  /\ IF written
       THEN /\ counter' = [counter EXCEPT ![d] = Cardinality(Listeners) - 1]
            /\ counterOf' = [counterOf EXCEPT ![n] = d]
       ELSE UNCHANGED <<counter, counterOf>>
  /\ UNCHANGED read

\* dispatch: set the counter of the row, hand every listener to the pool.
Dispatch(n, d) ==
  /\ Free(d)
  /\ slotNode' = [slotNode EXCEPT ![d] = n]
  /\ task' = [task EXCEPT ![d] = [l \in Listeners |-> "queued"]]
  /\ IF written
       THEN /\ counter' = [counter EXCEPT ![d] = Cardinality(Listeners)]
            /\ counterOf' = [counterOf EXCEPT ![n] = d]
       ELSE UNCHANGED <<counter, counterOf>>
  /\ UNCHANGED read

\* completeOutboxEvent
Completed ==
  /\ row' = IF cleanUp \/ row = "deleted" THEN "deleted" ELSE "PROCESSED"
  /\ stuck' = FALSE

\* DispatchPendingEvents, the post-commit hook.
PostCommit(d) ==
  /\ tx = "committed"
  /\ Home \in knows
  /\ tx' = "dispatched"
  /\ Dispatch(Home, d)
  /\ UNCHANGED <<written, rowVars, confVars, lock, poller, nodeVars, histVars>>

\* Without a listener in this replica, dispatch completes the row at once.
PostCommitUnheard ==
  /\ tx = "committed"
  /\ Home \notin knows
  /\ tx' = "dispatched"
  /\ IF written THEN Completed ELSE UNCHANGED <<row, stuck>>
  /\ UNCHANGED <<written, aged, confVars, lock, poller, nodeVars, taskVars, histVars>>

\* The statement fails, and the row stays for the pollers.
PostCommitError ==
  /\ tx = "committed" /\ written
  /\ Home \notin knows
  /\ faults < MaxFaults
  /\ faults' = faults + 1
  /\ tx' = "dispatched"
  /\ UNCHANGED <<written, rowVars, confVars, lock, poller, up, taskVars, histVars>>

-----------------------------------------------------------------------------
(* pollPendingEvents *)

PollerTo(n, from, to) == poller[n] = from /\ poller' = [poller EXCEPT ![n] = to]

\* Polling without recoverStuckEvents.
PollSkipsStuck(n) ==
  /\ PollerTo(n, "idle", "locking")
  /\ UNCHANGED <<tx, written, rowVars, confVars, lock, nodeVars, taskVars, histVars>>

\* recoverStuckEvents
PollRecover(n) ==
  /\ PollerTo(n, "idle", "locking")
  /\ IF row = "PROCESSING" /\ stuck
       THEN row' = "PENDING" /\ stuck' = FALSE
       ELSE UNCHANGED <<row, stuck>>
  /\ UNCHANGED <<tx, written, aged, confVars, lock, nodeVars, taskVars, histVars>>

\* Polling without the lock.
PollUnlocked(n) ==
  /\ PollerTo(n, "locking", "fetching")
  /\ UNCHANGED <<tx, written, rowVars, confVars, lock, nodeVars, taskVars, histVars>>

\* acquirePollerLock (the protocol is that of module ShedLock).
PollLock(n) ==
  /\ PollerTo(n, "locking", "fetching")
  /\ lock = Nil
  /\ lock' = n
  /\ UNCHANGED <<tx, written, rowVars, confVars, nodeVars, taskVars, histVars>>

\* The lock is taken by another replica, or the statement fails.
PollSkips(n) ==
  /\ PollerTo(n, "locking", "idle")
  /\ UNCHANGED <<tx, written, rowVars, confVars, lock, nodeVars, taskVars, histVars>>

\* Fetching rows of any age.
PollFetchYoung(n) ==
  /\ PollerTo(n, "fetching", IF row = "PENDING" THEN "claiming" ELSE "releasing")
  /\ UNCHANGED <<tx, written, rowVars, confVars, lock, nodeVars, taskVars, histVars>>

\* fetchPendingEvents
PollFetch(n) ==
  /\ PollerTo(n, "fetching", IF row = "PENDING" /\ aged THEN "claiming" ELSE "releasing")
  /\ UNCHANGED <<tx, written, rowVars, confVars, lock, nodeVars, taskVars, histVars>>

\* claimEvents: UPDATE by ID, whatever the status is by now.
PollClaim(n) ==
  /\ PollerTo(n, "claiming", "dispatching")
  /\ row' = IF row = "deleted" THEN row ELSE "PROCESSING"
  /\ stuck' = FALSE
  /\ UNCHANGED <<tx, written, aged, confVars, lock, nodeVars, taskVars, histVars>>

\* The fetch or the claim fails.
PollError(n) ==
  /\ poller[n] \in {"fetching", "claiming"}
  /\ faults < MaxFaults
  /\ faults' = faults + 1
  /\ poller' = [poller EXCEPT ![n] = "releasing"]
  /\ UNCHANGED <<tx, written, rowVars, confVars, lock, up, taskVars, histVars>>

\* dispatchSinglePendingEvent on a replica that knows the type.
PollDispatch(n, d) ==
  /\ PollerTo(n, "dispatching", "releasing")
  /\ n \in knows /\ readable
  /\ Dispatch(n, d)
  /\ UNCHANGED <<tx, written, rowVars, confVars, lock, nodeVars, histVars>>

\* json.Unmarshal fails: the error is logged, and the row stays PROCESSING.
PollUnreadable(n) ==
  /\ PollerTo(n, "dispatching", "releasing")
  /\ n \in knows /\ ~readable
  /\ UNCHANGED <<tx, written, rowVars, confVars, lock, nodeVars, taskVars, histVars>>

\* On a replica that does not know the type: the same, with a warning.
PollUnknownType(n) ==
  /\ PollerTo(n, "dispatching", "releasing")
  /\ n \notin knows
  /\ UNCHANGED <<tx, written, rowVars, confVars, lock, nodeVars, taskVars, histVars>>

\* releasePollerLock
PollRelease(n) ==
  /\ PollerTo(n, "releasing", "idle")
  /\ lock' = IF lock = n THEN Nil ELSE lock
  /\ UNCHANGED <<tx, written, rowVars, confVars, nodeVars, taskVars, histVars>>

-----------------------------------------------------------------------------
(* The tasks of a dispatch: run the listener, then finishListener.         *)

TaskTo(d, l, from, to) ==
  /\ task[d][l] = from
  /\ task' = [task EXCEPT ![d][l] = to]

\* The listener runs.  If it fails, handleFailure stores the event in the DLQ
\* or, without a DLQ or when the insert fails, does not: the outbox goes on alike.
RunListener(d, l) ==
  /\ TaskTo(d, l, "queued", "ran")
  /\ executed' = [executed EXCEPT ![l] = IF @ < 2 THEN @ + 1 ELSE @]
  /\ UNCHANGED <<tx, written, rowVars, confVars, lock, poller, nodeVars, slotNode,
                 counterOf, counter, read, dropped>>

\* The pool is stopped, or full or stopping under the discard policy: the task
\* is not run, and finished all the same.
DropListener(d, l) ==
  /\ TaskTo(d, l, "queued", "ran")
  /\ dropped' = dropped \cup {l}
  /\ UNCHANGED <<tx, written, rowVars, confVars, lock, poller, nodeVars, slotNode,
                 counterOf, counter, read, executed>>

\* finishListener: look the counter up ...
FinishRead(d, l) ==
  LET c == IF written THEN counterOf[slotNode[d]] ELSE Nil IN
  /\ TaskTo(d, l, "ran", IF c = Nil THEN "done" ELSE "read")
  /\ read' = [read EXCEPT ![d][l] = c]
  /\ UNCHANGED <<tx, written, rowVars, confVars, lock, poller, nodeVars, slotNode,
                 counterOf, counter, histVars>>

\* ... decrement it atomically ...
FinishCount(d, l) ==
  LET c == read[d][l] IN
  /\ TaskTo(d, l, "read", IF counter[c] <= 1 THEN "zero" ELSE "done")
  /\ counter' = [counter EXCEPT ![c] = @ - 1]
  /\ UNCHANGED <<tx, written, rowVars, confVars, lock, poller, nodeVars, slotNode,
                 counterOf, read, histVars>>

\* ... and the last one removes the entry from the map, by key ...
FinishForget(d, l) ==
  /\ TaskTo(d, l, "zero", "completing")
  /\ counterOf' = [counterOf EXCEPT ![slotNode[d]] = Nil]
  /\ UNCHANGED <<tx, written, rowVars, confVars, lock, poller, nodeVars, slotNode,
                 counter, read, histVars>>

\* completeOutboxEvent, the last step of finishListener.
CompleteOutboxEvent(d, l) ==
  /\ TaskTo(d, l, "completing", "done")
  /\ Completed
  /\ UNCHANGED <<tx, written, aged, confVars, lock, poller, nodeVars, slotNode,
                 counterOf, counter, read, histVars>>

\* The statement fails: the error is logged, and the row is left as it was.
CompleteError(d, l) ==
  /\ TaskTo(d, l, "completing", "done")
  /\ faults < MaxFaults
  /\ faults' = faults + 1
  /\ UNCHANGED <<tx, written, rowVars, confVars, lock, poller, up, slotNode,
                 counterOf, counter, read, histVars>>

-----------------------------------------------------------------------------
(* A replica dies with its transaction, tasks and counters; its lock stays. *)

Crash(n) ==
  /\ up[n] /\ faults < MaxFaults
  /\ up' = [up EXCEPT ![n] = FALSE]
  /\ faults' = faults + 1
  /\ poller' = [poller EXCEPT ![n] = "off"]
  /\ tx' = IF n # Home THEN tx
           ELSE IF tx = "open" THEN "rolledback"
           ELSE IF tx = "committed" THEN "crashed" ELSE tx
  /\ task' = [d \in Slots |-> IF slotNode[d] = n THEN [l \in Listeners |-> "none"] ELSE task[d]]
  /\ counterOf' = [counterOf EXCEPT ![n] = Nil]
  /\ UNCHANGED <<written, rowVars, confVars, lock, slotNode, counter, read, histVars>>

Restart(n) ==
  /\ ~up[n]
  /\ up' = [up EXCEPT ![n] = TRUE]
  /\ poller' = [poller EXCEPT ![n] = "idle"]
  /\ UNCHANGED <<tx, written, rowVars, confVars, lock, faults, taskVars, histVars>>

-----------------------------------------------------------------------------
FinishStep(d, l) ==
  \/ FinishRead(d, l) \/ FinishCount(d, l) \/ FinishForget(d, l)
  \/ CompleteOutboxEvent(d, l) \/ CompleteError(d, l)

TaskStep(d, l) == RunListener(d, l) \/ DropListener(d, l) \/ FinishStep(d, l)

PollStep(n) ==
  \/ PollRecover(n) \/ PollFetch(n) \/ PollClaim(n) \/ PollError(n)
  \/ (\E d \in Slots : PollDispatch(n, d)) \/ PollUnreadable(n) \/ PollUnknownType(n)
  \/ PollRelease(n)

Hook == (\E d \in Slots : PostCommit(d)) \/ PostCommitUnheard \/ PostCommitError

Next ==
  \/ PublishInTx \/ Commit \/ Rollback
  \/ Hook
  \/ \E d \in Slots, l \in Listeners : TaskStep(d, l)
  \/ \E n \in Nodes :
       PollStep(n) \/ PollLock(n) \/ PollSkips(n) \/ Crash(n) \/ Restart(n)
  \/ Ages \/ GetsStuck \/ LockExpires

Spec == Init /\ [][Next]_vars

(***************************************************************************)
(* Goroutines run, time passes, tickers tick and a dead replica is started *)
(* again.  The tickers of the replicas are not in step, so a poller that   *)
(* finds the lock free again and again takes it some day.                  *)
(***************************************************************************)
Fairness ==
  /\ WF_vars(Hook)
  /\ \A d \in Slots, l \in Listeners : WF_vars(TaskStep(d, l))
  /\ \A n \in Nodes :
       /\ WF_vars(PollStep(n)) /\ SF_vars(PollLock(n)) /\ WF_vars(Restart(n))
  /\ WF_vars(Ages) /\ WF_vars(GetsStuck) /\ WF_vars(LockExpires)

FairSpec == Spec /\ Fairness

-----------------------------------------------------------------------------
(* Properties *)

\* A listener that ran, whatever came of it, or whose task the pool discarded.
Handled(l) == executed[l] > 0 \/ l \in dropped

\* The publishing replica had no listener for the type.
Unheard == tx = "dispatched" /\ Home \notin knows

\* A row is completed (PROCESSED, or deleted) only when every listener has run
\* or was discarded by the pool: the counter of finishListener is right, also
\* after crashes and second dispatches.  The exception is a publisher without
\* listeners for the type: its hook completes the row at once, and the
\* listeners that other replicas have never run.
CompletedMeansHandled == row \in Complete => Unheard \/ \A l \in Listeners : Handled(l)

\* A completed row is never claimed again by a poller.
CompletedIsFinal == [][(row \in Complete) => (row' = row)]_vars

\* "claim them and prevent double execution" (claimEvents): without a crash
\* or a failed statement no listener is run twice for one published event.
NoDoubleExecution == faults = 0 => \A l \in Listeners : executed[l] <= 1

\* For an event whose row was committed every listener is run in the end, by the
\* post-commit hook or a poller, whichever replica crashes on the way, or its
\* task is discarded by a pool, which the code takes for done.  All replicas
\* have to know the type and the payload has to be readable: otherwise the row
\* may be completed unheard, or go from PROCESSING to PENDING and back for ever.
Delivered ==
  (row = "PENDING" /\ knows = Nodes /\ readable) ~> \A l \in Listeners : Handled(l)

\* The tutorial's "guarantee message delivery", for replicas that all have the
\* listeners: when the row is complete, none is left that neither ran nor was
\* discarded, and whose task has gone.
NothingLost ==
  row \in Complete /\ knows = Nodes =>
    \A l \in Listeners : Handled(l) \/ \E d \in Slots : task[d][l] = "queued"
=============================================================================
