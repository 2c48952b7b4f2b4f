----------------------------- MODULE OutboxProofs -----------------------------
(***************************************************************************)
(* Proofs about Outbox for any replicas, listeners, dispatches in flight   *)
(* and faults, when no age is reached and no lock is lost while the work   *)
(* it would overtake is still under way (Timely).                          *)
(***************************************************************************)
EXTENDS Outbox, FiniteSetTheorems, TLAPS

USE OutboxAssumption

TaskStates == {"none", "queued", "ran", "read", "zero", "completing", "done"}
TxStates == {"open", "committed", "dispatched", "rolledback", "crashed"}
RowStates == {"none", "PENDING", "PROCESSING", "PROCESSED", "deleted"}
PollerStates ==
  {"off", "idle", "locking", "fetching", "claiming", "dispatching", "releasing"}

Types ==
  /\ tx \in TxStates /\ row \in RowStates
  /\ written \in BOOLEAN /\ aged \in BOOLEAN /\ stuck \in BOOLEAN
  /\ poller \in [Nodes -> PollerStates]
  /\ faults \in Nat
  /\ slotNode \in [Slots -> Nodes \cup {Nil}]
  /\ task \in [Slots -> [Listeners -> TaskStates]]
  /\ counterOf \in [Nodes -> Slots \cup {Nil}]
  /\ counter \in [Slots -> Int]
  /\ read \in [Slots -> [Listeners -> Slots \cup {Nil}]]
  /\ executed \in [Listeners -> 0..2]
  /\ dropped \subseteq Listeners

\* A task belongs to the process of its dispatch.
Placed == \A d \in Slots, l \in Listeners : task[d][l] # "none" => slotNode[d] \in Nodes

\* A poller past its lock statement still has the lock.
LockInv ==
  \A n \in Nodes :
    poller[n] \in {"fetching", "claiming", "dispatching", "releasing"} => lock = n

Some == \E d \in Slots : Active(d)

\* When no dispatch can be under way.
RowInv ==
  /\ tx = "open" => row = "none"
  /\ tx \in {"open", "committed"} => ~Some /\ row \in {"none", "PENDING"} /\ ~aged
  /\ row = "PENDING" /\ aged => ~Some
  /\ row = "PROCESSING" /\ stuck => ~Some
  /\ row \in Complete => ~Some /\ (Unheard \/ \A l \in Listeners : Handled(l))
  /\ ~written => row = "none"

\* The row that a poller claims and dispatches stays as the poller saw it.
PollInv ==
  \A n \in Nodes :
    /\ poller[n] = "claiming" => row = "PENDING" /\ aged /\ ~Some
    /\ poller[n] = "dispatching" => row = "PROCESSING" /\ ~stuck /\ ~Some

Pending(d) == {l \in Listeners : task[d][l] \in {"queued", "ran", "read"}}
Ending(d) == {l \in Listeners : task[d][l] \in {"zero", "completing"}}

\* A dispatch under way is the only one; its counter is the number of its
\* listeners that have not decremented it, and one of them finds it used up.
SlotInv(d) ==
  Active(d) =>
    /\ \A l \in Listeners : task[d][l] # "none"
    /\ \A l \in Listeners : task[d][l] # "queued" => Handled(l)
    /\ \A e \in Slots : Active(e) => e = d
    /\ ~written => \A l \in Listeners : task[d][l] \in {"queued", "ran", "done"}
    /\ written =>
         /\ counter[d] = Cardinality(Pending(d))
         /\ Pending(d) # {} => counterOf[slotNode[d]] = d /\ Ending(d) = {}
         /\ \A k, l \in Ending(d) : k = l
         /\ \A l \in Listeners : task[d][l] = "read" => read[d][l] = d

SlotsInv == \A d \in Slots : SlotInv(d)

\* Without a fault no poller ever finds the row, so it is dispatched once.
OnceInv ==
  faults = 0 =>
    /\ row # "PROCESSING" /\ ~aged
    /\ row = "PENDING" => tx = "committed" \/ Some
    /\ tx \in {"open", "committed"} => \A l \in Listeners : executed[l] = 0
    /\ \A l \in Listeners : executed[l] <= 1
    /\ \A d \in Slots, l \in Listeners : task[d][l] = "queued" => executed[l] = 0

IInv == Types /\ Placed /\ LockInv /\ RowInv /\ PollInv /\ SlotsInv /\ OnceInv

LEMMA InitIInv == Init => IInv
<1> SUFFICES ASSUME Init PROVE IInv
  OBVIOUS
<1>1. \A d \in Slots : ~Active(d)
  BY DEF Init, Active
<1>2. Types
  <2>1. read \in [Slots -> [Listeners -> Slots \cup {Nil}]]
    BY DEF Init
  <2>2. task \in [Slots -> [Listeners -> TaskStates]]
    BY DEF Init, TaskStates
  <2>3. executed \in [Listeners -> 0..2] /\ dropped \subseteq Listeners
    BY DEF Init
  <2>4. /\ poller \in [Nodes -> PollerStates] /\ slotNode \in [Slots -> Nodes \cup {Nil}]
        /\ counterOf \in [Nodes -> Slots \cup {Nil}] /\ counter \in [Slots -> Int]
    BY DEF Init, PollerStates
  <2>5. /\ tx \in TxStates /\ row \in RowStates /\ faults \in Nat
        /\ written \in BOOLEAN /\ aged \in BOOLEAN /\ stuck \in BOOLEAN
    BY DEF Init, TxStates, RowStates
  <2>. QED
    BY <2>1, <2>2, <2>3, <2>4, <2>5 DEF Types
<1>3. Placed /\ LockInv /\ PollInv
  BY DEF Init, Placed, LockInv, PollInv
<1>4. RowInv
  BY <1>1 DEF Init, RowInv, Some, Complete
<1>5. SlotsInv
  BY <1>1 DEF SlotsInv, SlotInv
<1>6. OnceInv
  BY DEF Init, OnceInv
<1>. QED
  BY <1>2, <1>3, <1>4, <1>5, <1>6 DEF IInv

-----------------------------------------------------------------------------
(* Types and the poller lock. *)

LEMMA TypesNext == Types /\ Placed /\ [Next]_vars => Types'
<1> SUFFICES ASSUME Types, Placed, [Next]_vars PROVE Types'
  OBVIOUS
<1> USE DEF Types, TxStates, RowStates, PollerStates, TaskStates, rowVars, confVars,
            nodeVars, taskVars, histVars
<1>1. CASE PublishInTx \/ Commit \/ Rollback \/ Ages \/ GetsStuck \/ LockExpires
  BY <1>1 DEF PublishInTx, Commit, Rollback, Ages, GetsStuck, LockExpires
<1>2. ASSUME NEW n \in Nodes, NEW d \in Slots, Dispatch(n, d)
      PROVE  /\ slotNode' \in [Slots -> Nodes \cup {Nil}]
             /\ task' \in [Slots -> [Listeners -> TaskStates]]
             /\ counterOf' \in [Nodes -> Slots \cup {Nil}]
             /\ counter' \in [Slots -> Int]
             /\ read' \in [Slots -> [Listeners -> Slots \cup {Nil}]]
  <2>1. Cardinality(Listeners) \in Int
    BY FS_CardinalityType
  <2>. QED
    BY <1>2, <2>1 DEF Dispatch
<1>3. ASSUME NEW d \in Slots, PostCommit(d) PROVE Types'
  BY <1>2, <1>3 DEF PostCommit
<1>4. ASSUME NEW n \in Nodes, NEW d \in Slots, PollDispatch(n, d) PROVE Types'
  BY <1>2, <1>4 DEF PollDispatch, PollerTo
<1>5. ASSUME NEW n \in Nodes,
             \/ PollRecover(n) \/ PollFetch(n) \/ PollClaim(n) \/ PollError(n)
             \/ PollUnreadable(n) \/ PollUnknownType(n) \/ PollRelease(n) \/ PollLock(n)
             \/ PollSkips(n)
      PROVE  Types'
  <2>1. UNCHANGED <<tx, written, aged, taskVars, histVars>>
    BY <1>5 DEF PollRecover, PollFetch, PollClaim, PollError, PollUnreadable, PollUnknownType,
                PollRelease, PollLock, PollSkips
  <2>2. PICK to \in PollerStates : poller' = [poller EXCEPT ![n] = to]
    BY <1>5 DEF PollRecover, PollFetch, PollClaim, PollError, PollUnreadable, PollUnknownType,
                PollRelease, PollLock, PollSkips, PollerTo
  <2>3. row' \in RowStates /\ stuck' \in BOOLEAN
    BY <1>5 DEF PollRecover, PollFetch, PollClaim, PollError, PollUnreadable, PollUnknownType,
                PollRelease, PollLock, PollSkips
  <2>4. faults' \in Nat
    BY <1>5 DEF PollRecover, PollFetch, PollClaim, PollError, PollUnreadable, PollUnknownType,
                PollRelease, PollLock, PollSkips
  <2>. QED
    BY <2>1, <2>2, <2>3, <2>4
<1>6. ASSUME NEW d \in Slots, NEW l \in Listeners, NEW from, NEW to \in TaskStates,
             TaskTo(d, l, from, to)
      PROVE  task' \in [Slots -> [Listeners -> TaskStates]]
  BY <1>6 DEF TaskTo
<1>7. ASSUME NEW d \in Slots, NEW l \in Listeners, RunListener(d, l) \/ DropListener(d, l)
      PROVE  Types'
  <2>1. TaskTo(d, l, "queued", "ran") /\ dropped' \in {dropped, dropped \cup {l}}
        /\ UNCHANGED <<tx, written, row, aged, stuck, poller, faults, slotNode, counterOf,
                       counter, read>>
    BY <1>7 DEF RunListener, DropListener
  <2>2. executed' = executed \/ executed' = [executed EXCEPT ![l] = IF @ < 2 THEN @ + 1 ELSE @]
    BY <1>7 DEF RunListener, DropListener
  <2>3. executed' \in [Listeners -> 0..2]
    BY <2>2
  <2>. QED
    BY <1>6, <2>1, <2>3
<1>8. ASSUME NEW d \in Slots, NEW l \in Listeners, FinishStep(d, l) PROVE Types'
  <2>1. UNCHANGED <<tx, written, aged, poller, slotNode, executed, dropped>>
    BY <1>8 DEF FinishStep, FinishRead, FinishCount, FinishForget, CompleteOutboxEvent,
                CompleteError, Completed
  <2>2. task' \in [Slots -> [Listeners -> TaskStates]]
    BY <1>6, <1>8 DEF FinishStep, FinishRead, FinishCount, FinishForget, CompleteOutboxEvent,
                      CompleteError
  <2>3. /\ row' \in {row, "deleted", "PROCESSED"} /\ stuck' \in {stuck, FALSE}
        /\ faults' \in {faults, faults + 1}
    BY <1>8 DEF FinishStep, FinishRead, FinishCount, FinishForget, CompleteOutboxEvent,
                CompleteError, Completed
  <2>4. counter' = counter \/ \E c : counter' = [counter EXCEPT ![c] = @ - 1]
    BY <1>8 DEF FinishStep, FinishRead, FinishCount, FinishForget, CompleteOutboxEvent,
                CompleteError, Completed
  <2>5. counter' \in [Slots -> Int]
    BY <2>4
  <2>6. counterOf' = counterOf \/ counterOf' = [counterOf EXCEPT ![slotNode[d]] = Nil]
    BY <1>8 DEF FinishStep, FinishRead, FinishCount, FinishForget, CompleteOutboxEvent,
                CompleteError, Completed
  <2>7. counterOf' \in [Nodes -> Slots \cup {Nil}]
    BY <2>6
  <2>8. slotNode[d] \in Nodes
    BY <1>8 DEF FinishStep, FinishRead, FinishCount, FinishForget, CompleteOutboxEvent,
                CompleteError, TaskTo, Placed
  <2>9. read' = read \/ \E c \in {counterOf[slotNode[d]], Nil} :
                            read' = [read EXCEPT ![d][l] = c]
    BY <1>8 DEF FinishStep, FinishRead, FinishCount, FinishForget, CompleteOutboxEvent,
                CompleteError, Completed
  <2>10. read' \in [Slots -> [Listeners -> Slots \cup {Nil}]]
    <3>1. counterOf[slotNode[d]] \in Slots \cup {Nil}
      BY <2>8
    <3>2. ASSUME NEW c \in Slots \cup {Nil}, read' = [read EXCEPT ![d][l] = c]
          PROVE  read' \in [Slots -> [Listeners -> Slots \cup {Nil}]]
      BY <3>2
    <3>. QED
      BY <2>9, <3>1, <3>2
  <2>11. row' \in RowStates /\ stuck' \in BOOLEAN
    BY <2>3
  <2>12. faults' \in Nat
    <3>. faults \in Nat
      OBVIOUS
    <3>. QED
      BY <2>3
  <2>. QED
    BY <2>1, <2>2, <2>5, <2>7, <2>10, <2>11, <2>12
<1>9. ASSUME NEW n \in Nodes, Crash(n) \/ Restart(n) PROVE Types'
  <2>1. task' \in [Slots -> [Listeners -> TaskStates]]
    BY <1>9 DEF Crash, Restart
  <2>2. tx' \in TxStates /\ faults' \in Nat
    BY <1>9 DEF Crash, Restart
  <2>3. poller' \in [Nodes -> PollerStates] /\ counterOf' \in [Nodes -> Slots \cup {Nil}]
    BY <1>9 DEF Crash, Restart
  <2>4. UNCHANGED <<written, row, aged, stuck, slotNode, counter, read, executed, dropped>>
    BY <1>9 DEF Crash, Restart
  <2>. QED
    BY <2>1, <2>2, <2>3, <2>4
<1>10. CASE PostCommitUnheard \/ PostCommitError
  <2>1. /\ tx' = "dispatched" /\ row' \in {row, "deleted", "PROCESSED"} /\ stuck' \in {stuck, FALSE}
        /\ faults' \in {faults, faults + 1}
        /\ UNCHANGED <<written, aged, poller, taskVars, executed, dropped>>
    BY <1>10 DEF PostCommitUnheard, PostCommitError, Completed
  <2>2. faults' \in Nat
    BY <2>1
  <2>. QED
    BY <2>1, <2>2
<1>11. CASE UNCHANGED vars
  BY <1>11 DEF vars
<1>. QED
  BY <1>1, <1>3, <1>4, <1>5, <1>7, <1>8, <1>9, <1>10, <1>11 DEF Next, PollStep, TaskStep, Hook

LEMMA PlacedNext == Types /\ Placed /\ [Next]_vars => Placed'
<1> SUFFICES ASSUME Types, Placed, [Next]_vars PROVE Placed'
  OBVIOUS
<1> USE DEF rowVars, confVars, nodeVars, taskVars, histVars
<1>1. ASSUME UNCHANGED <<slotNode, task>> PROVE Placed'
  BY <1>1 DEF Placed
<1>2. ASSUME NEW n \in Nodes, NEW d \in Slots, Dispatch(n, d) PROVE Placed'
  <2> SUFFICES ASSUME NEW e \in Slots, NEW l \in Listeners, task'[e][l] # "none"
               PROVE  slotNode'[e] \in Nodes
    BY DEF Placed
  <2>1. CASE e = d
    BY <1>2, <2>1 DEF Dispatch, Types
  <2>2. CASE e # d
    BY <1>2, <2>2 DEF Dispatch, Types, Placed
  <2>. QED
    BY <2>1, <2>2
<1>3. ASSUME NEW d \in Slots, PostCommit(d) PROVE Placed'
  BY <1>2, <1>3 DEF PostCommit
<1>4. ASSUME NEW n \in Nodes, NEW d \in Slots, PollDispatch(n, d) PROVE Placed'
  BY <1>2, <1>4 DEF PollDispatch
<1>5. ASSUME NEW d \in Slots, NEW l \in Listeners, TaskStep(d, l) PROVE Placed'
  <2>1. /\ slotNode' = slotNode /\ task[d][l] # "none"
        /\ \E to \in TaskStates : task' = [task EXCEPT ![d][l] = to]
    BY <1>5 DEF TaskStep, FinishStep, RunListener, DropListener, FinishRead, FinishCount,
                FinishForget, CompleteOutboxEvent, CompleteError, TaskTo, TaskStates
  <2>. QED
    BY <2>1 DEF Placed, Types
<1>6. ASSUME NEW n \in Nodes, Crash(n) PROVE Placed'
  BY <1>6 DEF Crash, Placed, Types
<1>7. ASSUME NEW n \in Nodes,
             \/ PollRecover(n) \/ PollFetch(n) \/ PollClaim(n) \/ PollError(n) \/ Restart(n)
             \/ PollUnreadable(n) \/ PollUnknownType(n) \/ PollRelease(n) \/ PollLock(n)
             \/ PollSkips(n)
      PROVE  Placed'
  BY <1>1, <1>7 DEF PollRecover, PollFetch, PollClaim, PollError, PollUnreadable, PollUnknownType,
                    PollRelease, PollLock, PollSkips, Restart
<1>8. CASE \/ PublishInTx \/ Commit \/ Rollback \/ Ages \/ GetsStuck \/ LockExpires
           \/ PostCommitUnheard \/ PostCommitError \/ UNCHANGED vars
  BY <1>1, <1>8 DEF PublishInTx, Commit, Rollback, Ages, GetsStuck, LockExpires,
                    PostCommitUnheard, PostCommitError, vars
<1>. QED
  BY <1>3, <1>4, <1>5, <1>6, <1>7, <1>8 DEF Next, PollStep, Hook

LEMMA LockNext == Timely /\ Types /\ LockInv /\ [Next]_vars => LockInv'
<1> SUFFICES ASSUME Timely, Types, LockInv, [Next]_vars PROVE LockInv'
  OBVIOUS
<1> USE DEF rowVars, confVars, nodeVars, taskVars, histVars
<1>1. ASSUME UNCHANGED <<poller, lock>> PROVE LockInv'
  BY <1>1 DEF LockInv
<1>2. ASSUME NEW n \in Nodes, PollLock(n) \/ PollRelease(n) \/ Crash(n) \/ Restart(n)
      PROVE  LockInv'
  BY <1>2 DEF PollLock, PollRelease, Crash, Restart, PollerTo, LockInv, Types
<1>3. ASSUME NEW n \in Nodes,
             \/ PollRecover(n) \/ PollFetch(n) \/ PollClaim(n) \/ PollError(n)
             \/ (\E d \in Slots : PollDispatch(n, d)) \/ PollUnreadable(n) \/ PollUnknownType(n)
             \/ PollSkips(n)
      PROVE  LockInv'
  BY <1>3 DEF PollRecover, PollFetch, PollClaim, PollError, PollDispatch, PollUnreadable,
              PollUnknownType, PollSkips, PollerTo, LockInv, Types
<1>4. CASE LockExpires
  BY <1>4 DEF LockExpires, LockInv
<1>5. CASE \/ PublishInTx \/ Commit \/ Rollback \/ Ages \/ GetsStuck
           \/ PostCommitUnheard \/ PostCommitError \/ UNCHANGED vars
  BY <1>1, <1>5 DEF PublishInTx, Commit, Rollback, Ages, GetsStuck, PostCommitUnheard,
                    PostCommitError, vars
<1>6. ASSUME NEW d \in Slots, PostCommit(d) PROVE LockInv'
  BY <1>1, <1>6 DEF PostCommit
<1>7. ASSUME NEW d \in Slots, NEW l \in Listeners, TaskStep(d, l) PROVE LockInv'
  BY <1>1, <1>7 DEF TaskStep, FinishStep, RunListener, DropListener, FinishRead, FinishCount,
                    FinishForget, CompleteOutboxEvent, CompleteError
<1>. QED
  BY <1>2, <1>3, <1>4, <1>5, <1>6, <1>7 DEF Next, PollStep, Hook

-----------------------------------------------------------------------------
(* Steps that leave the tasks alone. *)

Rest == RowInv /\ PollInv /\ SlotsInv /\ OnceInv

LEMMA TasksSame ==
  ASSUME UNCHANGED taskVars, UNCHANGED <<written, executed, dropped>>, SlotsInv
  PROVE  (Some' <=> Some) /\ SlotsInv'
<1>1. \A d \in Slots : (Active(d)' <=> Active(d)) /\ Pending(d)' = Pending(d) /\ Ending(d)' = Ending(d)
  BY DEF Active, Pending, Ending, taskVars
<1>2. Some' <=> Some
  BY <1>1 DEF Some
<1>3. \A d \in Slots : SlotInv(d) => SlotInv(d)'
  BY <1>1 DEF SlotInv, Handled, taskVars
<1>. QED
  BY <1>2, <1>3 DEF SlotsInv

LEMMA TimePasses ==
  ASSUME Timely, IInv, Ages \/ GetsStuck \/ LockExpires PROVE Rest'
<1> USE DEF IInv
<1>1. (Some' <=> Some) /\ SlotsInv'
  BY TasksSame DEF Ages, GetsStuck, LockExpires, histVars
<1>2. CASE Ages
  <2>1. /\ row = "PENDING" /\ aged' = TRUE
        /\ UNCHANGED <<tx, written, row, stuck, poller, faults, task, executed, dropped>>
    BY <1>2 DEF Ages, nodeVars, taskVars, histVars
  <2>2. tx # "committed" /\ ~Some /\ \A n \in Nodes : poller[n] # "dispatching"
    BY <1>2 DEF Ages, InFlight, Polling, Some
  <2>3. faults # 0
    BY <2>1, <2>2 DEF OnceInv
  <2>4. RowInv'
    BY <1>1, <2>1, <2>2 DEF RowInv, Complete, Unheard, Handled
  <2>5. PollInv'
    BY <1>1, <2>1, <2>2 DEF PollInv
  <2>6. OnceInv'
    BY <2>1, <2>3 DEF OnceInv
  <2>. QED
    BY <1>1, <2>4, <2>5, <2>6 DEF Rest
<1>3. CASE GetsStuck
  <2>1. /\ row = "PROCESSING" /\ stuck' = TRUE
        /\ UNCHANGED <<tx, written, row, aged, poller, faults, task, executed, dropped>>
    BY <1>3 DEF GetsStuck, nodeVars, taskVars, histVars
  <2>2. ~Some /\ \A n \in Nodes : poller[n] # "dispatching"
    BY <1>3 DEF GetsStuck, InFlight, Polling, Some
  <2>3. faults # 0
    BY <2>1 DEF OnceInv
  <2>4. RowInv'
    BY <1>1, <2>1, <2>2 DEF RowInv, Complete, Unheard, Handled
  <2>5. PollInv'
    BY <1>1, <2>1, <2>2 DEF PollInv
  <2>6. OnceInv'
    BY <2>1, <2>3 DEF OnceInv
  <2>. QED
    BY <1>1, <2>4, <2>5, <2>6 DEF Rest
<1>4. CASE LockExpires
  <2>1. UNCHANGED <<tx, written, row, aged, stuck, knows, poller, faults, task, executed, dropped>>
    BY <1>4 DEF LockExpires, rowVars, confVars, nodeVars, taskVars, histVars
  <2>. QED
    BY <1>1, <2>1 DEF Rest, RowInv, PollInv, OnceInv, Unheard, Handled
<1>. QED
  BY <1>2, <1>3, <1>4

LEMMA TxSteps ==
  ASSUME IInv, PublishInTx \/ Commit \/ Rollback PROVE Rest'
<1> USE DEF IInv
<1>1. /\ tx = "open" /\ row = "none" /\ ~aged /\ ~Some
      /\ tx' \in {"open", "committed", "rolledback"} /\ row' \in {"none", "PENDING"}
      /\ tx' # "committed" => row' = "none"
      /\ ~written' => row' = "none"
      /\ UNCHANGED <<aged, poller, faults, task, executed>>
  BY DEF PublishInTx, Commit, Rollback, RowInv, rowVars, nodeVars, taskVars, histVars
<1>2. ~Some'
  BY <1>1 DEF Some, Active
<1>3. SlotsInv'
  BY <1>2 DEF SlotsInv, SlotInv, Some
<1>4. RowInv'
  BY <1>1, <1>2 DEF RowInv, Complete, Unheard, Handled
<1>5. PollInv'
  BY <1>1, <1>2 DEF PollInv
<1>6. OnceInv'
  BY <1>1 DEF OnceInv
<1>. QED
  BY <1>3, <1>4, <1>5, <1>6 DEF Rest

LEMMA PollerSteps ==
  ASSUME IInv, NEW n \in Nodes,
         \/ PollRecover(n) \/ PollFetch(n) \/ PollClaim(n) \/ PollError(n)
         \/ PollUnreadable(n) \/ PollUnknownType(n) \/ PollRelease(n) \/ PollLock(n) \/ PollSkips(n)
         \/ Restart(n)
  PROVE  Rest'
<1> USE DEF IInv
<1>1. (Some' <=> Some) /\ SlotsInv'
  BY TasksSame DEF PollRecover, PollFetch, PollClaim, PollError, PollUnreadable, PollUnknownType,
                   PollRelease, PollLock, PollSkips, Restart, histVars
<1>2. UNCHANGED <<tx, written, aged, knows, task, executed, dropped>>
  BY DEF confVars, PollRecover, PollFetch, PollClaim, PollError, PollUnreadable, PollUnknownType,
         PollRelease, PollLock, PollSkips, Restart, rowVars, taskVars, histVars
<1>3. CASE PollRecover(n)
  <2>1. /\ poller' = [poller EXCEPT ![n] = "locking"] /\ faults' = faults
        /\ \/ UNCHANGED <<row, stuck>>
           \/ row = "PROCESSING" /\ stuck /\ row' = "PENDING" /\ stuck' = FALSE
    BY <1>3 DEF PollRecover, PollerTo, nodeVars
  <2>2. RowInv'
    BY <1>1, <1>2, <2>1 DEF RowInv, Complete, Unheard, Handled
  <2>3. PollInv'
    BY <1>1, <1>2, <2>1 DEF PollInv, Types
  <2>4. OnceInv'
    BY <1>1, <1>2, <2>1 DEF OnceInv
  <2>. QED
    BY <1>1, <2>2, <2>3, <2>4 DEF Rest
<1>4. CASE PollClaim(n)
  <2>1. /\ poller[n] = "claiming" /\ poller' = [poller EXCEPT ![n] = "dispatching"]
        /\ row = "PENDING" /\ aged /\ ~Some /\ row' = "PROCESSING" /\ stuck' = FALSE
        /\ faults' = faults
    BY <1>4 DEF PollClaim, PollerTo, nodeVars, PollInv
  <2>2. \A m \in Nodes \ {n} : poller'[m] \notin {"claiming", "dispatching"}
    BY <2>1 DEF LockInv, Types
  <2>3. RowInv'
    BY <1>1, <1>2, <2>1 DEF RowInv, Complete, Unheard, Handled
  <2>4. PollInv'
    BY <1>1, <2>1, <2>2 DEF PollInv, Types
  <2>5. OnceInv'
    BY <2>1 DEF OnceInv
  <2>. QED
    BY <1>1, <2>3, <2>4, <2>5 DEF Rest
<1>5. CASE PollFetch(n)
  <2>1. /\ poller' = [poller EXCEPT ![n] = IF row = "PENDING" /\ aged THEN "claiming"
                                                                     ELSE "releasing"]
        /\ UNCHANGED <<row, stuck, faults>>
    BY <1>5 DEF PollFetch, PollerTo, rowVars, nodeVars
  <2>2. RowInv' /\ OnceInv'
    BY <1>1, <1>2, <2>1 DEF RowInv, Complete, Unheard, Handled, OnceInv
  <2>3. PollInv'
    BY <1>1, <1>2, <2>1 DEF PollInv, RowInv, Types
  <2>. QED
    BY <1>1, <2>2, <2>3 DEF Rest
<1>6. CASE \/ PollError(n) \/ PollUnreadable(n) \/ PollUnknownType(n) \/ PollRelease(n)
           \/ PollLock(n) \/ PollSkips(n) \/ Restart(n)
  <2>1. UNCHANGED <<row, stuck>> /\ (faults' = faults \/ faults' = faults + 1)
    BY <1>6 DEF PollError, PollUnreadable, PollUnknownType, PollRelease, PollLock, PollSkips,
                Restart, rowVars, nodeVars
  <2>2. PICK to \in {"idle", "fetching", "releasing"} : poller' = [poller EXCEPT ![n] = to]
    BY <1>6 DEF PollError, PollUnreadable, PollUnknownType, PollRelease, PollLock, PollSkips,
                Restart, PollerTo
  <2>3. RowInv'
    BY <1>1, <1>2, <2>1 DEF RowInv, Complete, Unheard, Handled
  <2>4. PollInv'
    BY <1>1, <1>2, <2>1, <2>2 DEF PollInv, Types
  <2>5. faults' = 0 => faults = 0
    BY <2>1 DEF Types
  <2>6. OnceInv'
    BY <1>1, <1>2, <2>1, <2>5 DEF OnceInv
  <2>. QED
    BY <1>1, <2>3, <2>4, <2>6 DEF Rest
<1>. QED
  BY <1>3, <1>4, <1>5, <1>6

-----------------------------------------------------------------------------
(* A dispatch, which begins when none is under way, and a crash. *)

LEMMA DispatchStarts ==
  ASSUME Types, ~Some, NEW n \in Nodes, NEW d \in Slots, Dispatch(n, d), written' = written
  PROVE  Some' /\ SlotsInv'
<1> USE DEF Types
<1>1. /\ slotNode' = [slotNode EXCEPT ![d] = n]
      /\ task' = [task EXCEPT ![d] = [l \in Listeners |-> "queued"]]
  BY DEF Dispatch
<1>2. \A e \in Slots : Active(e)' <=> e = d
  BY <1>1 DEF Some, Active
<1>3. \A l \in Listeners : task'[d][l] = "queued"
  BY <1>1
<1>4. Pending(d)' = Listeners /\ Ending(d)' = {}
  BY <1>3 DEF Pending, Ending
<1>5. written => counter'[d] = Cardinality(Listeners) /\ counterOf'[n] = d
  BY DEF Dispatch
<1>6. slotNode'[d] = n
  BY <1>1
<1>7. SlotInv(d)'
  BY <1>2, <1>3, <1>4, <1>5, <1>6 DEF SlotInv
<1>8. \A e \in Slots : SlotInv(e)'
  BY <1>2, <1>7 DEF SlotInv
<1>. QED
  BY <1>2, <1>8 DEF SlotsInv, Some

LEMMA DispatchSteps ==
  ASSUME IInv, NEW d \in Slots, PostCommit(d) \/ \E n \in Nodes : PollDispatch(n, d)
  PROVE  Rest'
<1> USE DEF IInv
<1>1. UNCHANGED <<written, row, aged, stuck, faults, executed, dropped>>
  BY DEF PostCommit, PollDispatch, rowVars, nodeVars, histVars
<1>2. CASE PostCommit(d)
  <2>1. /\ tx = "committed" /\ tx' = "dispatched" /\ ~Some /\ row \in {"none", "PENDING"} /\ ~aged
        /\ poller' = poller
    BY <1>2 DEF PostCommit, RowInv
  <2>2. Some' /\ SlotsInv'
    BY <1>1, <1>2, <2>1, DispatchStarts DEF PostCommit
  <2>3. RowInv'
    BY <1>1, <2>1 DEF RowInv, Complete, Unheard, Handled
  <2>4. PollInv'
    BY <1>1, <2>1 DEF PollInv
  <2>5. OnceInv'
    BY <1>1, <2>1, <2>2 DEF OnceInv
  <2>. QED
    BY <2>2, <2>3, <2>4, <2>5 DEF Rest
<1>3. ASSUME NEW n \in Nodes, PollDispatch(n, d) PROVE Rest'
  <2>1. /\ poller[n] = "dispatching" /\ poller' = [poller EXCEPT ![n] = "releasing"]
        /\ row = "PROCESSING" /\ ~stuck /\ ~Some /\ tx' = tx
    BY <1>3 DEF PollDispatch, PollerTo, PollInv
  <2>2. Some' /\ SlotsInv'
    BY <1>1, <1>3, <2>1, DispatchStarts DEF PollDispatch
  <2>3. \A m \in Nodes : poller'[m] \notin {"claiming", "dispatching"}
    BY <2>1 DEF LockInv, Types
  <2>4. RowInv'
    BY <1>1, <2>1 DEF RowInv, Complete, Unheard, Handled
  <2>5. PollInv'
    BY <2>3 DEF PollInv
  <2>6. OnceInv'
    BY <1>1, <2>1 DEF OnceInv
  <2>. QED
    BY <2>2, <2>4, <2>5, <2>6 DEF Rest
<1>. QED
  BY <1>2, <1>3

\* The hook of a replica without listeners ends a row that nobody works on.
LEMMA UnheardSteps ==
  ASSUME IInv, PostCommitUnheard \/ PostCommitError PROVE Rest'
<1> USE DEF IInv
<1>1. /\ tx = "committed" /\ tx' = "dispatched" /\ Home \notin knows /\ knows' = knows
      /\ UNCHANGED <<written, aged, poller, task, executed, dropped>> /\ UNCHANGED taskVars
  BY DEF PostCommitUnheard, PostCommitError, rowVars, confVars, taskVars, histVars
<1>2. (Some' <=> Some) /\ SlotsInv'
  BY <1>1, TasksSame
<1>3. ~Some /\ row \in {"none", "PENDING"} /\ ~aged /\ (~written => row = "none")
  BY <1>1 DEF RowInv
<1>4. \/ written /\ row' \in Complete /\ faults' = faults
      \/ ~written /\ row' = row /\ faults' = faults
      \/ row' = row /\ faults' = faults + 1
  BY DEF PostCommitUnheard, PostCommitError, Completed, Complete, rowVars, nodeVars
<1>5. Unheard'
  BY <1>1 DEF Unheard
<1>6. RowInv'
  BY <1>1, <1>2, <1>3, <1>4, <1>5 DEF RowInv, Complete
<1>7. \A n \in Nodes : poller[n] \notin {"claiming", "dispatching"}
  BY <1>3 DEF PollInv
<1>8. PollInv'
  BY <1>1, <1>7 DEF PollInv
<1>9. faults' = faults \/ faults' # 0
  BY <1>4 DEF Types
<1>10. faults' = 0 => row' \notin {"PENDING", "PROCESSING"}
  BY <1>3, <1>4, <1>9 DEF Complete, Types
<1>11. OnceInv'
  BY <1>1, <1>3, <1>9, <1>10 DEF OnceInv
<1>. QED
  BY <1>2, <1>6, <1>8, <1>11 DEF Rest

LEMMA CrashStep ==
  ASSUME IInv, NEW n \in Nodes, Crash(n) PROVE Rest'
<1> USE DEF IInv
<1>1. /\ UNCHANGED <<written, row, aged, stuck, slotNode, counter, read, executed, dropped>>
      /\ faults' = faults + 1
      /\ poller' = [poller EXCEPT ![n] = "off"]
      /\ counterOf' = [counterOf EXCEPT ![n] = Nil]
      /\ \A d \in Slots : task'[d] = IF slotNode[d] = n THEN [l \in Listeners |-> "none"] ELSE task[d]
  BY DEF Crash, rowVars, histVars
<1>2. /\ tx' = "open" => tx = "open"
      /\ tx' = "committed" => tx = "committed"
      /\ Unheard => Unheard'
  BY DEF Crash, Unheard, confVars
<1>3. faults' # 0
  BY <1>1 DEF Types
<1>4. \A d \in Slots : Active(d)' => Active(d) /\ slotNode[d] # n /\ task'[d] = task[d]
  BY <1>1 DEF Active
<1>5. Some' => Some
  BY <1>4 DEF Some
<1>6. RowInv'
  BY <1>1, <1>2, <1>5 DEF RowInv, Complete, Unheard, Handled
<1>7. PollInv'
  BY <1>1, <1>5 DEF PollInv, Types
<1>8. ASSUME NEW d \in Slots PROVE SlotInv(d)'
  <2> SUFFICES ASSUME Active(d)' PROVE SlotInv(d)'
    BY DEF SlotInv
  <2>1. Active(d) /\ slotNode[d] # n /\ task'[d] = task[d] /\ SlotInv(d)
    BY <1>4 DEF SlotsInv
  <2>2. Pending(d)' = Pending(d) /\ Ending(d)' = Ending(d)
    BY <2>1 DEF Pending, Ending
  <2>3. slotNode[d] \in Nodes
    BY <2>1 DEF Placed, Active
  <2>4. counterOf'[slotNode[d]] = counterOf[slotNode[d]]
    BY <1>1, <2>1, <2>3 DEF Types
  <2>5. \A e \in Slots : Active(e)' => e = d
    BY <1>4, <2>1 DEF SlotInv, Handled
  <2>. QED
    BY <1>1, <2>1, <2>2, <2>4, <2>5 DEF SlotInv, Handled
<1>9. OnceInv'
  BY <1>3 DEF OnceInv
<1>. QED
  BY <1>6, <1>7, <1>8, <1>9 DEF Rest, SlotsInv

-----------------------------------------------------------------------------
(* The steps of the tasks. *)

\* What a step of a task under way leaves as it is.
LEMMA Busy ==
  ASSUME IInv, NEW d \in Slots, NEW l \in Listeners, task[d][l] \notin {"none", "done"}
  PROVE  /\ Active(d) /\ SlotInv(d) /\ slotNode[d] \in Nodes
         /\ \A e \in Slots \ {d} : ~Active(e)
         /\ tx \notin {"open", "committed"} /\ row \notin Complete
         /\ ~(row = "PENDING" /\ aged) /\ ~(row = "PROCESSING" /\ stuck)
         /\ \A n \in Nodes : poller[n] \notin {"claiming", "dispatching"}
<1> USE DEF IInv
<1>1. Active(d) /\ Some
  BY DEF Active, Some
<1>2. SlotInv(d)
  BY DEF SlotsInv
<1>. QED
  BY <1>1, <1>2 DEF SlotInv, RowInv, PollInv, Placed

LEMMA TaskMoves ==
  ASSUME Types, NEW d \in Slots, NEW l \in Listeners, NEW from, NEW to, TaskTo(d, l, from, to)
  PROVE  /\ task'[d][l] = to
         /\ \A k \in Listeners \ {l} : task'[d][k] = task[d][k]
         /\ \A e \in Slots \ {d} : task'[e] = task[e]
BY DEF Types, TaskTo

LEMMA OthersIdle ==
  ASSUME Types, NEW d \in Slots, \A e \in Slots \ {d} : ~Active(e) /\ task'[e] = task[e]
  PROVE  /\ \A e \in Slots : Active(e)' => e = d
         /\ Some' <=> Active(d)'
         /\ SlotInv(d)' => SlotsInv'
<1>1. \A e \in Slots \ {d} : ~Active(e)'
  BY DEF Active
<1>. QED
  BY <1>1 DEF Some, SlotsInv, SlotInv

\* While the row and the ages stay, the rest follows from the dispatch.
LEMMA RowStays ==
  ASSUME IInv, NEW d \in Slots, NEW l \in Listeners, task[d][l] \notin {"none", "done"},
         UNCHANGED <<tx, written, row, aged, stuck, poller>>
  PROVE  RowInv' /\ PollInv'
<1>1. RowInv'
  BY Busy DEF IInv, RowInv, Complete
<1>2. PollInv'
  BY Busy DEF PollInv
<1>. QED
  BY <1>1, <1>2

LEMMA ListenerSteps ==
  ASSUME IInv, NEW d \in Slots, NEW l \in Listeners, RunListener(d, l) \/ DropListener(d, l)
  PROVE  Rest'
<1> USE DEF IInv
<1>1. /\ task[d][l] = "queued" /\ TaskTo(d, l, "queued", "ran")
      /\ UNCHANGED <<tx, written, row, aged, stuck, poller, faults, slotNode, counterOf, counter,
                     read>>
  BY DEF RunListener, DropListener, TaskTo, rowVars, nodeVars
<1>2. executed' = executed \/ executed' = [executed EXCEPT ![l] = IF @ < 2 THEN @ + 1 ELSE @]
  BY DEF RunListener, DropListener
<1>3. /\ Active(d) /\ SlotInv(d) /\ tx \notin {"open", "committed"}
      /\ \A e \in Slots \ {d} : ~Active(e)
  BY <1>1, Busy
<1>4. /\ task'[d][l] = "ran"
      /\ \A k \in Listeners \ {l} : task'[d][k] = task[d][k]
      /\ \A e \in Slots \ {d} : task'[e] = task[e]
  BY <1>1, TaskMoves
<1>5. Pending(d)' = Pending(d) /\ Ending(d)' = Ending(d)
  BY <1>1, <1>4 DEF Pending, Ending
<1>6. Active(d)' /\ \A e \in Slots : Active(e)' => e = d
  BY <1>3, <1>4, OthersIdle DEF Active
<1>7. SlotInv(d)'
  <2>1. Handled(l)' /\ \A k \in Listeners : Handled(k) => Handled(k)'
    <3>1. CASE RunListener(d, l)
      BY <3>1 DEF RunListener, Handled, Types
    <3>2. CASE DropListener(d, l)
      BY <3>2 DEF DropListener, Handled
    <3>. QED
      BY <3>1, <3>2
  <2>2. \A k \in Listeners : task'[d][k] # "queued" => Handled(k)'
    BY <1>3, <1>4, <2>1 DEF SlotInv, Handled
  <2>. QED
    BY <1>1, <1>3, <1>4, <1>5, <1>6, <2>2 DEF SlotInv, Handled
<1>8. Some' /\ SlotsInv'
  BY <1>3, <1>4, <1>6, <1>7, OthersIdle
<1>9. RowInv' /\ PollInv'
  BY <1>1, RowStays
<1>10. OnceInv'
  <2> SUFFICES ASSUME faults = 0 PROVE OnceInv'
    BY <1>1 DEF OnceInv
  <2>1. row # "PROCESSING" /\ ~aged /\ executed[l] = 0 /\ \A k \in Listeners : executed[k] <= 1
    BY <1>1 DEF OnceInv
  <2>2. \A k \in Listeners \ {l} : executed'[k] = executed[k]
    BY <1>2 DEF Types
  <2>3. executed'[l] <= 1
    BY <1>2, <2>1 DEF Types
  <2>4. ASSUME NEW e \in Slots, NEW k \in Listeners, task'[e][k] = "queued"
        PROVE  executed'[k] = 0
    <3>1. e = d
      BY <1>3, <1>4, <2>4 DEF Active
    <3>2. k # l /\ task[d][k] = "queued"
      BY <1>4, <2>4, <3>1
    <3>. QED
      BY <2>2, <3>2 DEF OnceInv
  <2>. QED
    BY <1>1, <1>3, <1>8, <2>1, <2>2, <2>3, <2>4 DEF OnceInv
<1>. QED
  BY <1>8, <1>9, <1>10 DEF Rest

\* No step of finishListener makes a listener run once more.
LEMMA StaysOnce ==
  ASSUME IInv, NEW d \in Slots, NEW l \in Listeners, task[d][l] \notin {"none", "done"},
         UNCHANGED <<tx, aged, executed>>,
         faults' = 0 => faults = 0,
         row' = row \/ row' \in Complete,
         row' = "PENDING" /\ faults' = 0 => Some',
         \A e \in Slots, k \in Listeners : task'[e][k] = "queued" => task[e][k] = "queued"
  PROVE  OnceInv'
<1>1. tx \notin {"open", "committed"}
  BY Busy
<1>. QED
  BY <1>1 DEF IInv, OnceInv, Complete

LEMMA ReadStep ==
  ASSUME IInv, NEW d \in Slots, NEW l \in Listeners, FinishRead(d, l) PROVE Rest'
<1> USE DEF IInv
<1> DEFINE c == IF written THEN counterOf[slotNode[d]] ELSE Nil
<1>1. /\ task[d][l] = "ran" /\ TaskTo(d, l, "ran", IF c = Nil THEN "done" ELSE "read")
      /\ read' = [read EXCEPT ![d][l] = c]
      /\ UNCHANGED <<tx, written, row, aged, stuck, poller, faults, slotNode, counterOf, counter,
                     executed, dropped>>
  BY DEF FinishRead, TaskTo, rowVars, nodeVars, histVars
<1>2. /\ Active(d) /\ SlotInv(d) /\ \A e \in Slots \ {d} : ~Active(e)
  BY <1>1, Busy
<1>3. /\ task'[d][l] = IF c = Nil THEN "done" ELSE "read"
      /\ \A k \in Listeners \ {l} : task'[d][k] = task[d][k]
      /\ \A e \in Slots \ {d} : task'[e] = task[e]
  <2> HIDE DEF c
  <2>. QED
    BY <1>1, TaskMoves
<1>4. RowInv' /\ PollInv'
  BY <1>1, RowStays
<1>5. \A e \in Slots, k \in Listeners : task'[e][k] = "queued" => task[e][k] = "queued"
  BY <1>3
<1>6. CASE written
  <2>1. l \in Pending(d)
    BY <1>1 DEF Pending
  <2>2. counterOf[slotNode[d]] = d /\ Ending(d) = {}
    BY <1>2, <1>6, <2>1 DEF SlotInv, Handled
  <2>3. c = d /\ d # Nil
    BY <1>6, <2>2
  <2>4. task'[d][l] = "read" /\ read'[d][l] = d
    BY <1>1, <1>3, <2>3 DEF Types
  <2>5. \A k \in Listeners \ {l} : read'[d][k] = read[d][k]
    BY <1>1 DEF Types
  <2>6. Pending(d)' = Pending(d) /\ Ending(d)' = Ending(d)
    BY <1>1, <1>3, <2>4 DEF Pending, Ending
  <2>7. Active(d)' /\ \A e \in Slots : Active(e)' => e = d
    BY <1>2, <1>3, <2>4, OthersIdle DEF Active
  <2>8. \A k \in Listeners : task'[d][k] = "read" => read'[d][k] = d
    BY <1>2, <1>3, <1>6, <2>4, <2>5 DEF SlotInv, Handled
  <2>9. SlotInv(d)'
    BY <1>1, <1>2, <1>3, <1>6, <2>2, <2>4, <2>6, <2>7, <2>8 DEF SlotInv, Handled
  <2>10. Some' /\ SlotsInv'
    BY <1>2, <1>3, <2>7, <2>9, OthersIdle
  <2>11. OnceInv'
    BY <1>1, <1>5, <2>10, StaysOnce
  <2>. QED
    BY <1>4, <2>10, <2>11 DEF Rest
<1>7. CASE ~written
  <2>1. task'[d][l] = "done"
    BY <1>3, <1>7
  <2>2. \A k \in Listeners : task'[d][k] \in {"queued", "ran", "done"}
    BY <1>2, <1>3, <1>7, <2>1 DEF SlotInv, Handled
  <2>3. \A e \in Slots : Active(e)' => e = d
    BY <1>2, <1>3, OthersIdle
  <2>4. SlotInv(d)'
    BY <1>1, <1>2, <1>3, <1>7, <2>1, <2>2, <2>3 DEF SlotInv, Handled
  <2>5. SlotsInv'
    BY <1>2, <1>3, <2>4, OthersIdle
  <2>6. row = "none"
    BY <1>7 DEF RowInv
  <2>7. OnceInv'
    BY <1>1, <1>5, <2>6, StaysOnce
  <2>. QED
    BY <1>4, <2>5, <2>7 DEF Rest
<1>. QED
  BY <1>6, <1>7

\* The one that takes the counter to zero is the last.
LEMMA CountStep ==
  ASSUME IInv, NEW d \in Slots, NEW l \in Listeners, FinishCount(d, l) PROVE Rest'
<1> USE DEF IInv
<1>1. /\ task[d][l] = "read"
      /\ UNCHANGED <<tx, written, row, aged, stuck, poller, faults, slotNode, counterOf,
                     read, executed, dropped>>
  BY DEF FinishCount, TaskTo, rowVars, nodeVars, histVars
<1>2. /\ Active(d) /\ SlotInv(d) /\ \A e \in Slots \ {d} : ~Active(e)
  BY <1>1, Busy
<1>3. written /\ l \in Pending(d)
  BY <1>1, <1>2 DEF SlotInv, Pending
<1>4. /\ read[d][l] = d /\ Ending(d) = {} /\ counterOf[slotNode[d]] = d
      /\ counter[d] = Cardinality(Pending(d))
  BY <1>1, <1>2, <1>3 DEF SlotInv, Handled
<1>5. /\ TaskTo(d, l, "read", IF counter[d] <= 1 THEN "zero" ELSE "done")
      /\ counter' = [counter EXCEPT ![d] = @ - 1]
  BY <1>4 DEF FinishCount
<1> DEFINE to == IF counter[d] <= 1 THEN "zero" ELSE "done"
<1>6. /\ task'[d][l] = to
      /\ \A k \in Listeners \ {l} : task'[d][k] = task[d][k]
      /\ \A e \in Slots \ {d} : task'[e] = task[e]
  <2> HIDE DEF to
  <2>1. TaskTo(d, l, "read", to)
    BY <1>5 DEF to
  <2>. QED
    BY <2>1, TaskMoves
<1>7. Pending(d)' = Pending(d) \ {l}
  BY <1>6 DEF Pending
<1>8. /\ IsFiniteSet(Pending(d)) /\ IsFiniteSet(Pending(d)')
      /\ Cardinality(Pending(d)') = Cardinality(Pending(d)) - 1
      /\ Cardinality(Pending(d)) \in Nat /\ Cardinality(Pending(d)') \in Nat
  <2>1. IsFiniteSet(Pending(d))
    BY FS_Subset DEF Pending
  <2>. QED
    BY <1>3, <1>7, <2>1, FS_RemoveElement, FS_CardinalityType
<1>9. counter'[d] = Cardinality(Pending(d)')
  BY <1>4, <1>5, <1>8 DEF Types
<1>10. RowInv' /\ PollInv'
  BY <1>1, RowStays
<1>11. \A e \in Slots, k \in Listeners : task'[e][k] = "queued" => task[e][k] = "queued"
  BY <1>6
<1>12. \A e \in Slots : Active(e)' => e = d
  BY <1>2, <1>6, OthersIdle
<1>13. CASE counter[d] <= 1
  <2>1. Pending(d)' = {}
    <3>1. Cardinality(Pending(d)') = 0
      BY <1>4, <1>8, <1>13
    <3>. QED
      BY <1>8, <3>1, FS_EmptySet
  <2>2. task'[d][l] = "zero"
    BY <1>6, <1>13
  <2>3. Ending(d)' = {l}
    BY <1>4, <1>6, <2>2 DEF Ending
  <2>4. Active(d)'
    BY <2>2 DEF Active
  <2>5. SlotInv(d)'
    BY <1>1, <1>2, <1>3, <1>6, <1>9, <1>12, <2>1, <2>2, <2>3 DEF SlotInv, Handled
  <2>6. Some' /\ SlotsInv'
    BY <1>2, <1>6, <2>4, <2>5, OthersIdle
  <2>7. OnceInv'
    BY <1>1, <1>11, <2>6, StaysOnce
  <2>. QED
    BY <1>10, <2>6, <2>7 DEF Rest
<1>14. CASE ~(counter[d] <= 1)
  <2>1. Pending(d)' # {}
    <3>1. Cardinality(Pending(d)') # 0
      BY <1>4, <1>8, <1>14
    <3>. QED
      BY <3>1, FS_EmptySet
  <2>2. task'[d][l] = "done"
    BY <1>6, <1>14
  <2>3. Ending(d)' = {}
    BY <1>4, <1>6, <2>2 DEF Ending
  <2>4. Active(d)'
    BY <2>1 DEF Active, Pending
  <2>5. SlotInv(d)'
    BY <1>1, <1>2, <1>3, <1>4, <1>6, <1>9, <1>12, <2>2, <2>3 DEF SlotInv, Handled
  <2>6. Some' /\ SlotsInv'
    BY <1>2, <1>6, <2>4, <2>5, OthersIdle
  <2>7. OnceInv'
    BY <1>1, <1>11, <2>6, StaysOnce
  <2>. QED
    BY <1>10, <2>6, <2>7 DEF Rest
<1>. QED
  BY <1>13, <1>14

LEMMA ForgetStep ==
  ASSUME IInv, NEW d \in Slots, NEW l \in Listeners, FinishForget(d, l) PROVE Rest'
<1> USE DEF IInv
<1>1. /\ task[d][l] = "zero" /\ TaskTo(d, l, "zero", "completing")
      /\ UNCHANGED <<tx, written, row, aged, stuck, poller, faults, slotNode, counter,
                     read, executed, dropped>>
  BY DEF FinishForget, TaskTo, rowVars, nodeVars, histVars
<1>2. /\ Active(d) /\ SlotInv(d) /\ \A e \in Slots \ {d} : ~Active(e)
  BY <1>1, Busy
<1>3. written /\ l \in Ending(d)
  BY <1>1, <1>2 DEF SlotInv, Ending
<1>4. Pending(d) = {}
  BY <1>2, <1>3 DEF SlotInv, Handled
<1>5. /\ task'[d][l] = "completing"
      /\ \A k \in Listeners \ {l} : task'[d][k] = task[d][k]
      /\ \A e \in Slots \ {d} : task'[e] = task[e]
  BY <1>1, TaskMoves
<1>6. Pending(d)' = Pending(d) /\ Ending(d)' = Ending(d)
  BY <1>1, <1>5 DEF Pending, Ending
<1>7. Active(d)' /\ \A e \in Slots : Active(e)' => e = d
  BY <1>2, <1>5, OthersIdle DEF Active
<1>8. SlotInv(d)'
  BY <1>1, <1>2, <1>3, <1>4, <1>5, <1>6, <1>7 DEF SlotInv, Handled
<1>9. Some' /\ SlotsInv'
  BY <1>2, <1>5, <1>7, <1>8, OthersIdle
<1>10. RowInv' /\ PollInv'
  BY <1>1, RowStays
<1>11. \A e \in Slots, k \in Listeners : task'[e][k] = "queued" => task[e][k] = "queued"
  BY <1>5
<1>12. OnceInv'
  BY <1>1, <1>9, <1>11, StaysOnce
<1>. QED
  BY <1>9, <1>10, <1>12 DEF Rest

\* completeOutboxEvent is called when every listener is through.
LEMMA CompleteSteps ==
  ASSUME IInv, NEW d \in Slots, NEW l \in Listeners,
         CompleteOutboxEvent(d, l) \/ CompleteError(d, l)
  PROVE  Rest'
<1> USE DEF IInv
<1>1. /\ task[d][l] = "completing" /\ TaskTo(d, l, "completing", "done")
      /\ UNCHANGED <<tx, written, aged, poller, executed, dropped>>
      /\ \/ row' \in Complete /\ faults' = faults
         \/ UNCHANGED <<row, stuck>> /\ faults' = faults + 1
  BY DEF CompleteOutboxEvent, CompleteError, Completed, TaskTo, rowVars, nodeVars, histVars,
         Complete
<1>2. /\ Active(d) /\ SlotInv(d) /\ \A e \in Slots \ {d} : ~Active(e)
      /\ tx \notin {"open", "committed"}
      /\ \A n \in Nodes : poller[n] \notin {"claiming", "dispatching"}
  BY <1>1, Busy
<1>3. written /\ l \in Ending(d)
  BY <1>1, <1>2 DEF SlotInv, Ending
<1>4. Pending(d) = {} /\ Ending(d) = {l}
  BY <1>2, <1>3 DEF SlotInv, Handled
<1>5. \A k \in Listeners \ {l} : task[d][k] = "done"
  <2> SUFFICES ASSUME NEW k \in Listeners \ {l} PROVE task[d][k] = "done"
    OBVIOUS
  <2>1. task[d][k] \notin {"queued", "ran", "read", "zero", "completing", "none"}
    BY <1>2, <1>4 DEF Pending, Ending, SlotInv
  <2>. QED
    BY <2>1 DEF Types, TaskStates
<1>6. \A k \in Listeners : Handled(k)
  <2>1. \A k \in Listeners : task[d][k] # "queued"
    BY <1>1, <1>5
  <2>. QED
    BY <1>2, <2>1 DEF SlotInv, Handled
<1>7. /\ task'[d][l] = "done"
      /\ \A k \in Listeners \ {l} : task'[d][k] = task[d][k]
      /\ \A e \in Slots \ {d} : task'[e] = task[e]
  BY <1>1, TaskMoves
<1>8. ~Active(d)'
  BY <1>5, <1>7 DEF Active
<1>9. ~Some' /\ SlotsInv'
  BY <1>2, <1>7, <1>8, OthersIdle DEF SlotInv
<1>10. row' = row \/ row' \in Complete
  BY <1>1
<1>11. RowInv'
  BY <1>1, <1>2, <1>3, <1>6, <1>9 DEF RowInv, Complete, Unheard, Handled
<1>12. PollInv'
  BY <1>1, <1>2 DEF PollInv
<1>13. faults' = faults \/ faults' # 0
  BY <1>1 DEF Types
<1>14. \A e \in Slots, k \in Listeners : task'[e][k] = "queued" => task[e][k] = "queued"
  BY <1>7
<1>15. ~(row' = "PENDING" /\ faults' = 0)
  BY <1>1, <1>13 DEF Complete, Types
<1>16. OnceInv'
  BY <1>1, <1>10, <1>13, <1>14, <1>15, StaysOnce
<1>. QED
  BY <1>9, <1>11, <1>12, <1>16 DEF Rest

-----------------------------------------------------------------------------
(* The theorems. *)

LEMMA RestNext == Timely /\ IInv /\ [Next]_vars => Rest'
<1> SUFFICES ASSUME Timely, IInv, [Next]_vars PROVE Rest'
  OBVIOUS
<1>1. ASSUME NEW n \in Nodes,
             PollStep(n) \/ PollLock(n) \/ PollSkips(n) \/ Crash(n) \/ Restart(n)
      PROVE  Rest'
  BY <1>1, PollerSteps, DispatchSteps, CrashStep DEF PollStep
<1>2. ASSUME NEW d \in Slots, NEW l \in Listeners, TaskStep(d, l) PROVE Rest'
  BY <1>2, ListenerSteps, ReadStep, CountStep, ForgetStep, CompleteSteps DEF TaskStep, FinishStep
<1>3. CASE UNCHANGED vars
  <2>1. (Some' <=> Some) /\ SlotsInv'
    BY <1>3, TasksSame DEF vars, histVars, IInv
  <2>. QED
    BY <1>3, <2>1 DEF IInv, Rest, RowInv, PollInv, OnceInv, Unheard, Handled, vars, confVars,
                      rowVars, nodeVars, taskVars, histVars
<1>. QED
  BY <1>1, <1>2, <1>3, TimePasses, TxSteps, DispatchSteps, UnheardSteps DEF Next, Hook

LEMMA IInvCorrect == ASSUME Timely PROVE Spec => []IInv
<1>1. IInv /\ [Next]_vars => IInv'
  BY TypesNext, PlacedNext, LockNext, RestNext DEF IInv, Rest
<1>. QED
  BY InitIInv, <1>1, PTL DEF Spec

\* However many replicas crash and statements fail, the row of an event is
\* PROCESSED or deleted only when every listener was run or discarded
\* (finishListener, completeOutboxEvent), unless the replica that published the
\* event had no listener and completed the row at once (dispatch).
THEOREM CompletedRowsWereHandled == ASSUME Timely PROVE Spec => []CompletedMeansHandled
<1>1. IInv => CompletedMeansHandled
  BY DEF IInv, RowInv, CompletedMeansHandled
<1>. QED
  BY <1>1, IInvCorrect, PTL

\* As long as nothing crashes and no statement fails, the post-commit hook and
\* the pollers of all replicas run each listener at most once (claimEvents).
THEOREM AtMostOnce == ASSUME Timely PROVE Spec => []NoDoubleExecution
<1>1. IInv => NoDoubleExecution
  BY DEF IInv, OnceInv, NoDoubleExecution
<1>. QED
  BY <1>1, IInvCorrect, PTL

\* No poller takes a completed row up again, and no failure brings it back.
THEOREM CompletedRowsStay == ASSUME Timely PROVE Spec => CompletedIsFinal
<1>1. IInv /\ [Next]_vars => [(row \in Complete) => (row' = row)]_vars
  <2> SUFFICES ASSUME IInv, Next, row \in Complete PROVE row' = row
    OBVIOUS
  <2> USE DEF IInv, Complete
  <2>1. ~Some /\ tx \notin {"open", "committed"} /\ \A n \in Nodes : poller[n] # "claiming"
    BY DEF RowInv, PollInv
  <2>2. ASSUME NEW d \in Slots, NEW l \in Listeners, TaskStep(d, l) PROVE row' = row
    <3>1. ~Active(d)
      BY <2>1 DEF Some
    <3>. QED
      BY <2>2, <3>1 DEF TaskStep, FinishStep, RunListener, DropListener, FinishRead, FinishCount,
                        FinishForget, CompleteOutboxEvent, CompleteError, TaskTo, Active
  <2>3. ASSUME NEW n \in Nodes,
               PollStep(n) \/ PollLock(n) \/ PollSkips(n) \/ Crash(n) \/ Restart(n)
        PROVE  row' = row
    BY <2>1, <2>3 DEF PollStep, PollRecover, PollFetch, PollClaim, PollError, PollDispatch,
                      PollUnreadable, PollUnknownType, PollRelease, PollLock, PollSkips, Crash,
                      Restart, PollerTo,
                      rowVars
  <2>4. CASE PublishInTx \/ Commit \/ Rollback \/ Hook \/ Ages \/ GetsStuck \/ LockExpires
    BY <2>1, <2>4 DEF PublishInTx, Commit, Rollback, Hook, PostCommit, PostCommitUnheard,
                      PostCommitError, Ages, GetsStuck, LockExpires,
                      rowVars
  <2>. QED
    BY <2>2, <2>3, <2>4 DEF Next
<1>. QED
  BY <1>1, IInvCorrect, PTL DEF Spec, CompletedIsFinal
=============================================================================
