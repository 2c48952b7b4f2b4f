------------------------------ MODULE ShedLock ------------------------------
(***************************************************************************)
(* The distributed lock of the scheduler (framework/scheduler/manager.go,  *)
(* executeWithLock and what it calls): the row of one job in               *)
(* springo_shedlock, taken and given back by the runs of that job on       *)
(* several pods.                                                           *)
(*                                                                         *)
(* A run is one call of executeWithLock.  Host[r] is the instanceID its    *)
(* process writes to locked_by: the host name.  Time is the wall clock the *)
(* pods share; the code uses each pod's own, so clock skew is left out.    *)
(***************************************************************************)
EXTENDS Integers

CONSTANTS
  Runs, Hosts,
  Host,         \* [Runs -> Hosts]
  AtMost,       \* lock-at-most-for
  AtLeast,      \* lock-at-least-for
  Overlapping,  \* a host may start a run while another of its runs is active
  MaxTime,      \* bound on the clock
  NoRow

ASSUME LockAssumption ==
  /\ Host \in [Runs -> Hosts]
  /\ AtMost \in Nat /\ AtLeast \in Nat /\ MaxTime \in Nat
  /\ Overlapping \in BOOLEAN
  /\ NoRow \notin [until : Int, by : Hosts]

VARIABLES
  now,     \* time.Now()
  row,     \* the lock record, or NoRow
  pc,      \* where each run is
  start    \* the "now" a run read on entry to executeWithLock

lockVars == <<now, row, pc, start>>

Row == [until : Int, by : Hosts]
Terminal == {"done", "skipped", "crashed"}
RunStates == Terminal \cup {"idle", "begun", "create", "update", "running", "release"}

TypeOK ==
  /\ now \in Nat
  /\ row \in Row \cup {NoRow}
  /\ pc \in [Runs -> RunStates]
  /\ start \in [Runs -> Nat]
  /\ \A r \in Runs : pc[r] = "update" => row # NoRow

LockInit ==
  /\ now = 0
  /\ row = NoRow
  /\ pc = [r \in Runs |-> "idle"]
  /\ start = [r \in Runs |-> 0]

Goto(r, from, to) == pc[r] = from /\ pc' = [pc EXCEPT ![r] = to]

Active(r) == pc[r] \notin Terminal \cup {"idle"}

-----------------------------------------------------------------------------
\* executeWithLock: read the clock.  A fixed-rate or fixed-delay loop runs its
\* job in line; a cron entry starts a goroutine whatever its last run does.
Begin(r) ==
  /\ Goto(r, "idle", "begun")
  /\ Overlapping \/ \A s \in Runs : Host[s] = Host[r] => ~Active(s)
  /\ start' = [start EXCEPT ![r] = now]
  /\ UNCHANGED <<now, row>>

\* Taking "record not found" for an expired lock.
SelectBlind(r) ==
  /\ pc[r] = "begun"
  /\ pc' = [pc EXCEPT ![r] = IF row # NoRow /\ row.until > start[r] THEN "skipped" ELSE "update"]
  /\ UNCHANGED <<now, row, start>>

\* acquireTxHelper.execute: SELECT the row; not found, expired, or held.
Select(r) ==
  /\ pc[r] = "begun"
  /\ pc' = [pc EXCEPT ![r] = IF row = NoRow THEN "create"
                             ELSE IF row.until <= start[r] THEN "update" ELSE "skipped"]
  /\ UNCHANGED <<now, row, start>>

\* Adding one duration to the other.
LockPadded(r) == [until |-> start[r] + AtMost + AtLeast, by |-> Host[r]]

\* The record a run writes: ShedLockEntity, or the columns of the UPDATE.
Lock(r) == [until |-> start[r] + AtMost, by |-> Host[r]]

\* handleNotFound: INSERT, which the primary key refuses if the row exists by now.
Create(r) ==
  /\ pc[r] = "create"
  /\ IF row = NoRow THEN row' = Lock(r) /\ pc' = [pc EXCEPT ![r] = "running"]
                    ELSE pc' = [pc EXCEPT ![r] = "skipped"] /\ UNCHANGED row
  /\ UNCHANGED <<now, start>>

\* UPDATE without repeating the lock_until test in its WHERE clause.
UpdateUnconditionally(r) ==
  /\ pc[r] = "update"
  /\ row' = Lock(r)
  /\ pc' = [pc EXCEPT ![r] = "running"]
  /\ UNCHANGED <<now, start>>

\* updateExpiredLock: UPDATE ... WHERE lock_until <= now
Update(r) ==
  /\ pc[r] = "update"
  /\ IF row.until <= start[r]
       THEN row' = Lock(r) /\ pc' = [pc EXCEPT ![r] = "running"]
       ELSE pc' = [pc EXCEPT ![r] = "skipped"] /\ UNCHANGED row
  /\ UNCHANGED <<now, start>>

\* A statement or the commit fails: nothing is written, the run ends.
DbError(r) ==
  /\ pc[r] \in {"begun", "create", "update"}
  /\ pc' = [pc EXCEPT ![r] = "skipped"]
  /\ UNCHANGED <<now, row, start>>

\* The job returns, fails or panics (executeWithRecover).
Finish(r) ==
  /\ Goto(r, "running", "release")
  /\ UNCHANGED <<now, row, start>>

\* calculateReleaseTime: now, but not before lock-at-least-for is over.
ReleaseTime(r) == IF now < start[r] + AtLeast THEN start[r] + AtLeast ELSE now

\* Releasing at once, lock-at-least-for forgotten.
ReleaseNow(r) ==
  /\ Goto(r, "release", "done")
  /\ row' = IF row # NoRow /\ row.by = Host[r] THEN [row EXCEPT !.until = now] ELSE row
  /\ UNCHANGED <<now, start>>

\* releaseShedLock: UPDATE ... WHERE locked_by = instanceID
Release(r) ==
  /\ Goto(r, "release", "done")
  /\ row' = IF row # NoRow /\ row.by = Host[r]
              THEN [row EXCEPT !.until = ReleaseTime(r)] ELSE row
  /\ UNCHANGED <<now, start>>

\* The release fails; the error is only logged.
ReleaseError(r) ==
  /\ Goto(r, "release", "done")
  /\ UNCHANGED <<now, row, start>>

Crash(r) ==
  /\ Active(r)
  /\ pc' = [pc EXCEPT ![r] = "crashed"]
  /\ UNCHANGED <<now, row, start>>

Tick ==
  /\ now < MaxTime
  /\ now' = now + 1
  /\ UNCHANGED <<row, pc, start>>

RunStep(r) ==
  \/ Begin(r) \/ Select(r) \/ Create(r) \/ Update(r) \/ DbError(r)
  \/ Finish(r) \/ Release(r) \/ ReleaseError(r) \/ Crash(r)

LockNext == Tick \/ \E r \in Runs : RunStep(r)

LockSpec == LockInit /\ [][LockNext]_lockVars

-----------------------------------------------------------------------------
(* Properties *)

Unexpired(r) == now < start[r] + AtMost

\* Runs executing the job under a lease that has not run out.
LeaseHolders == {r \in Runs : pc[r] = "running" /\ Unexpired(r)}

\* The lock implements the abstract lease: runs take it one after the other.
L == INSTANCE Lease WITH Contenders <- Runs, holders <- LeaseHolders
LeaseSpec == L!Spec

\* "exactly one pod executes the task at any time"
\* (docs/tutorials/13_distributed_scheduler_and_shedlock.md), as far as the
\* documented lock-at-most-for allows it: two hosts never both execute the
\* job within their leases.
OnePodAtATime ==
  \A r, s \in LeaseHolders : Host[r] = Host[s]

\* Two runs that got the lock began at least lock-at-least-for apart (or
\* lock-at-most-for, should that be shorter and the first one have crashed),
\* so a job that finishes in no time is not run again by a pod that is late.
Acquired(r) == pc[r] \in {"running", "release", "done"}
AtLeastHonoured ==
  \A r, s \in Runs :
    r # s /\ Acquired(r) /\ Acquired(s) =>
      \/ start[s] >= start[r] + AtLeast \/ start[s] >= start[r] + AtMost
      \/ start[r] >= start[s] + AtLeast \/ start[r] >= start[s] + AtMost

\* A lock always runs out by itself: whatever crashes, the row never reaches
\* further into the future than the longer of the two durations.
LockRunsOut ==
  row # NoRow => row.until <= now + AtMost \/ row.until <= now + AtLeast
=============================================================================
