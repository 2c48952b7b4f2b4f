--------------------------------- MODULE DLQ ---------------------------------
(***************************************************************************)
(* The life of one row of the dead letter queue, springo_failed_events:    *)
(* the retry jobs of the replicas (framework/event/retry_manager.go,       *)
(* ProcessDLQ), retries and purges asked for over the actuator             *)
(* (framework/web/actuator_handlers.go), and crashes.                      *)
(*                                                                         *)
(* due is "next_retry_at has come", stale is "not updated for 5 minutes".  *)
(* Timely says that no retry takes so long that its row gets stale.        *)
(* A retry runs the listeners of the event in line and either succeeds or  *)
(* fails; which listeners those are is left out.                           *)
(***************************************************************************)
EXTENDS Naturals

CONSTANTS
  Workers,     \* replicas running the retry job
  Manuals,     \* retry requests to the actuator
  MaxRetries,  \* props.DLQ.MaxRetries
  MaxFaults,   \* bound on crashes and failed statements
  Timely,
  Gone         \* the row is deleted

ASSUME DLQAssumption ==
  /\ Workers \cap Manuals = {}
  /\ MaxRetries \in Nat /\ MaxFaults \in Nat
  /\ Timely \in BOOLEAN
  /\ Gone \notin [status : {"PENDING", "FAILED", "RETRYING"}, retries : Nat,
                  due : BOOLEAN, stale : BOOLEAN]

VARIABLES
  row,
  pc,        \* per worker or manual retry
  snapshot,  \* per worker: Retries of the FailedEventEntity it has loaded
  faults,
  recovered, \* history: a successful retry has deleted the row
  attempts   \* history: retries begun by workers, up to MaxRetries + 1

vars == <<row, pc, snapshot, faults, recovered, attempts>>

Actors == Workers \cup Manuals

Row == [status : {"PENDING", "FAILED", "RETRYING"}, retries : Nat,
        due : BOOLEAN, stale : BOOLEAN]

Executing(a) == pc[a] \in {"executing", "succeeded", "failed"}

TypeOK ==
  /\ row \in Row \cup {Gone}
  /\ pc \in [Actors ->
       {"idle", "scanning", "selected", "executing", "succeeded", "failed", "returned"}]
  /\ snapshot \in [Workers -> Nat]
  /\ faults \in 0..MaxFaults
  /\ recovered \in BOOLEAN
  /\ attempts \in 0..(MaxRetries + 1)
  /\ row # Gone /\ row.status = "PENDING" => row.retries = 0

\* handleFailure has stored the failure; its first retry need not wait.
Init ==
  /\ row = [status |-> "PENDING", retries |-> 0, due |-> FALSE, stale |-> FALSE]
  /\ pc = [a \in Actors |-> "idle"]
  /\ snapshot = [w \in Workers |-> 0]
  /\ faults = 0
  /\ recovered = FALSE
  /\ attempts = 0

Goto(a, from, to) == pc[a] = from /\ pc' = [pc EXCEPT ![a] = to]

\* A worker is ready for its next round, a request is answered.
Home(a) == IF a \in Workers THEN "idle" ELSE "returned"

-----------------------------------------------------------------------------
(* Time *)

GetsDue ==
  /\ row # Gone /\ ~row.due
  /\ row' = [row EXCEPT !.due = TRUE]
  /\ UNCHANGED <<pc, snapshot, faults, recovered, attempts>>

GetsStale ==
  /\ row # Gone /\ row.status = "RETRYING" /\ ~row.stale
  /\ Timely => \A a \in Actors : ~Executing(a)
  /\ row' = [row EXCEPT !.stale = TRUE]
  /\ UNCHANGED <<pc, snapshot, faults, recovered, attempts>>

-----------------------------------------------------------------------------
(* ProcessDLQ *)

\* Looking for work without recovering what crashed workers have left.
ScanOnly(w) ==
  /\ Goto(w, "idle", "scanning")
  /\ UNCHANGED <<row, snapshot, faults, recovered, attempts>>

\* RETRYING and stale: back to FAILED.
RecoverStale(w) ==
  /\ Goto(w, "idle", "scanning")
  /\ row' = IF row # Gone /\ row.status = "RETRYING" /\ row.stale
              THEN [row EXCEPT !.status = "FAILED", !.stale = FALSE] ELSE row
  /\ UNCHANGED <<snapshot, faults, recovered, attempts>>

Eligible ==
  /\ row # Gone
  /\ row.status \in {"PENDING", "FAILED"}
  /\ row.retries < MaxRetries
  /\ row.due \/ row.retries = 0

\* The SELECT: the worker keeps a copy of the row, or finds nothing to do.
Select(w) ==
  /\ Goto(w, "scanning", IF Eligible THEN "selected" ELSE "idle")
  /\ snapshot' = [snapshot EXCEPT ![w] = IF Eligible THEN row.retries ELSE @]
  /\ UNCHANGED <<row, faults, recovered, attempts>>

Claimed(r, due) ==
  [status |-> "RETRYING", retries |-> r.retries + 1, due |-> due, stale |-> FALSE]

\* updateRetryState claiming without the status in its WHERE clause.
ClaimUnchecked(w) ==
  /\ Goto(w, "selected", IF row # Gone THEN "executing" ELSE "idle")
  /\ IF row # Gone
       THEN /\ row' = Claimed(row, FALSE)
            /\ snapshot' = [snapshot EXCEPT ![w] = @ + 1]
            /\ attempts' = IF attempts <= MaxRetries THEN attempts + 1 ELSE attempts
       ELSE UNCHANGED <<row, snapshot, attempts>>
  /\ UNCHANGED <<faults, recovered>>

\* updateRetryState: UPDATE ... WHERE status IN ('PENDING', 'FAILED').
Claim(w) ==
  LET won == row # Gone /\ row.status \in {"PENDING", "FAILED"} IN
  /\ Goto(w, "selected", IF won THEN "executing" ELSE "idle")
  /\ IF won
       THEN /\ row' = Claimed(row, FALSE)
            /\ snapshot' = [snapshot EXCEPT ![w] = @ + 1]
            /\ attempts' = IF attempts <= MaxRetries THEN attempts + 1 ELSE attempts
       ELSE UNCHANGED <<row, snapshot, attempts>>
  /\ UNCHANGED <<faults, recovered>>

\* db.Save(&fe) writes every column of the worker's copy, and inserts the row
\* if it is not there; next_retry_at of the copy may have come by now.
SaveFailure(w) ==
  /\ Goto(w, "failed", "idle")
  /\ \E due \in BOOLEAN :
       row' = [status |-> "FAILED", retries |-> snapshot[w], due |-> due, stale |-> FALSE]
  /\ UNCHANGED <<snapshot, faults, recovered, attempts>>

-----------------------------------------------------------------------------
(* handleActuatorDlqRetry, executeDlqRetry and handleActuatorDlqPurge *)

\* The SELECT of the event's name and payload.
ManualSelect(m) ==
  /\ Goto(m, "idle", IF row = Gone THEN "returned" ELSE "selected")
  /\ UNCHANGED <<row, snapshot, faults, recovered, attempts>>

\* UPDATE ... WHERE status != 'RETRYING'; next_retry_at stays.
ManualClaim(m) ==
  LET won == row # Gone /\ row.status # "RETRYING" IN
  /\ m \in Manuals
  /\ Goto(m, "selected", IF won THEN "executing" ELSE "returned")
  /\ row' = IF won THEN Claimed(row, row.due) ELSE row
  /\ UNCHANGED <<snapshot, faults, recovered, attempts>>

\* UPDATE ... SET status = 'FAILED'
ManualFailure(m) ==
  /\ m \in Manuals
  /\ Goto(m, "failed", "returned")
  /\ row' = IF row = Gone THEN row ELSE [row EXCEPT !.status = "FAILED"]
  /\ UNCHANGED <<snapshot, faults, recovered, attempts>>

Purge ==
  /\ row # Gone
  /\ row' = Gone
  /\ UNCHANGED <<pc, snapshot, faults, recovered, attempts>>

-----------------------------------------------------------------------------
(* What both kinds of retry do. *)

\* executeRedispatchHandlers returns.
Executed(a) ==
  /\ pc[a] = "executing"
  /\ \E outcome \in {"succeeded", "failed"} : pc' = [pc EXCEPT ![a] = outcome]
  /\ UNCHANGED <<row, snapshot, faults, recovered, attempts>>

\* DELETE ... WHERE id
DeleteRecovered(a) ==
  /\ Goto(a, "succeeded", Home(a))
  /\ row' = Gone
  /\ recovered' = TRUE
  /\ UNCHANGED <<snapshot, faults, attempts>>

\* The final statement fails (its error is ignored), or the process dies.
Fault(a) ==
  /\ Executing(a)
  /\ faults < MaxFaults
  /\ faults' = faults + 1
  /\ pc' = [pc EXCEPT ![a] = Home(a)]
  /\ UNCHANGED <<row, snapshot, recovered, attempts>>

-----------------------------------------------------------------------------
Finish(a) == Executed(a) \/ DeleteRecovered(a)
WorkerStep(w) == RecoverStale(w) \/ Select(w) \/ Claim(w) \/ SaveFailure(w) \/ Finish(w)
ManualStep(m) == ManualClaim(m) \/ ManualFailure(m) \/ Finish(m)

Next ==
  \/ GetsDue \/ GetsStale \/ Purge
  \/ \E w \in Workers : WorkerStep(w)
  \/ \E m \in Manuals : ManualSelect(m) \/ ManualStep(m)
  \/ \E a \in Actors : Fault(a)

Spec == Init /\ [][Next]_vars

\* The retry job is run again and again, requests are served, time passes.
Fairness ==
  /\ \A w \in Workers : WF_vars(WorkerStep(w))
  /\ \A m \in Manuals : WF_vars(ManualStep(m))
  /\ WF_vars(GetsDue) /\ WF_vars(GetsStale)

FairSpec == Spec /\ Fairness

-----------------------------------------------------------------------------
(* Properties *)

\* The status column is a lock: as long as no retry outlives it, no two
\* retries of one event are under way at a time, automatic or manual, purges,
\* re-inserted rows and crashes included.
OneRetryAtATime ==
  Timely => \A a, b \in Actors : Executing(a) /\ Executing(b) => a = b

\* An event that a retry has recovered and removed never comes back into the
\* queue: no worker saves an old copy of it.
RecoveredStaysRecovered == Timely /\ recovered => row = Gone

\* Nobody is stuck in RETRYING: the retry ends, or a worker finds it stale.
RetryEnds == (row # Gone /\ row.status = "RETRYING") ~> (row = Gone \/ row.status # "RETRYING")
=============================================================================
