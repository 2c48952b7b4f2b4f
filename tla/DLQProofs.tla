------------------------------ MODULE DLQProofs ------------------------------
(***************************************************************************)
(* Proofs about DLQ for any number of replicas, requests and retries: the  *)
(* status column keeps retries of one event apart, and what a retry has    *)
(* recovered never comes back.                                             *)
(*                                                                         *)
(* Both follow from Owned: as long as someone retries the event, its row,  *)
(* if there is one, says RETRYING and is not stale.  So nobody can claim   *)
(* it, and RecoverStale leaves it alone.                                   *)
(***************************************************************************)
EXTENDS DLQ, TLAPS

USE DLQAssumption DEF Row, Actors

Owned ==
  \A a \in Actors : Executing(a) /\ row # Gone => row.status = "RETRYING" /\ ~row.stale

AtMostOne == \A a, b \in Actors : Executing(a) /\ Executing(b) => a = b

RecoveredQuiet == recovered => row = Gone /\ \A a \in Actors : ~Executing(a)

Guarded == Timely => Owned /\ AtMostOne /\ RecoveredQuiet

IInv == TypeOK /\ Guarded

-----------------------------------------------------------------------------
LEMMA TypeInit == Init => TypeOK
<1> SUFFICES ASSUME Init PROVE TypeOK
  OBVIOUS
<1>1. row \in Row
  BY DEF Init
<1>2. faults \in 0..MaxFaults /\ attempts \in 0..(MaxRetries + 1)
  BY DEF Init
<1>3. recovered \in BOOLEAN
  BY DEF Init
<1>. QED
  BY <1>1, <1>2, <1>3 DEF Init, TypeOK

LEMMA InitInv == Init => IInv
<1> SUFFICES ASSUME Init PROVE IInv
  OBVIOUS
<1>1. \A a \in Actors : ~Executing(a)
  BY DEF Init, Executing
<1>2. ~recovered
  BY DEF Init
<1>. QED
  BY <1>1, <1>2, TypeInit DEF IInv, Guarded, Owned, AtMostOne, RecoveredQuiet

\* A claimed row is a row.
LEMMA ClaimedTyped ==
  ASSUME NEW r \in Row, NEW due \in BOOLEAN
  PROVE  /\ Claimed(r, due) \in Row
         /\ Claimed(r, due).status = "RETRYING" /\ ~Claimed(r, due).stale
BY DEF Claimed

LEMMA TypeNext == TypeOK /\ [Next]_vars => TypeOK'
<1> SUFFICES ASSUME TypeOK, [Next]_vars PROVE TypeOK'
  OBVIOUS
<1> USE DEF TypeOK, Goto, Home
<1>1. CASE GetsDue \/ GetsStale \/ Purge
  BY <1>1 DEF GetsDue, GetsStale, Purge
<1>2. ASSUME NEW w \in Workers, WorkerStep(w) PROVE TypeOK'
  <2>1. CASE RecoverStale(w)
    BY <2>1 DEF RecoverStale
  <2>2. CASE Select(w)
    BY <2>2 DEF Select, Eligible
  <2>3. CASE Claim(w)
    <3>1. CASE row # Gone /\ row.status \in {"PENDING", "FAILED"}
      <4>1. row' \in Row /\ recovered' = recovered /\ faults' = faults
        BY <2>3, <3>1, ClaimedTyped DEF Claim
      <4>2. attempts' \in 0..(MaxRetries + 1)
        BY <2>3, <3>1 DEF Claim
      <4>3. snapshot' \in [Workers -> Nat]
        BY <2>3, <3>1 DEF Claim
      <4>4. pc' = [pc EXCEPT ![w] = "executing"]
        BY <2>3, <3>1 DEF Claim
      <4>5. row'.status = "RETRYING"
        BY <2>3, <3>1, ClaimedTyped DEF Claim
      <4>. QED
        BY <4>1, <4>2, <4>3, <4>4, <4>5
    <3>2. CASE ~(row # Gone /\ row.status \in {"PENDING", "FAILED"})
      BY <2>3, <3>2 DEF Claim
    <3>. QED
      BY <3>1, <3>2
  <2>4. CASE SaveFailure(w)
    BY <2>4 DEF SaveFailure
  <2>5. CASE Finish(w)
    BY <2>5 DEF Finish, Executed, DeleteRecovered
  <2>. QED
    BY <1>2, <2>1, <2>2, <2>3, <2>4, <2>5 DEF WorkerStep
<1>3. ASSUME NEW m \in Manuals, ManualSelect(m) \/ ManualStep(m) PROVE TypeOK'
  <2>1. CASE ManualSelect(m)
    BY <2>1 DEF ManualSelect
  <2>2. CASE ManualClaim(m)
    BY <2>2, ClaimedTyped DEF ManualClaim
  <2>3. CASE ManualFailure(m)
    BY <2>3 DEF ManualFailure
  <2>4. CASE Finish(m)
    BY <2>4 DEF Finish, Executed, DeleteRecovered
  <2>. QED
    BY <1>3, <2>1, <2>2, <2>3, <2>4 DEF ManualStep
<1>4. ASSUME NEW a \in Actors, Fault(a) PROVE TypeOK'
  BY <1>4 DEF Fault
<1>5. CASE UNCHANGED vars
  BY <1>5 DEF vars
<1>. QED
  BY <1>1, <1>2, <1>3, <1>4, <1>5 DEF Next

-----------------------------------------------------------------------------
(* The steps of one actor, whatever its kind. *)

\* An actor that claims the row finds nobody retrying it.
LEMMA ClaimGuarded ==
  ASSUME IInv, NEW a \in Actors, row # Gone, row.status # "RETRYING",
         pc[a] = "selected", pc' = [pc EXCEPT ![a] = "executing"],
         row' \in Row, row'.status = "RETRYING", ~row'.stale, recovered' = recovered
  PROVE  Guarded'
<1> SUFFICES ASSUME Timely PROVE Owned' /\ AtMostOne' /\ RecoveredQuiet'
  BY DEF Guarded
<1>1. \A b \in Actors : ~Executing(b)
  BY DEF IInv, Guarded, Owned
<1>2. \A b \in Actors : Executing(b)' => b = a
  BY <1>1 DEF Executing, IInv, TypeOK
<1>3. ~recovered'
  BY DEF IInv, Guarded, RecoveredQuiet
<1>. QED
  BY <1>2, <1>3 DEF Owned, AtMostOne, RecoveredQuiet

\* An actor that ends its retry leaves nobody behind, whatever it does to the row.
LEMMA EndGuarded ==
  ASSUME IInv, NEW a \in Actors, Executing(a),
         NEW to \in {"idle", "returned"}, pc' = [pc EXCEPT ![a] = to],
         recovered' => row' = Gone
  PROVE  Guarded'
<1> SUFFICES ASSUME Timely PROVE Owned' /\ AtMostOne' /\ RecoveredQuiet'
  BY DEF Guarded
<1>1. \A b \in Actors : Executing(b) => b = a
  BY DEF IInv, Guarded, AtMostOne
<1>2. \A b \in Actors : ~Executing(b)'
  BY <1>1 DEF Executing, IInv, TypeOK
<1>. QED
  BY <1>2 DEF Owned, AtMostOne, RecoveredQuiet

\* A step that starts no retry and leaves the row as it is changes nothing.
LEMMA QuietGuarded ==
  ASSUME IInv, \A a \in Actors : Executing(a)' => Executing(a),
         row' = row, recovered' = recovered
  PROVE  Guarded'
BY DEF IInv, Guarded, Owned, AtMostOne, RecoveredQuiet

-----------------------------------------------------------------------------
LEMMA WorkerGuarded ==
  ASSUME IInv, NEW w \in Workers, WorkerStep(w) PROVE Guarded'
<1> USE DEF Goto
<1>0. w \in Actors /\ Home(w) = "idle"
  BY DEF Home
<1>1. CASE RecoverStale(w)
  <2>1. \A b \in Actors : Executing(b)' <=> Executing(b)
    BY <1>1 DEF RecoverStale, Executing, IInv, TypeOK
  <2>2. recovered' = recovered
    BY <1>1 DEF RecoverStale
  <2>3. CASE row # Gone /\ row.status = "RETRYING" /\ row.stale
    <3>1. Timely => \A b \in Actors : ~Executing(b)
      BY <2>3 DEF IInv, Guarded, Owned
    <3>2. Timely => ~recovered
      BY <2>3 DEF IInv, Guarded, RecoveredQuiet
    <3>. QED
      BY <2>1, <2>2, <3>1, <3>2 DEF Guarded, Owned, AtMostOne, RecoveredQuiet
  <2>4. CASE ~(row # Gone /\ row.status = "RETRYING" /\ row.stale)
    <3>1. row' = row
      BY <1>1, <2>4 DEF RecoverStale
    <3>. QED
      BY <2>1, <2>2, <3>1, QuietGuarded
  <2>. QED
    BY <2>3, <2>4
<1>2. CASE Select(w)
  <2>1. \A b \in Actors : Executing(b)' => Executing(b)
    BY <1>2 DEF Select, Executing, IInv, TypeOK
  <2>. QED
    BY <1>2, <2>1, QuietGuarded DEF Select
<1>3. CASE Claim(w)
  <2>1. CASE row # Gone /\ row.status \in {"PENDING", "FAILED"}
    <3>1. row \in Row
      BY <2>1 DEF IInv, TypeOK
    <3>2. /\ pc[w] = "selected" /\ pc' = [pc EXCEPT ![w] = "executing"]
          /\ row' = Claimed(row, FALSE) /\ recovered' = recovered
      BY <1>3, <2>1 DEF Claim
    <3>3. row' \in Row /\ row'.status = "RETRYING" /\ ~row'.stale
      BY <3>1, <3>2, ClaimedTyped
    <3>4. row.status # "RETRYING"
      BY <2>1
    <3>. QED
      BY <1>0, <2>1, <3>2, <3>3, <3>4, ClaimGuarded
  <2>2. CASE ~(row # Gone /\ row.status \in {"PENDING", "FAILED"})
    <3>1. row' = row /\ recovered' = recovered /\ pc' = [pc EXCEPT ![w] = "idle"]
      BY <1>3, <2>2 DEF Claim
    <3>2. \A b \in Actors : Executing(b)' => Executing(b)
      BY <3>1 DEF Executing, IInv, TypeOK
    <3>. QED
      BY <3>1, <3>2, QuietGuarded
  <2>. QED
    BY <2>1, <2>2
<1>4. CASE SaveFailure(w)
  <2>1. Executing(w) /\ pc' = [pc EXCEPT ![w] = "idle"] /\ recovered' = recovered
    BY <1>4 DEF SaveFailure, Executing
  <2>2. CASE Timely
    <3>1. ~recovered'
      BY <1>0, <2>1, <2>2 DEF IInv, Guarded, RecoveredQuiet
    <3>. QED
      BY <1>0, <2>1, <3>1, EndGuarded
  <2>. QED
    BY <2>2 DEF Guarded
<1>5. CASE Executed(w)
  <2>1. \A b \in Actors : Executing(b)' => Executing(b)
    BY <1>5 DEF Executed, Executing, IInv, TypeOK
  <2>. QED
    BY <1>5, <2>1, QuietGuarded DEF Executed
<1>6. CASE DeleteRecovered(w)
  <2>1. Executing(w) /\ pc' = [pc EXCEPT ![w] = "idle"] /\ row' = Gone
    BY <1>0, <1>6 DEF DeleteRecovered, Executing
  <2>. QED
    BY <1>0, <2>1, EndGuarded
<1>. QED
  BY <1>1, <1>2, <1>3, <1>4, <1>5, <1>6 DEF WorkerStep, Finish

LEMMA ManualGuarded ==
  ASSUME IInv, NEW m \in Manuals, ManualSelect(m) \/ ManualStep(m) PROVE Guarded'
<1> USE DEF Goto
<1>0. m \in Actors /\ Home(m) = "returned"
  BY DEF Home
<1>1. CASE ManualSelect(m)
  <2>1. \A b \in Actors : Executing(b)' => Executing(b)
    BY <1>1 DEF ManualSelect, Executing, IInv, TypeOK
  <2>. QED
    BY <1>1, <2>1, QuietGuarded DEF ManualSelect
<1>2. CASE ManualClaim(m)
  <2>1. CASE row # Gone /\ row.status # "RETRYING"
    <3>1. row \in Row
      BY <2>1 DEF IInv, TypeOK
    <3>2. /\ pc[m] = "selected" /\ pc' = [pc EXCEPT ![m] = "executing"]
          /\ row' = Claimed(row, row.due) /\ recovered' = recovered
      BY <1>2, <2>1 DEF ManualClaim
    <3>3. row' \in Row /\ row'.status = "RETRYING" /\ ~row'.stale
      BY <3>1, <3>2, ClaimedTyped
    <3>. QED
      BY <1>0, <2>1, <3>2, <3>3, ClaimGuarded
  <2>2. CASE ~(row # Gone /\ row.status # "RETRYING")
    <3>1. row' = row /\ recovered' = recovered /\ pc' = [pc EXCEPT ![m] = "returned"]
      BY <1>2, <2>2 DEF ManualClaim
    <3>2. \A b \in Actors : Executing(b)' => Executing(b)
      BY <3>1 DEF Executing, IInv, TypeOK
    <3>. QED
      BY <3>1, <3>2, QuietGuarded
  <2>. QED
    BY <2>1, <2>2
<1>3. CASE ManualFailure(m)
  <2>1. Executing(m) /\ pc' = [pc EXCEPT ![m] = "returned"] /\ recovered' = recovered
    BY <1>3 DEF ManualFailure, Executing
  <2>2. CASE Timely
    <3>1. ~recovered'
      BY <1>0, <2>1, <2>2 DEF IInv, Guarded, RecoveredQuiet
    <3>. QED
      BY <1>0, <2>1, <3>1, EndGuarded
  <2>. QED
    BY <2>2 DEF Guarded
<1>4. CASE Executed(m)
  <2>1. \A b \in Actors : Executing(b)' => Executing(b)
    BY <1>4 DEF Executed, Executing, IInv, TypeOK
  <2>. QED
    BY <1>4, <2>1, QuietGuarded DEF Executed
<1>5. CASE DeleteRecovered(m)
  <2>1. Executing(m) /\ pc' = [pc EXCEPT ![m] = "returned"] /\ row' = Gone
    BY <1>0, <1>5 DEF DeleteRecovered, Executing
  <2>. QED
    BY <1>0, <2>1, EndGuarded
<1>. QED
  BY <1>1, <1>2, <1>3, <1>4, <1>5 DEF ManualStep, Finish

\* Time, purges and faults.
LEMMA EnvironmentGuarded ==
  ASSUME IInv, GetsDue \/ GetsStale \/ Purge \/ \E a \in Actors : Fault(a)
  PROVE  Guarded'
<1>1. CASE GetsDue
  <2>1. row \in Row /\ row' = [row EXCEPT !.due = TRUE] /\ pc' = pc /\ recovered' = recovered
    BY <1>1 DEF GetsDue, IInv, TypeOK
  <2>2. row # Gone
    BY <1>1 DEF GetsDue
  <2>3. row'.status = row.status /\ row'.stale = row.stale
    BY <2>1
  <2>. QED
    BY <2>1, <2>2, <2>3 DEF IInv, Guarded, Owned, AtMostOne, RecoveredQuiet, Executing
<1>2. CASE GetsStale
  BY <1>2 DEF GetsStale, IInv, Guarded, Owned, AtMostOne, RecoveredQuiet, Executing
<1>3. CASE Purge
  BY <1>3 DEF Purge, IInv, Guarded, Owned, AtMostOne, RecoveredQuiet, Executing
<1>4. ASSUME NEW a \in Actors, Fault(a) PROVE Guarded'
  <2>1. \A b \in Actors : Executing(b)' => Executing(b)
    BY <1>4 DEF Fault, Home, Executing, IInv, TypeOK
  <2>. QED
    BY <1>4, <2>1, QuietGuarded DEF Fault
<1>. QED
  BY <1>1, <1>2, <1>3, <1>4

LEMMA NextInv == IInv /\ [Next]_vars => IInv'
<1> SUFFICES ASSUME IInv, [Next]_vars PROVE IInv'
  OBVIOUS
<1>1. TypeOK'
  BY TypeNext DEF IInv
<1>2. Guarded'
  <2>1. CASE UNCHANGED vars
    BY <2>1 DEF vars, IInv, Guarded, Owned, AtMostOne, RecoveredQuiet, Executing
  <2>2. CASE Next
    BY <2>2, WorkerGuarded, ManualGuarded, EnvironmentGuarded DEF Next
  <2>. QED
    BY <2>1, <2>2
<1>. QED
  BY <1>1, <1>2 DEF IInv

LEMMA Invariance == Spec => []IInv
BY InitInv, NextInv, PTL DEF Spec

-----------------------------------------------------------------------------
\* Every reachable state is well typed.
THEOREM TypeCorrect == Spec => []TypeOK
<1>1. IInv => TypeOK
  BY DEF IInv
<1>. QED
  BY <1>1, Invariance, PTL

\* No two retries of one event are under way at a time, automatic or manual,
\* as long as none outlives its claim.
THEOREM RetriesExclude == Spec => []OneRetryAtATime
<1>1. IInv => OneRetryAtATime
  BY DEF IInv, Guarded, AtMostOne, OneRetryAtATime
<1>. QED
  BY <1>1, Invariance, PTL

\* A recovered and removed event never comes back into the queue.
THEOREM RecoveredIsFinal == Spec => []RecoveredStaysRecovered
<1>1. IInv => RecoveredStaysRecovered
  BY DEF IInv, Guarded, RecoveredQuiet, RecoveredStaysRecovered
<1>. QED
  BY <1>1, Invariance, PTL
=============================================================================
