----------------------------- MODULE MCShedLock -----------------------------
(* Instances of ShedLock for TLC. *)
EXTENDS ShedLock, TLC

CONSTANTS r1, r2, r3, podA, podB

\* Two runs of the job on one pod, one on another.
MCRuns == {r1, r2, r3}
MCHosts == {podA, podB}
MCHost == (r1 :> podA) @@ (r2 :> podA) @@ (r3 :> podB)
=============================================================================
