---------------------------- MODULE MCWorkerPool ----------------------------
(* Instances of WorkerPool for TLC. *)
EXTENDS WorkerPool, TLC

CONSTANTS request, nested, polled

\* A request publishes, its listener publishes again, and so does the poller.
MCTasks == {request, nested, polled}
MCPublisher == (request :> External) @@ (nested :> request) @@ (polled :> Poller)
=============================================================================
