----------------------------- MODULE MCScheduler -----------------------------
(* Instances of Scheduler for TLC. *)
EXTENDS Scheduler, TLC

CONSTANTS migrate, warm, seed, sweep, report

\* Two startup jobs share a priority; migrate and seed are critical.
MCStartupJobs == {migrate, warm, seed}
MCCritical == {migrate, seed}
MCPriority == (migrate :> 1) @@ (warm :> 1) @@ (seed :> 2)

\* One background job of each kind a restart tells apart.
MCRestartKind == (sweep :> "delay") @@ (report :> "cron")
=============================================================================
