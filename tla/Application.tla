----------------------------- MODULE Application -----------------------------
(***************************************************************************)
(* The application (framework/app.go, lifecycle.go, runner.go): BootstrapE *)
(* with its cleanups, Run, and Shutdown, which the main goroutine, the     *)
(* watcher of the signal context and other goroutines may call at once.    *)
(*                                                                         *)
(* resource[r] is what the bootstrap opens: the tracing exporter, the      *)
(* primary database, the worker pool, the additional datasources, the      *)
(* io.Closer beans, the scheduler, the listener.  What uses the database   *)
(* is abstracted to the requests in flight, the run of a fixed-rate or     *)
(* fixed-delay job, and the tasks of the pool; the protocols behind        *)
(* StopBackgroundJobs and StopWorkerPool are Scheduler and WorkerPool.     *)
(***************************************************************************)
EXTENDS Integers, Sequences, FiniteSets, SequencesExt

CONSTANTS
  DataSources,   \* spring.additional-datasources
  Closers,       \* beans that implement io.Closer
  Components,    \* names under which hooks and runners are registered
  Order, Name,   \* per component: its order, the place of its name in the alphabet
  Hooks,         \* per kind of hook: the components that registered one
  Requests,
  Callers,       \* goroutines of the program that call Shutdown
  MaxTasks,      \* bound on tasks in the pool
  Nobody

Kinds == {"initializer", "runner", "ready", "shutdown"}
Optional == {"telemetry", "db", "pool", "scheduler"}
Resources == Optional \cup {"listener"} \cup DataSources \cup Closers

ASSUME ApplicationAssumption ==
  /\ Order \in [Components -> Int] /\ Name \in [Components -> Int]
  /\ \A c, d \in Components : Name[c] = Name[d] => c = d
  /\ IsFiniteSet(Components) /\ Hooks \in [Kinds -> SUBSET Components]
  /\ MaxTasks \in Nat
  /\ DataSources \cap Closers = {}
  /\ (Optional \cup {"listener", "hooks"}) \cap (DataSources \cup Closers) = {}
  /\ Nobody \notin Callers \cup {"main", "watcher"}

VARIABLES
  enabled,       \* what the configuration enables
  resource,      \* per resource: new, open, closed
  lost,          \* open handles Connect did not return, for configuring them failed
  pc,            \* where the main goroutine is
  pending,       \* additional datasources the bootstrap has still to connect
  cleanups,      \* the bootstrap's cleanup functions
  done,          \* per kind: the hooks that were run, in their order
  hooksDue,      \* RunInitializers was reached, so shutdown hooks are due
  signalled,     \* the signal context is done
  watcher,       \* new, waiting, stopping, gone
  caller,        \* per caller: idle, stopping, returned
  once,          \* shutdownOnce: the goroutine inside, or Nobody
  stage,         \* where doShutdown is
  server,        \* new, published, serving, down
  inflight,      \* requests a handler is working on
  served,        \* requests that have arrived
  forced,        \* the drain timed out and the server was closed
  running,       \* a job of the scheduler is running
  tasks          \* tasks queued or running in the pool

boot == <<enabled, lost, pending, cleanups, hooksDue>>
run == <<signalled, watcher, caller>>
stop == <<once, stage>>
work == <<inflight, served, running, tasks>>
vars == <<boot, resource, pc, done, run, stop, server, forced, work>>

Init ==
  /\ enabled \in SUBSET Optional
  /\ resource = [r \in Resources |-> "new"]
  /\ lost = {} /\ pending = DataSources /\ cleanups = <<>> /\ hooksDue = FALSE
  /\ pc = "config" /\ done = [k \in Kinds |-> <<>>]
  /\ signalled = FALSE /\ watcher = "new"
  /\ caller = [c \in Callers |-> "idle"]
  /\ once = Nobody /\ stage = "new" /\ server = "new"
  /\ inflight = {} /\ served = {} /\ forced = FALSE
  /\ running = FALSE /\ tasks = 0

-----------------------------------------------------------------------------
(* Hooks.                                                                  *)

Before(c, d) == Order[c] < Order[d] \/ (Order[c] = Order[d] /\ Name[c] < Name[d])
\* The i-th has i - 1 before it.
Forward(S) ==
  [i \in 1..Cardinality(S) |->
     CHOOSE c \in S : Cardinality({d \in S : Before(d, c)}) = i - 1]
Backward(S) == Reverse(Forward(S))

HooksForward(k) == Forward(Hooks[k])

HooksOf(k) == IF k = "shutdown" THEN Backward(Hooks[k]) ELSE Forward(Hooks[k])

Finished(k) == Len(done[k]) = Len(HooksOf(k))
\* The next hook is run; what a hook that fails or panics changes is seen by
\* its caller only.
RunHook(k) ==
  /\ ~Finished(k)
  /\ done' = [done EXCEPT ![k] = Append(@, HooksOf(k)[Len(@) + 1])]

Opened(r) == resource' = [resource EXCEPT ![r] = "open"]
Closed(S) == resource' = [r \in Resources |->
                            IF r \in S /\ resource[r] = "open" THEN "closed" ELSE resource[r]]

-----------------------------------------------------------------------------
(* BootstrapE.                                                             *)

\* An error or a panic: the deferred function runs the cleanups.
Abort == pc' = "cleanup" /\ UNCHANGED <<done, run, stop, server, forced, work>>
Continue(next) == pc' = next /\ UNCHANGED <<run, stop, server, forced, work>>
Cleanup(r) == cleanups' = Append(cleanups, r)

LoadConfiguration ==
  /\ pc = "config"
  /\ UNCHANGED <<boot, resource>>
  /\ Abort \/ (Continue("telemetry") /\ UNCHANGED done)

InitTelemetry ==
  /\ pc = "telemetry"
  /\ IF "telemetry" \in enabled
     THEN Opened("telemetry") /\ Cleanup("telemetry")
     ELSE UNCHANGED <<resource, cleanups>>
  /\ Continue(IF "db" \in enabled THEN "connect" ELSE "datasources")
  /\ UNCHANGED <<enabled, lost, pending, hooksDue, done>>

\* Connect opens a handle and configures it; if the second fails, the handle is
\* neither returned nor closed.
ConnectFails(d) ==
  /\ \/ lost' = lost \cup {d} /\ Opened(d)
     \/ UNCHANGED <<lost, resource>>
  /\ UNCHANGED <<enabled, pending, cleanups, hooksDue>>
  /\ Abort

ConnectPrimary ==
  /\ pc = "connect"
  /\ \/ ConnectFails("db")
     \/ /\ Opened("db") /\ Cleanup("db") /\ Continue("schema")
        /\ UNCHANGED <<enabled, lost, pending, hooksDue, done>>

\* Migrations, schema.sql and data.sql; each can fail.
PrepareSchema ==
  /\ pc = "schema"
  /\ UNCHANGED <<boot, resource>>
  /\ Abort \/ (Continue("eventBus") /\ UNCHANGED done)

InitEventBus ==
  /\ pc = "eventBus"
  /\ IF "pool" \in enabled
     THEN Opened("pool") /\ Cleanup("pool")
     ELSE UNCHANGED <<resource, cleanups>>
  /\ Continue("datasources")
  /\ UNCHANGED <<enabled, lost, pending, hooksDue, done>>

\* The order is that of a map.
InitSingleDataSource(d) ==
  /\ pc = "datasources" /\ d \in pending
  /\ \/ ConnectFails(d)
     \/ /\ Opened(d) /\ Cleanup(d)
        /\ pending' = pending \ {d}
        /\ UNCHANGED <<enabled, lost, hooksDue>>
        /\ \/ Continue("datasources") /\ UNCHANGED done
           \/ Abort   \* its migrations fail

\* The loop over the additional datasources is through.
InitAdditionalDataSources ==
  /\ pc = "datasources" /\ pending = {}
  /\ Continue("beans") /\ UNCHANGED <<boot, resource, done>>

\* A factory that panics ends it with some of the beans made.
InitializeAllBeans ==
  /\ pc = "beans"
  /\ \E S \in SUBSET Closers :
       /\ resource' = [r \in Resources |-> IF r \in S THEN "open" ELSE resource[r]]
       /\ \/ /\ S = Closers /\ Continue("initializers") /\ hooksDue' = TRUE
             /\ Cleanup("hooks")
             /\ UNCHANGED <<enabled, lost, pending, done>>
          \/ UNCHANGED boot /\ Abort

\* Fail-fast: the first error ends it.
RunInitializers ==
  /\ pc = "initializers"
  /\ UNCHANGED <<boot, resource>>
  /\ \/ Finished("initializer") /\ Continue("startupTasks") /\ UNCHANGED done
     \/ /\ RunHook("initializer")
        /\ pc' \in {"initializers", "cleanup"}
        /\ UNCHANGED <<run, stop, server, forced, work>>

\* The last step: RunStartupTasksE (Scheduler) and the router.
RunStartupTasks ==
  /\ pc = "startupTasks"
  /\ UNCHANGED <<boot, resource>>
  /\ Abort \/ (Continue("background") /\ UNCHANGED done)

\* The last cleanup that was registered runs; StopWorkerPool waits for the tasks.
ExecuteCleanups ==
  LET r == cleanups[Len(cleanups)]
      pop == cleanups' = SubSeq(cleanups, 1, Len(cleanups) - 1)
                /\ UNCHANGED <<enabled, lost, pending, hooksDue>>
  IN /\ pc = "cleanup" /\ UNCHANGED <<run, stop, server, forced, work>>
     /\ \/ cleanups = <<>> /\ pc' = "exited" /\ UNCHANGED <<boot, resource, done>>
        \/ /\ cleanups # <<>> /\ pc' = pc
           /\ CASE r = "hooks" /\ ~Finished("shutdown") ->
                     RunHook("shutdown") /\ UNCHANGED <<boot, resource>>
                [] r = "hooks" /\ Finished("shutdown") ->
                     pop /\ UNCHANGED <<resource, done>>
                [] r = "pool" -> tasks = 0 /\ Closed({r}) /\ pop /\ UNCHANGED done
                [] OTHER -> Closed({r}) /\ pop /\ UNCHANGED done

Bootstrap ==
  \/ LoadConfiguration \/ InitTelemetry \/ ConnectPrimary \/ PrepareSchema
  \/ InitEventBus \/ \E d \in DataSources : InitSingleDataSource(d)
  \/ InitAdditionalDataSources \/ InitializeAllBeans \/ RunInitializers \/ RunStartupTasks
  \/ ExecuteCleanups

-----------------------------------------------------------------------------
(* Run, in the main goroutine.                                             *)

StartBackgroundJobs ==
  /\ pc = "background" /\ pc' = "runners"
  /\ IF "scheduler" \in enabled THEN Opened("scheduler") ELSE UNCHANGED resource
  /\ UNCHANGED <<boot, done, run, stop, server, forced, work>>

\* Errors are logged, and the next runner runs.
RunCommandLineRunners ==
  /\ pc = "runners"
  /\ \/ RunHook("runner") /\ pc' = pc
     \/ Finished("runner") /\ pc' = "listen" /\ UNCHANGED done
  /\ UNCHANGED <<boot, resource, run, stop, server, forced, work>>

\* A hundred and one ports may all be taken.
BuildServer ==
  /\ pc = "listen"
  /\ \/ pc' = "stopping" /\ UNCHANGED <<resource, server>>
     \/ pc' = "ready" /\ Opened("listener") /\ server' = "published"
  /\ UNCHANGED <<boot, done, run, stop, forced, work>>

\* All hooks run; with an error among them Run shuts the application down.
RunReady ==
  /\ pc = "ready"
  /\ \/ /\ RunHook("ready") /\ pc' = pc /\ UNCHANGED watcher
     \/ /\ Finished("ready") /\ UNCHANGED done
        /\ \/ pc' = "serve" /\ watcher' = "waiting"
           \/ Hooks["ready"] # {} /\ pc' = "notReady" /\ UNCHANGED watcher
  /\ UNCHANGED <<boot, resource, signalled, caller, stop, server, forced, work>>

\* Serve returns at once from a server that is shut down, and always closes the
\* listener it was given.
Serve ==
  /\ \/ pc = "serve" /\ server = "published" /\ pc' = "serving" /\ server' = "serving"
        /\ UNCHANGED resource
     \/ pc \in {"serve", "serving"} /\ server = "down" /\ pc' = "stopping"
        /\ Closed({"listener"}) /\ UNCHANGED server
  /\ UNCHANGED <<boot, done, run, stop, forced, work>>

AcceptFails ==
  /\ pc = "serving" /\ server = "serving" /\ pc' = "stopping"
  /\ Closed({"listener"}) /\ server' = "published"
  /\ UNCHANGED <<boot, done, run, stop, forced, work>>

\* It waits for the return of Run only.
WatchReturn ==
  /\ watcher = "waiting"
  /\ pc \in {"stopping", "returned"} /\ watcher' = "gone"
  /\ UNCHANGED <<boot, resource, pc, done, signalled, caller, stop, server, forced, work>>

\* The goroutine that waits for the signal, and for the return of Run.
Watch ==
  /\ watcher = "waiting"
  /\ \/ signalled /\ watcher' = "stopping"
     \/ pc \in {"stopping", "returned"} /\ watcher' = "gone"
  /\ UNCHANGED <<boot, resource, pc, done, signalled, caller, stop, server, forced, work>>

Signal ==
  /\ ~signalled
  /\ pc \in {"background", "runners", "listen", "ready", "serve", "serving"}
  /\ signalled' = TRUE
  /\ UNCHANGED <<boot, resource, pc, done, watcher, caller, stop, server, forced, work>>

\* Other goroutines call Shutdown once Ready is closed: before, doShutdown finds
\* no server, and Run goes on to start one that nothing stops any more.
CallShutdown(c) ==
  /\ caller[c] = "idle" /\ pc \in {"serve", "serving", "stopping"}
  /\ caller' = [caller EXCEPT ![c] = "stopping"]
  /\ UNCHANGED <<boot, resource, pc, done, signalled, watcher, stop, server, forced, work>>

-----------------------------------------------------------------------------
(* Shutdown.                                                               *)

Goroutines == Callers \cup {"main", "watcher"}
InShutdown(g) ==
  CASE g = "main" -> pc \in {"notReady", "stopping"}
    [] g = "watcher" -> watcher = "stopping"
    [] OTHER -> caller[g] = "stopping"

\* shutdownOnce: the first one does the work.
Enter(g) ==
  /\ InShutdown(g) /\ once = Nobody
  /\ once' = g /\ stage' = "http"
  /\ UNCHANGED <<boot, resource, pc, done, run, server, forced, work>>

\* The others, and it, return when it is done.
Leave(g) ==
  /\ InShutdown(g) /\ stage = "done"
  /\ CASE g = "main" -> /\ pc' = IF pc = "notReady" THEN "stopping" ELSE "returned"
                        /\ UNCHANGED <<watcher, caller>>
       [] g = "watcher" -> watcher' = "gone" /\ UNCHANGED <<pc, caller>>
       [] OTHER -> caller' = [caller EXCEPT ![g] = "returned"] /\ UNCHANGED <<pc, watcher>>
  /\ UNCHANGED <<boot, resource, done, signalled, stop, server, forced, work>>

Stage(from, to) == stage = from /\ stage' = to /\ UNCHANGED <<boot, pc, run, once, work>>

\* srv.Shutdown closes what Serve accepts from, and waits for the requests.
StopHTTPServer ==
  /\ Stage("http", IF server = "new" THEN "scheduler" ELSE "drain")
  /\ IF server = "new" THEN UNCHANGED server ELSE server' = "down"
  /\ IF server = "serving" THEN Closed({"listener"}) ELSE UNCHANGED resource
  /\ UNCHANGED <<done, forced>>

\* It ends when no request is left, or with the timeout: that closes the
\* connections, and the handlers go on.
Drain ==
  /\ Stage("drain", "scheduler")
  /\ forced' = (inflight # {})
  /\ UNCHANGED <<resource, done, server>>

\* It waits for the run that is under way.
StopScheduler ==
  /\ Stage("scheduler", "pool") /\ ~running
  /\ Closed({"scheduler"})
  /\ UNCHANGED <<done, server, forced>>

\* It does not wait for the tasks in the queue.
StopPoolAtOnce ==
  /\ Stage("pool", "hooks")
  /\ Closed({"pool"})
  /\ UNCHANGED <<done, server, forced>>

StopPool ==
  /\ Stage("pool", "hooks") /\ tasks = 0
  /\ Closed({"pool"})
  /\ UNCHANGED <<done, server, forced>>

RunShutdownHooks ==
  /\ \/ Stage("hooks", "hooks") /\ RunHook("shutdown")
     \/ Stage("hooks", "telemetry") /\ Finished("shutdown") /\ UNCHANGED done
  /\ UNCHANGED <<resource, server, forced>>

\* CloseTelemetry, the additional datasources and io.Closer beans, the primary
\* database; clearing the container is the end of it.
CloseResources ==
  /\ \/ Stage("telemetry", "beans") /\ Closed({"telemetry"})
     \/ Stage("beans", "db") /\ Closed(DataSources \cup Closers)
     \/ Stage("db", "done") /\ Closed({"db"})
  /\ UNCHANGED <<done, server, forced>>

Shutdown ==
  \/ StopHTTPServer \/ Drain \/ StopScheduler \/ StopPool \/ RunShutdownHooks
  \/ CloseResources

-----------------------------------------------------------------------------
(* What uses the database meanwhile.                                       *)

Arrive(q) ==
  /\ server = "serving" /\ q \notin served
  /\ served' = served \cup {q} /\ inflight' = inflight \cup {q}
  /\ UNCHANGED <<boot, resource, pc, done, run, stop, server, forced, running, tasks>>

Answer(q) ==
  /\ q \in inflight /\ inflight' = inflight \ {q}
  /\ UNCHANGED <<boot, resource, pc, done, run, stop, server, forced, served, running, tasks>>

StartJob ==
  /\ resource["scheduler"] = "open" /\ stage # "scheduler" /\ ~running
  /\ running' = TRUE
  /\ UNCHANGED <<boot, resource, pc, done, run, stop, server, forced, inflight, served, tasks>>

EndJob ==
  /\ running /\ running' = FALSE
  /\ UNCHANGED <<boot, resource, pc, done, run, stop, server, forced, inflight, served, tasks>>

\* A request, a job, a runner, an initializer or a startup task publishes; a pool
\* that is being stopped takes no more.
Stopping == stage = "pool" \/ (pc = "cleanup" /\ cleanups # <<>> /\ Last(cleanups) = "pool")
Publish ==
  /\ resource["pool"] = "open" /\ ~Stopping /\ tasks < MaxTasks
  /\ inflight # {} \/ running \/ pc \in {"initializers", "startupTasks", "runners"}
  /\ tasks' = tasks + 1
  /\ UNCHANGED <<boot, resource, pc, done, run, stop, server, forced, inflight, served, running>>

EndTask ==
  /\ tasks > 0 /\ tasks' = tasks - 1
  /\ UNCHANGED <<boot, resource, pc, done, run, stop, server, forced, inflight, served, running>>

Next ==
  \/ Bootstrap
  \/ StartBackgroundJobs \/ RunCommandLineRunners \/ BuildServer \/ RunReady \/ Serve
  \/ AcceptFails \/ Watch \/ Signal \/ \E c \in Callers : CallShutdown(c)
  \/ \E g \in Goroutines : Enter(g) \/ Leave(g)
  \/ Shutdown
  \/ \E q \in Requests : Arrive(q) \/ Answer(q)
  \/ StartJob \/ EndJob \/ Publish \/ EndTask

Spec == Init /\ [][Next]_vars

\* Goroutines that can run do run; jobs, tasks, hooks and runners return.
\* Requests need not: the drain has a timeout.
Main == Bootstrap \/ StartBackgroundJobs \/ RunCommandLineRunners \/ BuildServer \/ RunReady \/ Serve
FairSpec ==
  /\ Spec
  /\ WF_vars(Main) /\ WF_vars(Watch) /\ WF_vars(Shutdown)
  /\ \A g \in Goroutines : WF_vars(Enter(g)) /\ WF_vars(Leave(g))
  /\ WF_vars(EndJob) /\ WF_vars(EndTask)

-----------------------------------------------------------------------------
(* Properties.                                                             *)

Over == pc \in {"returned", "exited"}

\* When the primary database is closed, by a shutdown or by the cleanups of a
\* bootstrap that failed, whatever uses it is over: no task of the pool, no job,
\* no hook is still to come, and no request but those the timeout gave up.
DatabaseOutlivesUsers ==
  resource["db"] = "closed" =>
    /\ tasks = 0 /\ ~running /\ (inflight = {} \/ forced)
    /\ resource["pool"] # "open" /\ resource["scheduler"] # "open"
    /\ hooksDue => Finished("shutdown")

\* A bootstrap that failed and a Start that returned have closed what they
\* opened, from whichever step and by whichever goroutine, and have run every
\* shutdown hook once, the last order first.  The exceptions are the code's:
\* a handle that Connect did not return, io.Closer beans of a failed bootstrap, and the
\* listener that Serve was never given.
TeardownComplete ==
  Over =>
    /\ pc = "exited" => \A r \in Resources : resource[r] = "open" => r \in Closers \cup lost
    /\ pc = "returned" => \A r \in Resources :
         resource[r] = "open" => r = "listener" /\ Hooks["ready"] # {}
    /\ done["shutdown"] = IF hooksDue THEN Backward(Hooks["shutdown"]) ELSE <<>>

\* A signal ends the program, wherever Start is and whoever shuts down with it.
StopsOnSignal == signalled ~> Over
=============================================================================
