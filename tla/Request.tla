------------------------------- MODULE Request -------------------------------
(***************************************************************************)
(* A request on its way through the router of framework/web: the           *)
(* middlewares in the order of CreateDefaultRouter, the security           *)
(* middleware, Dispatch or DispatchTx, and the way back, with errors and   *)
(* panics anywhere; the pool of request states; and the exporter of spans. *)
(*                                                                         *)
(* An answer is a call that writes a status to the client, and then a      *)
(* body unless it is cut; or blank, the empty 200 of net/http for a        *)
(* request that an interceptor stopped without writing.  A controller      *)
(* answers by what it returns, and an error can be encoded.  Middlewares   *)
(* that only set headers or log are left out.  Transactional is abstracted *)
(* to a transaction that commits or does not (module Transaction), the     *)
(* request registry to its existence (Container), a token to whether it is *)
(* accepted (Jwks).                                                        *)
(***************************************************************************)
EXTENDS Paths, FiniteSets

CONSTANTS
  Requests,
  PublicPaths,   \* of the security middleware, and of the CSRF middleware
  Programs,      \* the programs: their settings cors, csrf, optimized and telemetry,
                 \* their routes [path, safe, tx, role, body], their interceptors
                 \* [includes, excludes] in order, and the requests they receive
  States,        \* pooled RequestState objects
  Capacity, BatchSize,  \* of the exporter
  Nil

ASSUME RequestAssumption ==
  /\ Capacity \in Nat \ {0} /\ BatchSize \in Nat \ {0}
  /\ Cardinality(States) >= Cardinality(Requests)
  /\ Nil \notin Requests \cup States

VARIABLES
  conf,
  req,           \* per request: see Init
  holder,        \* per pooled state: whose identity it carries
  free,          \* states in the pool
  exporter,      \* closed, open, stopping
  queue, batch,  \* of the exporter
  sent,          \* spans posted to the collector
  lost           \* spans of a batch that could not be posted

stateVars == <<holder, free>>
spanVars == <<exporter, queue, batch, sent, lost>>
vars == <<conf, req, stateVars, spanVars>>

Init ==
  /\ conf \in Programs
  /\ req = [r \in Requests |->
       [at |-> "new",        \* where it is
        route |-> Nil,
        user |-> Nil,        \* the principal put in its context
        answers |-> <<>>,
        pre |-> 0,           \* interceptors whose PreHandle let it pass
        after |-> [i \in DOMAIN conf.interceptors |-> 0],   \* their AfterCompletions
        panicking |-> "no",  \* no, panic, or abort: http.ErrAbortHandler
        faulty |-> FALSE,    \* PreHandle or AfterCompletion panicked
        tx |-> "none", files |-> FALSE, scoped |-> FALSE, state |-> Nil,
        listener |-> "none", seen |-> {}, heard |-> {}]]
  /\ holder = [s \in States |-> Nil] /\ free = {}
  /\ exporter = (IF conf.telemetry THEN "open" ELSE "closed")
  /\ queue = <<>> /\ batch = {} /\ sent = {} /\ lost = {}

At(r, at) == req[r].at = at
Update(r, new) == req' = [req EXCEPT ![r] = new]
Go(r, at) == Update(r, [req[r] EXCEPT !.at = at])
Answer(r, answer, at) ==
  Update(r, [req[r] EXCEPT !.answers = Append(@, answer), !.at = at])
HandleError(r, at) == Answer(r, "error", at)

Path(r) == req[r].route.path
\* The interceptors that match a path, in their order.
matching(interceptors, path) ==
  SelectSeq([i \in DOMAIN interceptors |-> i], LAMBDA i : match(interceptors[i], path))
Matched(r) == matching(conf.interceptors, Path(r))

-----------------------------------------------------------------------------
(* The middlewares.                                                        *)

Arrive(r) ==
  /\ At(r, "new") /\ r \in conf.clients
  /\ \E route \in conf.routes : Update(r, [req[r] EXCEPT !.route = route, !.at = "cors"])
  /\ UNCHANGED <<conf, stateVars, spanVars>>

\* A preflight of an allowed origin ends here; so does everything when the
\* configuration was found invalid.
CorsMiddleware(r) ==
  /\ At(r, "cors")
  /\ \/ conf.cors # "invalid" /\ Go(r, "csrf")
     \/ conf.cors = "on" /\ req[r].route.safe /\ Answer(r, "preflight", "end")
     \/ conf.cors = "invalid" /\ Answer(r, "error", "end")
  /\ UNCHANGED <<conf, stateVars, spanVars>>

\* The setting of the server wins; an OAuth2 resource server needs no protection;
\* then the setting of CSRF itself.
IsCsrfEnabled(s) == IF s.server # "unset" THEN s.server = "on" ELSE ~s.oauth2 /\ s.own

CsrfMiddleware(r) ==
  /\ At(r, "csrf")
  /\ \/ Go(r, "scope")
     \/ /\ IsCsrfEnabled(conf.csrf) /\ ~isPublicPath(Path(r), PublicPaths.csrf) /\ ~req[r].route.safe
        /\ HandleError(r, "end")
  /\ UNCHANGED <<conf, stateVars, spanVars>>

RequestScopeMiddleware(r) ==
  /\ At(r, "scope")
  /\ Update(r, [req[r] EXCEPT !.scoped = TRUE, !.at = IF conf.optimized THEN "acquire" ELSE "pre"])
  /\ UNCHANGED <<conf, stateVars, spanVars>>

\* The pool hands out one of its states, or a new one.
AcquireRequestState(r) ==
  /\ At(r, "acquire")
  /\ \E s \in States :
       /\ \A q \in Requests \ {r} : req[q].state = s => s \in free
       /\ free' = free \ {s}
       /\ Update(r, [req[r] EXCEPT !.state = s, !.at = "pre"])
  /\ UNCHANGED <<conf, holder, spanVars>>

\* AfterCompletion of the interceptors that let the request pass, last first.
Completed(r) ==
  [i \in DOMAIN conf.interceptors |->
     req[r].after[i] + IF \E k \in 1..req[r].pre : Matched(r)[k] = i THEN 1 ELSE 0]

\* The interceptors the request has passed are forgotten.
DeniedUncompleted(r, deny) ==
  Update(r, [req[r] EXCEPT !.at = "recover", !.answers = Append(@, deny)])

\* PreHandle stops it, with an error, with an answer of its own or with none.
Denied(r, deny) ==
  Update(r, [req[r] EXCEPT !.at = "recover", !.answers = Append(@, deny), !.after = Completed(r)])

PreHandle(r) ==
  /\ At(r, "pre")
  /\ IF req[r].pre = Len(Matched(r)) THEN Go(r, "auth")
     ELSE \/ Update(r, [req[r] EXCEPT !.pre = @ + 1])
          \/ \E deny \in {"error", "denied", "blank"} : Denied(r, deny)
          \/ Update(r, [req[r] EXCEPT !.panicking = "panic", !.faulty = TRUE, !.at = "recover"])
  /\ UNCHANGED <<conf, stateVars, spanVars>>

\* WithSecurityContext: the state carries the identity when there is one, the
\* context in any case.
AuthMiddleware(r) ==
  /\ At(r, "auth")
  /\ UNCHANGED <<conf, free, spanVars>>
  /\ IF isActuatorPath(Path(r)) \/ isPublicPath(Path(r), PublicPaths.auth)
     THEN Go(r, "authorize") /\ UNCHANGED holder
     ELSE \/ HandleError(r, "post") /\ UNCHANGED holder
          \/ /\ Update(r, [req[r] EXCEPT !.user = r, !.at = "authorize"])
             /\ holder' = [s \in States |-> IF s = req[r].state THEN r ELSE holder[s]]

\* What GetUser(ctx) returns.
GetUser(r) == IF req[r].state # Nil THEN holder[req[r].state] ELSE req[r].user

-----------------------------------------------------------------------------
(* Dispatch and DispatchTx.                                                *)

\* Dispatch removes the temporary files when it returns, DispatchTx does not.
FilesAfter(r) == req[r].files /\ req[r].route.tx
Leave(r, answers) ==
  Update(r, [req[r] EXCEPT !.answers = @ \o answers, !.files = FilesAfter(r), !.at = "post"])

\* User code panics in Dispatch or in DispatchTx, whose Transactional rolls back and
\* goes on panicking.
Panics == {"panic", "abort"}
Panicked(q, how) ==
  [q EXCEPT !.panicking = how, !.files = @ /\ q.route.tx,
            !.tx = IF @ = "open" THEN "rolled back" ELSE @, !.at = "complete"]

checkAuthorization(r) ==
  /\ At(r, "authorize")
  /\ \/ req[r].route.role /\ Leave(r, <<"error">>)
     \/ /\ req[r].route.role => req[r].user # Nil
        /\ Go(r, IF req[r].route.tx THEN "begin" ELSE "resolve")
  /\ UNCHANGED <<conf, stateVars, spanVars>>

BeginTransaction(r) ==
  /\ At(r, "begin")
  /\ \/ Leave(r, <<"error">>)
     \/ Update(r, [req[r] EXCEPT !.tx = "open", !.at = "resolve"])
  /\ UNCHANGED <<conf, stateVars, spanVars>>

\* The controller is called although an argument was refused.
ResolveAndGoOn(r) ==
  /\ At(r, "resolve")
  /\ \/ Go(r, "call") \/ HandleError(r, "call")
  /\ UNCHANGED <<conf, stateVars, spanVars>>

\* What comes of a body: it may be refused, and a multipart body may leave a
\* temporary file whether it is refused or not.
DecodeJSON == [ok : BOOLEAN, spooled : {FALSE}]
BindMultipartRequest == [ok : BOOLEAN, spooled : BOOLEAN]

\* Resolvers, binding and validation, any of which may panic.  Inside DispatchTx the
\* error that was answered is returned as well.
resolveArguments(r) ==
  /\ At(r, "resolve")
  /\ \E body \in IF req[r].route.body = "multipart" THEN BindMultipartRequest ELSE DecodeJSON :
       LET q == [req[r] EXCEPT !.files = body.spooled]
       IN \/ body.ok /\ Update(r, [q EXCEPT !.at = "call"])
          \/ /\ ~body.ok
             /\ Update(r, [q EXCEPT !.answers = Append(@, "error"), !.files = @ /\ q.route.tx,
                                    !.at = IF q.route.tx THEN "rollback" ELSE "post"])
          \/ \E how \in Panics : Update(r, Panicked(q, how))
  /\ UNCHANGED <<conf, stateVars, spanVars>>

\* The controller: it reads the identity of its request, may publish an event to
\* an asynchronous listener, and succeeds, fails or panics.
Call(r) ==
  /\ At(r, "call")
  /\ \E listener \in {"none", "running"}, at \in {"respond", "fail"} \cup Panics :
       LET q == [req[r] EXCEPT !.seen = @ \cup {GetUser(r)}, !.listener = listener]
       IN Update(r,
            CASE at = "respond" -> [q EXCEPT !.at = "respond"]
              [] at = "fail" /\ q.route.tx -> [q EXCEPT !.at = "rollback"]
              [] at = "fail" /\ ~q.route.tx ->
                   [q EXCEPT !.answers = Append(@, "error"), !.files = FALSE, !.at = "post"]
              [] at \in Panics -> Panicked(q, at))
  /\ UNCHANGED <<conf, stateVars, spanVars>>

\* DispatchTx writes the response in the function it hands to Transactional.
WriteResponse(r) ==
  IF req[r].route.tx THEN Answer(r, "success", "commit") ELSE Leave(r, <<"success">>)
\* The status is written before the body is encoded, and the encoder may panic.
Respond(r) ==
  /\ At(r, "respond")
  /\ \/ WriteResponse(r)
     \/ \E how \in Panics :
          Update(r, Panicked([req[r] EXCEPT !.answers = Append(@, "cut")], how))
  /\ UNCHANGED <<conf, stateVars, spanVars>>

EndTransaction(r) ==
  /\ \/ At(r, "commit") /\ Update(r, [req[r] EXCEPT !.tx = "committed", !.at = "post"])
     \/ /\ At(r, "commit") \/ At(r, "rollback")
        /\ Update(r, [req[r] EXCEPT !.tx = "rolled back", !.answers = Append(@, "error"), !.at = "post"])
  /\ UNCHANGED <<conf, stateVars, spanVars>>

-----------------------------------------------------------------------------
(* The way back.                                                           *)

\* PostHandle last to first, its errors logged, then AfterCompletion.  When one of
\* these panics, the deferred function runs AfterCompletion (again).
PostHandle(r) ==
  /\ At(r, "post")
  /\ \/ Update(r, [req[r] EXCEPT !.after = Completed(r), !.at = "recover"])
     \/ /\ req[r].pre > 0
        /\ \/ Update(r, [req[r] EXCEPT !.panicking = "panic", !.at = "complete"])
           \/ \E k \in 1..req[r].pre :
                Update(r, [req[r] EXCEPT !.panicking = "panic", !.faulty = TRUE, !.at = "complete",
                  !.after = [i \in DOMAIN conf.interceptors |->
                    @[i] + IF \E j \in k..req[r].pre : Matched(r)[j] = i THEN 1 ELSE 0]])
  /\ UNCHANGED <<conf, stateVars, spanVars>>

runDeferredAfterCompletion(r) ==
  /\ At(r, "complete")
  /\ Update(r, [req[r] EXCEPT !.after = Completed(r), !.at = "recover"])
  /\ UNCHANGED <<conf, stateVars, spanVars>>

\* Recoverer writes a status, which is too late when there is an answer; it lets
\* http.ErrAbortHandler pass.
Recoverer(r) ==
  /\ At(r, "recover")
  /\ Update(r, [req[r] EXCEPT
       !.answers = IF req[r].panicking = "panic" /\ @ = <<>> THEN <<"error">> ELSE @,
       !.panicking = IF @ = "abort" THEN @ ELSE "no",
       !.at = IF req[r].state # Nil /\ req[r].panicking # "abort" THEN "release" ELSE "destroy"])
  /\ UNCHANGED <<conf, stateVars, spanVars>>

\* The state goes back to the pool as it is.
ReleaseWithoutReset(r) ==
  /\ At(r, "release")
  /\ free' = free \cup {req[r].state} /\ holder' = holder
  /\ Go(r, "destroy")
  /\ UNCHANGED <<conf, spanVars>>

\* ReleaseRequestState; after an abort the state is left to the collector.
ReleaseRequestState(r) ==
  /\ At(r, "release")
  /\ free' = free \cup {req[r].state}
  /\ holder' = [holder EXCEPT ![req[r].state] = Nil]
  /\ Go(r, "destroy")
  /\ UNCHANGED <<conf, spanVars>>

DestroyRequestRegistry(r) ==
  /\ At(r, "destroy")
  /\ Update(r, [req[r] EXCEPT !.scoped = FALSE, !.at = IF req[r].panicking = "abort" THEN "end" ELSE "capture"])
  /\ UNCHANGED <<conf, stateVars, spanVars>>

\* It waits for the exporter's mutex, which the closing one holds, and drops the
\* span when the queue is full.
captureHTTPSpan(r) ==
  /\ At(r, "capture") /\ exporter # "stopping"
  /\ Go(r, "end")
  /\ queue' = IF exporter = "open" /\ Len(queue) < Capacity THEN Append(queue, r) ELSE queue
  /\ UNCHANGED <<conf, stateVars, exporter, batch, sent, lost>>

\* The listener runs on a worker, before or after the end of the request, with
\* the context of the request.
Listen(r) ==
  /\ req[r].listener = "running"
  /\ Update(r, [req[r] EXCEPT !.listener = "done", !.heard = @ \cup {GetUser(r)}])
  /\ UNCHANGED <<conf, stateVars, spanVars>>

-----------------------------------------------------------------------------
(* The exporter: one worker that selects between the queue, the ticker and *)
(* the stop channel.                                                       *)

\* A batch that cannot be marshalled or posted is discarded.
Flush(spans) ==
  /\ batch' = {}
  /\ \/ sent' = sent \cup spans /\ lost' = lost
     \/ sent' = sent /\ lost' = lost \cup spans

TakeSpan ==
  /\ exporter # "closed" /\ queue # <<>>
  /\ queue' = Tail(queue)
  /\ LET spans == batch \cup {Head(queue)}
     IN IF Cardinality(spans) >= BatchSize THEN Flush(spans)
        ELSE batch' = spans /\ UNCHANGED <<sent, lost>>
  /\ UNCHANGED <<conf, req, stateVars, exporter>>

FlushTick ==
  /\ exporter # "closed" /\ batch # {}
  /\ Flush(batch)
  /\ UNCHANGED <<conf, req, stateVars, exporter, queue>>

\* The worker returns with what it has in hand.
StopWithoutDrain ==
  /\ exporter = "stopping" /\ exporter' = "closed"
  /\ Flush(batch)
  /\ UNCHANGED <<conf, req, stateVars, queue>>

StopWorker ==
  /\ exporter = "stopping" /\ exporter' = "closed"
  /\ queue' = <<>>
  /\ Flush(batch \cup {queue[i] : i \in DOMAIN queue})
  /\ UNCHANGED <<conf, req, stateVars>>

\* CloseTelemetry, in the middle of requests when the drain of the server timed out.
CloseTelemetry ==
  /\ exporter = "open" /\ exporter' = "stopping"
  /\ UNCHANGED <<conf, req, stateVars, queue, batch, sent, lost>>

Worker == TakeSpan \/ FlushTick \/ StopWorker

Forward(r) ==
  \/ Arrive(r) \/ CorsMiddleware(r) \/ CsrfMiddleware(r) \/ RequestScopeMiddleware(r)
  \/ AcquireRequestState(r) \/ PreHandle(r) \/ AuthMiddleware(r)
Dispatch(r) ==
  \/ checkAuthorization(r) \/ BeginTransaction(r) \/ resolveArguments(r) \/ Call(r)
  \/ Respond(r) \/ EndTransaction(r)
Back(r) ==
  \/ PostHandle(r) \/ runDeferredAfterCompletion(r) \/ Recoverer(r) \/ ReleaseRequestState(r)
  \/ DestroyRequestRegistry(r) \/ captureHTTPSpan(r)

Next ==
  \/ \E r \in Requests : Forward(r) \/ Dispatch(r) \/ Back(r) \/ Listen(r)
  \/ Worker \/ CloseTelemetry

Spec == Init /\ [][Next]_vars

\* The cases of a select that stay ready are taken in the end.
FairSpec == Spec /\ WF_vars(TakeSpan) /\ WF_vars(FlushTick) /\ WF_vars(StopWorker)

-----------------------------------------------------------------------------
(* Properties.                                                             *)

Over(r) == At(r, "end")

\* Whatever stopped it and wherever it panicked, a request that is over holds
\* nothing: its registry is destroyed, no state is with it that the pool does not
\* have (but after an abort), no transaction is open, Dispatch left no temporary
\* file, and AfterCompletion ran once for each interceptor that let it pass,
\* unless an interceptor panicked outside PostHandle.
Unwound ==
  \A r \in Requests : Over(r) =>
    /\ ~req[r].scoped
    /\ req[r].state # Nil /\ req[r].panicking # "abort" =>
         req[r].state \in free \/ \E q \in Requests \ {r} : req[q].state = req[r].state
    /\ req[r].tx # "open" /\ (req[r].files => req[r].route.tx)
    /\ ~req[r].faulty => \A k \in DOMAIN conf.interceptors :
         req[r].after[k] = IF \E j \in 1..req[r].pre : Matched(r)[j] = k THEN 1 ELSE 0

\* A controller reads the identity of its own request, whichever states were
\* used before it; without pooling this is also true of the listeners it started.
OwnIdentity ==
  \A r \in Requests :
    /\ req[r].seen \subseteq {req[r].user}
    /\ ~conf.optimized => req[r].heard \subseteq {req[r].user}

\* A span that was accepted leaves in a batch, also when telemetry is closed around
\* it: it is posted, or it is discarded with a batch whose marshalling or post failed
\* (there is no retry), but it stays neither in the queue nor in the worker's hand.
SpansAreFlushed ==
  \A r \in Requests : (\E i \in DOMAIN queue : queue[i] = r) ~> r \in sent \cup lost

\* A request that is over was answered, and once, unless its handler aborted it or
\* DispatchTx answered again for its transaction, whose failure is then the last
\* answer (the status the client sees is that of the first).  One exception: when the
\* encoder panics after the status of a success, the transaction is rolled back and
\* the success that was cut is all the client gets.
Answered ==
  \A r \in Requests : Over(r) =>
    /\ req[r].panicking # "abort" => req[r].answers # <<>>
    /\ req[r].tx \in {"none", "committed"} => Len(req[r].answers) <= 1
    /\ req[r].tx = "rolled back" /\ req[r].answers # <<>> =>
         \/ Last(req[r].answers) = "error" /\ Len(req[r].answers) <= 2
         \/ req[r].answers = <<"cut">>
=============================================================================
