--------------------------------- MODULE Jwks ---------------------------------
(***************************************************************************)
(* Requests that are authenticated (framework/web: authenticateRequest)    *)
(* with keys that JwksClient caches, while the server of the keys          *)
(* publishes, withdraws, answers late or not at all.                       *)
(*                                                                         *)
(* A key has the name of its kid.  Times are ticks; one tick is a part of  *)
(* the code's seconds, with TTL > Timeout > MinInterval as there.          *)
(***************************************************************************)
EXTENDS Security

CONSTANTS
  Threads,
  Tokens,       \* what clients present
  Config,       \* the result of resolveSecurityConfig
  Kids,         \* the keys of the server
  TTL, MinInterval, Timeout,
  MaxTime       \* bound

Nobody == "nobody"
ASSUME JwksAssumption ==
  /\ {TTL, MinInterval, Timeout, MaxTime} \subseteq Nat \ {0}
  /\ Timeout < TTL /\ MinInterval < TTL
  /\ Nobody \notin Threads

VARIABLES
  now,
  thread,       \* per thread: [at, token, since, keys]
  keys, lastSuccess, lastAttempt, fetchMu,   \* of the client
  context,      \* per thread: [user, roles, kid], of its last request, "" for a refused one
  published,    \* what the server would answer
  goneAt,       \* when it withdrew a key
  asked,        \* when it was last asked
  down          \* whether the last one to ask it got nothing

client == <<keys, lastSuccess, lastAttempt, fetchMu>>
server == <<published, goneAt, asked, down>>
keysVars == <<now, thread, client, context, server>>

Long == TTL + Timeout + 1   \* long ago
Nothing == [user |-> "", roles |-> <<>>, kid |-> ""]
Idle == [at |-> "idle", since |-> 0, keys |-> {}]

KeysInit ==
  /\ now = 0
  /\ thread = [t \in Threads |-> Idle]
  /\ keys = {} /\ lastSuccess = -Long /\ lastAttempt = -Long /\ fetchMu = Nobody
  /\ context = [t \in Threads |-> Nothing]
  /\ published \in SUBSET Kids
  /\ goneAt = [k \in Kids |-> -Long] /\ asked = -Long /\ down = FALSE

ThreadIs(t, at) == thread[t].at = at
Turn(t, new) == thread' = [thread EXCEPT ![t] = new]

\* The end of authenticateRequest, given what GetPublicKey returned.
Finish(t, token, key) ==
  /\ Turn(t, Idle)
  /\ context' = [context EXCEPT ![t] =
       IF ValidateToken(token, Config, key) /\ validateClaims(token.claims, Config, TRUE)
       THEN [user |-> ExtractPrincipal(token.claims, Config.principalClaim),
             roles |-> ExtractRoles(token.grants, Config.authoritiesClaim, Config.resourceID, Config.prefix),
             kid |-> token.kid]
       ELSE Nothing]

Cached(k) == IF k \in keys THEN k ELSE ""
\* The cache is trusted whatever its age.
FreshForEver(k) == k \in keys
Fresh(k) == k \in keys /\ now - lastSuccess < TTL

\* The fast path, under the read lock.
authenticateRequest(t, token) ==
  /\ ThreadIs(t, "idle")
  /\ IF NeedsJwks(token, Config) /\ ~Fresh(token.kid)
     THEN Turn(t, [at |-> "waiting", token |-> token, since |-> now, keys |-> {}]) /\ context' = context
     ELSE Finish(t, token, Cached(token.kid))
  /\ UNCHANGED <<now, client, server>>

Fetch(t) ==
  /\ lastAttempt' = now /\ asked' = now /\ fetchMu' = t
  /\ Turn(t, [at |-> "fetching", token |-> thread[t].token, since |-> now, keys |-> {}])
  /\ UNCHANGED <<now, keys, lastSuccess, context, published, goneAt, down>>

\* The lock is taken and the server asked: what the fast path saw stands.
RefreshUnchecked(t) ==
  /\ ThreadIs(t, "waiting") /\ fetchMu = Nobody
  /\ Fetch(t)

\* The slow path under fetchMu: look again, then within the interval make do with
\* what there is, otherwise ask.
Refresh(t) ==
  /\ ThreadIs(t, "waiting") /\ fetchMu = Nobody
  /\ IF Fresh(thread[t].token.kid) \/ now - lastAttempt < MinInterval
     THEN /\ Finish(t, thread[t].token, Cached(thread[t].token.kid))
          /\ UNCHANGED <<now, client, server>>
     ELSE Fetch(t)

\* The server writes its answer, which takes its time to arrive.
Serve(t) ==
  /\ ThreadIs(t, "fetching")
  /\ Turn(t, [at |-> "answered", token |-> thread[t].token, since |-> thread[t].since,
            keys |-> published])
  /\ UNCHANGED <<now, client, context, server>>

Replace(t) ==
  /\ ThreadIs(t, "answered")
  /\ keys' = thread[t].keys /\ lastSuccess' = now /\ fetchMu' = Nobody /\ down' = FALSE
  /\ Finish(t, thread[t].token, IF thread[t].token.kid \in keys' THEN thread[t].token.kid ELSE "")
  /\ UNCHANGED <<now, lastAttempt, published, goneAt, asked>>

\* No answer in time, a status, or a body that does not decode.
FetchFails(t) ==
  /\ thread[t].at \in {"fetching", "answered"}
  /\ fetchMu' = Nobody /\ down' = TRUE
  /\ Finish(t, thread[t].token, Cached(thread[t].token.kid))
  /\ UNCHANGED <<now, keys, lastSuccess, lastAttempt, published, goneAt, asked>>

\* A key that was withdrawn does not come back.
Publish ==
  /\ \E k \in {k \in Kids \ published : goneAt[k] < 0} : published' = published \cup {k} /\ goneAt' = goneAt
  /\ UNCHANGED <<now, thread, client, context, asked, down>>
Withdraw ==
  /\ \E k \in published : published' = published \ {k} /\ goneAt' = [goneAt EXCEPT ![k] = now]
  /\ UNCHANGED <<now, thread, client, context, asked, down>>

\* The HTTP client gives up after its timeout.
Tick ==
  /\ now < MaxTime
  /\ \A t \in Threads : thread[t].at \in {"fetching", "answered"} => now - thread[t].since < Timeout
  /\ now' = now + 1
  /\ UNCHANGED <<thread, client, context, server>>

KeysNext ==
  \/ \E t \in Threads :
       \/ \E token \in Tokens : authenticateRequest(t, token)
       \/ Refresh(t) \/ Serve(t) \/ Replace(t) \/ FetchFails(t)
  \/ Publish \/ Withdraw \/ Tick

KeysSpec == KeysInit /\ [][KeysNext]_keysVars

-----------------------------------------------------------------------------
(* Properties.                                                             *)

\* However many requests miss the cache together, the server is asked by one at
\* a time, and at most once per interval.
FetchesSpaced ==
  [][\A t \in Threads : ~ThreadIs(t, "fetching") /\ thread'[t].at = "fetching" =>
       /\ now - asked >= MinInterval
       /\ \A u \in Threads : thread[u].at \notin {"fetching", "answered"}]_keysVars

\* A key the server withdrew verifies tokens for TTL and one answer's delay at
\* most, unless the last attempt to ask the server failed.
RevokedKeyExpires ==
  [][\A t \in Threads : context'[t] # context[t] /\ context'[t].kid # "" =>
       LET k == context'[t].kid
       IN k \in published \/ now - goneAt[k] < TTL + Timeout \/ down']_keysVars
=============================================================================
