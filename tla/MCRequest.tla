------------------------------ MODULE MCRequest ------------------------------
(* Instances of Request for TLC.                                               *)
EXTENDS Request

CONSTANTS r1, r2, s1, s2

Api(x) == <<"api", x>>
Info == [path |-> <<"actuator", "info">>, safe |-> TRUE, tx |-> FALSE, role |-> FALSE, body |-> "none"]
Login == [path |-> Api("login"), safe |-> FALSE, tx |-> FALSE, role |-> FALSE, body |-> "json"]
Files == [path |-> Api("files"), safe |-> FALSE, tx |-> FALSE, role |-> TRUE, body |-> "multipart"]
Orders == [path |-> Api("orders"), safe |-> FALSE, tx |-> TRUE, role |-> TRUE, body |-> "multipart"]
MCInterceptors == <<
  [includes |-> {<<"api", "**">>}, excludes |-> {<<"**", "login">>}],
  [includes |-> {}, excludes |-> {<<"actuator", "*">>}]>>
MCPublicPaths == [auth |-> {<<"swagger">>, Api("login")}, csrf |-> {<<"api", "login", "**">>}]

Csrf(server, oauth2, own) == [server |-> server, oauth2 |-> oauth2, own |-> own]

\* One request through everything, pooled or not.
Whole(cors, optimized) ==
  [cors |-> cors, csrf |-> Csrf("unset", FALSE, TRUE), optimized |-> optimized, telemetry |-> TRUE, clients |-> {r1},
   routes |-> {Info, Login, Files, Orders}, interceptors |-> MCInterceptors]
\* Two requests that share the pool of states, or the exporter.
Two(optimized, routes) ==
  [cors |-> "off", csrf |-> Csrf("unset", TRUE, TRUE), optimized |-> optimized, telemetry |-> ~optimized,
   clients |-> {r1, r2}, routes |-> routes, interceptors |-> <<>>]
MCPrograms == {Whole("on", FALSE), Whole("off", TRUE), Whole("invalid", FALSE),
               Two(TRUE, {Login, Files}), Two(FALSE, {Login})}
=============================================================================
