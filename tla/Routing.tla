------------------------------ MODULE Routing ------------------------------
(***************************************************************************)
(* How a request finds its handler: router/index.ts, the registrations of  *)
(* bridge/http-server.ts, and server.ts from the loaded program to a       *)
(* server that listens.  start() of the program registers routes and       *)
(* configures the server; jobs and schedules run in the same instance and  *)
(* may do so at any later time.  A path is the sequence of its segments    *)
(* ("/a/" is <<"a", "">>); a pattern is one of literal, required (:x),     *)
(* optional (:x?) and wildcard segments.                                   *)
(***************************************************************************)
EXTENDS Naturals, Sequences, FiniteSets, SequencesExt, Enumerations

CONSTANTS
    Candidates,   \* routes the program may register: kind, method, pattern, role
    Paths,        \* paths clients ask for
    Settings,     \* what the program may pass when it configures the server
    MaxRoutes, MaxSettings, MaxRequests

VARIABLES
    stage,        \* "loaded", "initialized" (the pool is starting) or "listening"
    routes,       \* RouteRegistry.routes
    configured,   \* cors, rateLimit, errorHandler, host and port set by bridge calls
    settings,     \* how many there were
    middleware,   \* installed in front of the routes
    address,      \* where the server listens
    answers       \* what every request so far got

vars == <<stage, routes, configured, settings, middleware, address, answers>>

Methods == {"GET", "HEAD", "POST"}
Unset == [cors |-> 0, rateLimit |-> 0, errorHandler |-> 0, host |-> 0, port |-> 3000]
\* The port of the command line, which start() is called with, and its host.
CliPort == 8080
CliHost == 1

Init ==
    /\ stage = "loaded" /\ routes = <<>> /\ configured = Unset /\ settings = 0
    /\ middleware = <<>> /\ address = <<>> /\ answers = {}

-----------------------------------------------------------------------------
Segments == [kind : {"literal", "required", "optional", "wildcard"}, name : STRING]

Positions(pattern, kind) == Ascending({i \in DOMAIN pattern : pattern[i].kind = kind})

\* The names of optional parameters come first, in the order of the replacements.
paramNames(pattern) ==
    [i \in DOMAIN Positions(pattern, "optional") |->
        pattern[Positions(pattern, "optional")[i]].name]
    \o [i \in DOMAIN Positions(pattern, "required") |->
        pattern[Positions(pattern, "required")[i]].name]

\* compilePattern() makes ([^/]*) of an optional parameter first and (.*) of every star
\* last, also of the one in that group.  What is left of :y? is ([^/](.*)): it takes
\* what the rest of the pattern leaves, as a wildcard does, but wants a character to
\* begin with, and has a second group for what comes after this one.
Starred == {"optional", "wildcard"}

\* Where in a path the segments of a pattern may begin; each ends before the next one.
EndOf(at, path, i) == IF i = Len(at) THEN Len(path) ELSE at[i + 1] - 1
Splits(pattern, path) ==
    {at \in [DOMAIN pattern -> DOMAIN path] :
        /\ at[1] = 1
        /\ \A i \in DOMAIN pattern :
              /\ at[i] <= EndOf(at, path, i)
              /\ pattern[i].kind \notin Starred => at[i] = EndOf(at, path, i)
              /\ pattern[i].kind = "literal" => path[at[i]] = pattern[i].name
              /\ pattern[i].kind \in {"required", "optional"} => path[at[i]] # ""}

Accepts(pattern, path) == Splits(pattern, path) # {}

\* A star takes as much as it can, the first one first.
Greedy(pattern, path) ==
    CHOOSE at \in Splits(pattern, path) :
        \A other \in Splits(pattern, path) : \A i \in DOMAIN at :
            (\A j \in 1 .. i - 1 : other[j] = at[j]) => other[i] <= at[i]

Taken(pattern, path, i) ==
    LET at == Greedy(pattern, path) IN SubSeq(path, at[i], EndOf(at, path, i))

\* Segments without the first character of the first one.
Behind(taken) == <<"behind">> \o Tail(taken)

\* Groups are numbered as they open in the regular expression.
GroupsOf(pattern, path, i) ==
    IF pattern[i].kind = "optional"
    THEN <<Taken(pattern, path, i), Behind(Taken(pattern, path, i))>>
    ELSE <<Taken(pattern, path, i)>>
Groups(pattern, path) ==
    LET at == Ascending({i \in DOMAIN pattern : pattern[i].kind # "literal"})
    IN  FlattenSeq([g \in DOMAIN at |-> GroupsOf(pattern, path, at[g])])

\* params[name] = match[i + 1], for each name in turn
Params(pattern, path) ==
    LET names == paramNames(pattern)
    IN  [n \in Range(names) |->
            Groups(pattern, path)[Max({i \in DOMAIN names : names[i] = n})]]

Serves(r, method, path) == r.method \in {method, "*"} /\ Accepts(r.pattern, path)

matchMethod(method, path) ==
    LET found == {i \in DOMAIN routes : Serves(routes[i], method, path)}
    IN  IF found = {} THEN 0 ELSE CHOOSE i \in found : \A j \in found : i <= j

\* HEAD is GET without a body, unless a route takes HEAD itself.
match(method, path) ==
    IF method = "HEAD" /\ matchMethod("HEAD", path) = 0 THEN matchMethod("GET", path)
    ELSE matchMethod(method, path)

-----------------------------------------------------------------------------
\* seeded fault: the newest route comes first
Prepend(r) == routes' = <<r>> \o routes
push(r) == routes' = Append(routes, r)

register(kind, r) ==
    /\ r.kind = kind /\ Len(routes) < MaxRoutes
    /\ push(r)
    /\ UNCHANGED <<stage, configured, settings, middleware, address, answers>>

_http_route(r) == register("plain", r)
_http_route_protected(r) == register("protected", r)
registerRedirect(r) == register("redirect", r)
registerSse(r) == register("stream", r)
_http_redirect_route(r) == registerRedirect(r)
_http_sse_route(r) == registerSse(r)

configure(field, value) ==
    /\ settings < MaxSettings /\ settings' = settings + 1
    /\ configured' = [configured EXCEPT ![field] = value]
    /\ UNCHANGED <<stage, routes, middleware, address, answers>>

_cors_configure(v) == configure("cors", v)
_rate_limit_configure(v) == configure("rateLimit", v)
_http_set_global_error_handler(v) == configure("errorHandler", v)
_http_listen(v) == configure("port", v)
_http_listen_on(host, port) ==
    /\ settings < MaxSettings /\ settings' = settings + 1
    /\ configured' = [configured EXCEPT !.host = host, !.port = port]
    /\ UNCHANGED <<stage, routes, middleware, address, answers>>

\* Only what is configured by now gets its middleware.
applyBridgeMiddleware ==
    middleware' = SelectSeq(<<<<"cors", configured.cors>>, <<"rateLimit", configured.rateLimit>>>>,
                            LAMBDA m : m[2] # 0)

\* start() of the program has returned; the pool is started, which is awaited.
initialize ==
    /\ stage = "loaded" /\ stage' = "initialized"
    /\ applyBridgeMiddleware
    /\ UNCHANGED <<routes, configured, settings, address, answers>>

start ==
    /\ stage = "initialized" /\ stage' = "listening"
    /\ address' = [port |-> CliPort,
                   host |-> IF configured.host # 0 THEN configured.host ELSE CliHost]
    /\ UNCHANGED <<routes, configured, settings, middleware, answers>>

\* Express compares these before the catch-all, with or without a trailing slash.
BuiltIn == {<<"health">>, <<"loader.js">>, <<"frontend.wasm">>, <<"theme.css">>, <<"metrics">>}
ServedBuiltIn(method, path) ==
    method \in {"GET", "HEAD"} /\ (path \in BuiltIn \/ path \in {Append(p, "") : p \in BuiltIn})

Disposition(i, role) ==
    CASE i = 0 -> "notFound"
      [] i > 0 /\ routes[i].kind = "protected" /\ role = "" -> "unauthenticated"
      [] i > 0 /\ routes[i].kind = "protected" /\ role # "" /\ routes[i].role \notin {"", role} -> "denied"
      [] OTHER -> IF routes[i].kind = "protected" THEN "plain" ELSE routes[i].kind

handleRequest(method, path, role) ==
    /\ stage = "listening" /\ Cardinality(answers) < MaxRequests
    /\ LET i == match(method, path)
           as == IF ServedBuiltIn(method, path) THEN "builtIn" ELSE Disposition(i, role)
       IN  answers' = answers \cup {[method |-> method, path |-> path, role |-> role, as |-> as,
                                     route |-> IF as = "builtIn" THEN 0 ELSE i,
                                     of |-> Len(routes)]}
    /\ UNCHANGED <<stage, routes, configured, settings, middleware, address>>

Next ==
    \/ initialize \/ start
    \/ \E r \in Candidates :
          \/ _http_route(r) \/ _http_route_protected(r)
          \/ _http_redirect_route(r) \/ _http_sse_route(r)
    \/ \E v \in Settings :
          \/ _cors_configure(v) \/ _rate_limit_configure(v) \/ _http_set_global_error_handler(v)
          \/ _http_listen(v) \/ \E host \in {0, v} : _http_listen_on(host, v)
    \/ \E m \in Methods : \E p \in Paths : \E role \in {"", "user"} : handleRequest(m, p, role)

Spec == Init /\ [][Next]_vars

-----------------------------------------------------------------------------
TypeOK ==
    /\ stage \in {"loaded", "initialized", "listening"}
    /\ routes \in Seq(Candidates) /\ Len(routes) <= MaxRoutes
    /\ settings \in 0 .. MaxSettings /\ DOMAIN configured = DOMAIN Unset
    /\ stage = "loaded" => middleware = <<>>
    /\ (stage = "listening") = (address # <<>>)
    /\ \A a \in answers : a.route \in 0 .. Len(routes) /\ a.of \in 0 .. Len(routes)

\* A request that a route has answered is answered by the same route ever after,
\* whatever the program or its jobs register later; one that was not found may be
\* found then.  (A HEAD request that GET answered goes to a later HEAD route.)
StableRoutes ==
    \A a \in answers :
        (a.route # 0 /\ (a.method = "HEAD" => routes[a.route].method # "GET"))
            => match(a.method, a.path) = a.route

\* Whether the number of a parameter among the names is that of its group.
ReadInPlace(pattern, k) ==
    /\ \/ /\ pattern[k].kind = "optional"
          /\ \A j \in DOMAIN pattern : j < k => pattern[j].kind = "literal"
       \/ /\ pattern[k].kind = "required"
          /\ \A j \in DOMAIN pattern : /\ pattern[j].kind # "optional"
                                       /\ j < k => pattern[j].kind # "wildcard"
    /\ \A j \in DOMAIN pattern :
          k < j /\ pattern[j].kind \in {"optional", "required"} => pattern[j].name # pattern[k].name

\* A handler reads a parameter where its name stands in the pattern: an optional one if
\* there is no other group before it, a required one if there is no optional one in
\* the pattern and no wildcard before it; of two with one name, the later one.
ParamsBound ==
    \A i \in DOMAIN routes : \A path \in Paths :
        LET pattern == routes[i].pattern
        IN  Accepts(pattern, path) =>
                \A k \in DOMAIN pattern :
                    ReadInPlace(pattern, k) =>
                        Params(pattern, path)[pattern[k].name] = Taken(pattern, path, k)

\* A request reaches a protected route only with a session of the role it asks for,
\* by HEAD no less than by GET; and no request is served by a route for another method.
ProtectedHolds ==
    \A a \in answers : a.route # 0 =>
        LET r == routes[a.route]
        IN  /\ (r.kind = "protected" /\ a.as = "plain") => a.role # "" /\ r.role \in {"", a.role}
            /\ r.method \in {"*", a.method} \/ (a.method = "HEAD" /\ r.method = "GET")
            /\ \A j \in 1 .. a.route - 1 : ~Serves(routes[j], r.method, a.path)

RoutingExact == StableRoutes /\ ParamsBound /\ ProtectedHolds
=============================================================================
