------------------------------- MODULE MCPool -------------------------------
(***************************************************************************)
(* A request on its way, checked side by side: how it finds its route      *)
(* (Routing), the threads that handle requests (RequestPool), the          *)
(* instances the main thread keeps (InstancePool), whom a request acts for *)
(* (AccessControl), the memory of the thread that runs it (RequestWorker), *)
(* the functions that query its database (DatabaseBridge) and the texts it *)
(* is answered in (LocaleTexts).  The parts share no state; an instance    *)
(* that runs one of them shows all that any of them can do.                *)
(***************************************************************************)
EXTENDS RequestPoolRefinement

CONSTANTS
    PoolSize, MaxInstances, MaxUses,                            \* InstancePool
    Threads, Clients, MaxSessions, MaxTokens, MaxRegistrations,
    MaxServed, MaxCookies, Lifetime,                            \* AccessControl
    Candidates, Paths, MaxRoutes, MaxSettings, MaxAsked,        \* Routing
    Sizes, MaxBlocks, HeapStart, InitialSize, PreGrown, MaxSize,
    Limits, MaxCount, MaxGrowth, LogSize,                       \* RequestWorker
    MaxKey, PerPages, MaxPerPage, MaxHandlers, MaxCalls, MaxInserts,
    MaxChanges                                                  \* DatabaseBridge

VARIABLES
    available, inUse, entryMap, requestCount, making, made, instancesLost, holders,
    used, last, instancesClosed, raced,
    sessions, lastSession, owner, copies, csrf, jar, served, cookies, requests,
    registeredRoles, registrations, resetTokens, token, redeemed, now,
    stage, routes, configured, settings, middleware, address, answers,
    phase, scoped, limit, heap, buffer, base, snapshot, blocks, scopes, refs, held,
    freed, fields, count, trapped, answer, log,
    reports, running, bridgeRequest, calls, rowid, lastInsertId, inserted, cache,
    unsettled, issued, told, table, changes, cursor, pages,
    translations, currentLocale, loads, handling, localeRequests, setBy,
    part  \* which of them runs

Instance == INSTANCE InstancePool WITH
    lost <- instancesLost, closed <- instancesClosed

ASSUME InstanceAssumption ==
    /\ PoolSize \in Nat /\ MaxInstances \in Nat /\ PoolSize <= MaxInstances
    /\ MaxUses \in Nat \ {0}

\* An administrator and an editor with a claim; the program registers more for
\* editors, once.
Account(role, permissions) == [role |-> role, permissions |-> permissions]
Access == INSTANCE AccessControl WITH
    Accounts <- {Account("admin", {}), Account("editor", {"publish"})},
    Registered <- {Account("editor", {"read"})},
    MaxRequests <- MaxServed, request <- served

\* Nobody is named "".
ASSUME AccessAssumption ==
    /\ "" \notin Clients
    /\ MaxSessions \in Nat /\ MaxTokens \in Nat /\ MaxRegistrations \in Nat
    /\ MaxServed \in Nat /\ MaxCookies \in Nat /\ Lifetime \in Nat

\* Patterns and paths that overlap in every way the router knows; one route shares
\* its path with a built-in one.
Literal(name) == [kind |-> "literal", name |-> name]
Required(name) == [kind |-> "required", name |-> name]
Optional(name) == [kind |-> "optional", name |-> name]
Wildcard == [kind |-> "wildcard", name |-> ""]
Route(kind, method, pattern, role) ==
    [kind |-> kind, method |-> method, pattern |-> pattern, role |-> role]

Overlapping == {
    Route("plain", "GET", <<Literal("a"), Required("x")>>, ""),
    Route("protected", "*", <<Literal("a"), Wildcard>>, "user"),
    Route("protected", "GET", <<Literal("a"), Optional("y"), Required("x")>>, ""),
    Route("redirect", "GET", <<Literal("metrics")>>, ""),
    Route("stream", "HEAD", <<Wildcard, Literal("b")>>, "")}

OverlappingPaths == {<<"a", "b">>, <<"a", "">>, <<"a", "c", "b">>, <<"metrics">>}

Router == INSTANCE Routing WITH Settings <- {7}, MaxRequests <- MaxAsked

ASSUME RoutingAssumption ==
    /\ \A r \in Candidates : r.pattern \in Seq(Router!Segments)
    /\ MaxRoutes \in Nat /\ MaxSettings \in Nat /\ MaxAsked \in Nat

Worker == INSTANCE RequestWorker

\* A program asks for at least a word, and its heap starts inside its memory.
ASSUME WorkerAssumption ==
    /\ Sizes \subseteq Nat \ {0} /\ MaxBlocks \in Nat
    /\ HeapStart \in Nat /\ InitialSize \in Nat /\ PreGrown \in Nat /\ MaxSize \in Nat
    /\ HeapStart <= InitialSize /\ InitialSize <= MaxSize
    /\ Limits \subseteq Nat /\ MaxCount \in Nat \ {0} /\ MaxGrowth \in Nat
    /\ LogSize \in Nat \ {0}

Bridge == INSTANCE DatabaseBridge WITH
    MaxRequests <- MaxHandlers, request <- bridgeRequest, pending <- unsettled

ASSUME BridgeAssumption ==
    /\ MaxKey \in Nat /\ PerPages \subseteq Nat /\ MaxPerPage \in Nat \ {0}
    /\ MaxHandlers \in Nat /\ MaxCalls \in Nat /\ MaxInserts \in Nat /\ MaxChanges \in Nat

\* Languages with two, three and four plural forms, files that lack some of them,
\* and numbers on both sides of every boundary of a category and of a group.
Forms == {"one", "few", "many", "other"}
TextFiles == {{"", "one", "other"}, {"", "other"}, {"zero", "other"}, Forms}
Figures == <<"1", "2", "3", "4", "5", "6", "7">>
Texts == INSTANCE LocaleTexts WITH
    Locales <- {<<"en">>, <<"fr">>, <<"fr", "CA">>, <<"ru">>},
    Files <- TextFiles,
    Counts <- {0, 1, 2, 5, 11, 12, 21, 22, 100, 101, 111},
    Numbers <- [int : {SubSeq(Figures, 1, n) : n \in 1 .. Len(Figures)},
                frac : {<<>>, <<"5">>}],
    MaxLoads <- 3, MaxRequests <- 2, running <- handling, requests <- localeRequests

instanceVars ==
    <<available, inUse, entryMap, requestCount, making, made, instancesLost, holders,
      used, last, instancesClosed, raced>>
accessVars ==
    <<sessions, lastSession, owner, copies, csrf, jar, served, cookies, requests,
      registeredRoles, registrations, resetTokens, token, redeemed, now>>
routerVars == <<stage, routes, configured, settings, middleware, address, answers>>
workerVars ==
    <<phase, scoped, limit, heap, buffer, base, snapshot, blocks, scopes, refs, held,
      freed, fields, count, trapped, answer, log>>
bridgeVars ==
    <<reports, running, bridgeRequest, calls, rowid, lastInsertId, inserted, cache,
      unsettled, issued, told, table, changes, cursor, pages>>
textVars == <<translations, currentLocale, loads, handling, localeRequests, setBy>>
programVars == <<workerVars, bridgeVars, textVars>>
allVars == <<vars, instanceVars, accessVars, routerVars, programVars, part>>

\* A part that does not run keeps one initial state.  A worker with a limit on its
\* memory is one with scopes, and the tables of a database start empty, with a gap or
\* full.
MCInit ==
    /\ Init /\ Instance!Init /\ Access!Init /\ Router!Init
    /\ Worker!Init /\ Bridge!Init /\ Texts!Init
    /\ part \in {"pool", "instances", "access", "router",
                 "worker", "bridge", "texts"}
    /\ part = "access" \/ copies
    /\ IF part = "worker" THEN scoped \/ limit = 0 ELSE scoped /\ limit = 0
    /\ IF part = "bridge" THEN table \in {{}, {1, MaxKey}, 1 .. MaxKey}
       ELSE reports /\ table = {}

\* The variables of the server, and of the program in one of its threads.
ServerIdle == UNCHANGED <<vars, instanceVars, accessVars, routerVars, part>>
ProgramIdle == UNCHANGED <<programVars, part>>

MCNext ==
    \/ /\ part = "pool" /\ Next /\ ProgramIdle
       /\ UNCHANGED <<instanceVars, accessVars, routerVars>>
    \/ /\ part = "instances" /\ Instance!Next /\ ProgramIdle
       /\ UNCHANGED <<vars, accessVars, routerVars>>
    \/ /\ part = "access" /\ Access!Next /\ ProgramIdle
       /\ UNCHANGED <<vars, instanceVars, routerVars>>
    \/ /\ part = "router" /\ Router!Next /\ ProgramIdle
       /\ UNCHANGED <<vars, instanceVars, accessVars>>
    \/ /\ part = "worker" /\ Worker!Next /\ ServerIdle
       /\ UNCHANGED <<bridgeVars, textVars>>
    \/ /\ part = "bridge" /\ Bridge!Next /\ ServerIdle
       /\ UNCHANGED <<workerVars, textVars>>
    \/ /\ part = "texts" /\ Texts!Next /\ ServerIdle
       /\ UNCHANGED <<workerVars, bridgeVars>>

MCSpec == MCInit /\ [][MCNext]_allVars

-----------------------------------------------------------------------------
\* The types of all parts.  Here and below a part that does not run is in an initial
\* state, where its own instance checks it.
TypesOK ==
    /\ part = "pool" => TypeOK
    /\ part = "instances" => Instance!TypeOK
    /\ part = "access" => Access!TypeOK
    /\ part = "router" => Router!TypeOK
    /\ part = "worker" => Worker!TypeOK
    /\ part = "bridge" => Bridge!TypeOK
    /\ part = "texts" => Texts!TypeOK

\* Neither the pool of threads nor the one of instances loses or gains a place.
PoolsKeepCapacity ==
    CapacityConserved /\ (part = "instances" => Instance!InstancesConserved)

\* See AccessControl: the checks of one request agree, and cookies, reset tokens and
\* CSRF tokens stay with those they were made for.
AccessConsistent == part = "access" => Access!AccessConsistent

\* See Routing: a request keeps its route, reads its parameters where they stand,
\* and passes no protected route without the role.
RoutingExact == part = "router" => Router!RoutingExact

\* See RequestWorker: what a request has allocated is its own until it ends, and
\* nothing of a request is left for the next one.
MemoryIntact == part = "worker" => Worker!MemoryIntact
CleanBetweenRequests == part = "worker" => Worker!CleanBetweenRequests

\* See DatabaseBridge: ids, results and pages are those of the request that asks.
BridgeAnswersExact == part = "bridge" => Bridge!BridgeAnswersExact

\* See LocaleTexts: texts and numbers are those of the locale a request asks in.
TextsExact == part = "texts" => Texts!TextsExact

\* The locale is reset at request boundaries: see LocaleTexts, and locale.ts:11-14.
LocalePerRequest == part = "texts" => Texts!LocalePerRequest
=============================================================================
