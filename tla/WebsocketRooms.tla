--------------------------- MODULE WebsocketRooms ---------------------------
(***************************************************************************)
(* The WebSocket registry of the main thread, bridge/websocket.ts: the     *)
(* upgrade handler, the connections by client id, the rooms, and the       *)
(* bridge functions by which handlers change both.  A handler runs to its  *)
(* end before the next event; it may name any client, also one that has    *)
(* left.  The sockets and their events are external (the ws package).      *)
(***************************************************************************)
EXTENDS Naturals, FiniteSets, Functions

CONSTANTS
    Sockets, Rooms,
    MaxClients,   \* ids handed out between two stops
    MaxCalls,     \* bridge functions called by one handler
    MaxStops

VARIABLES
    attached,     \* "off", "importing" the ws package, or "on"
    routed,       \* wsRoutes is not empty
    socket,       \* each socket: "new", "open", "closing" (by us) or "closed"
    clientId,     \* the id in the closure of its listeners
    connections,  \* connections: client id -> socket
    rooms,        \* rooms: name -> client ids; a name may have an empty set
    joined,       \* conn.rooms of each connection
    counter,      \* clientIdCounter
    running,      \* the handler that runs: its event and socket
    calls, stops, \* bounds
    reused        \* an id was given out while an old socket still had it

registry == <<connections, rooms, joined>>
bounds == <<calls, stops>>
vars == <<attached, routed, socket, clientId, registry, counter, running, bounds, reused>>

Ids == 1 .. MaxClients
Idle == [event |-> "none", socket |-> "none"]
NoFunction == [x \in {} |-> {}]

Init ==
    /\ attached = "off" /\ routed = FALSE
    /\ socket = [s \in Sockets |-> "new"] /\ clientId = [s \in Sockets |-> 0]
    /\ connections = NoFunction /\ rooms = NoFunction /\ joined = NoFunction
    /\ counter = 0 /\ running = Idle /\ calls = 0 /\ stops = 0 /\ reused = FALSE

-----------------------------------------------------------------------------
\* start() of the initial instance registers a route.
_http_ws_route ==
    /\ attached = "off" /\ ~routed /\ routed' = TRUE
    /\ UNCHANGED <<attached, socket, clientId, registry, counter, running, bounds, reused>>

\* The import of the ws package is awaited between the test of wsServer and its
\* assignment; the package may be missing.
attachWebsocketServer ==
    /\ attached = "off" /\ routed /\ attached' = "importing"
    /\ UNCHANGED <<routed, socket, clientId, registry, counter, running, bounds, reused>>

Imported ==
    /\ attached = "importing" /\ attached' \in {"on", "off"}
    /\ UNCHANGED <<routed, socket, clientId, registry, counter, running, bounds, reused>>

With(f, x, v) == [y \in DOMAIN f \cup {x} |-> IF y = x THEN v ELSE f[y]]
Without(f, x) == Restrict(f, DOMAIN f \ {x})

\* The connection is in the registry before the onConnect handler runs.
upgradeHandler(s) ==
    /\ attached = "on" /\ routed /\ running = Idle /\ counter < MaxClients
    /\ socket[s] = "new"
    /\ counter' = counter + 1
    /\ socket' = [socket EXCEPT ![s] = "open"]
    /\ clientId' = [clientId EXCEPT ![s] = counter']
    /\ connections' = With(connections, counter', s)
    /\ joined' = With(joined, counter', {})
    /\ running' = [event |-> "connect", socket |-> s]
    /\ reused' = (reused \/ \E t \in Sockets :
                     socket[t] \in {"open", "closing"} /\ clientId[t] = counter')
    /\ UNCHANGED <<attached, routed, rooms, bounds>>

\* A message may still arrive while the socket closes.
OnMessage(s) ==
    /\ running = Idle /\ attached = "on" /\ socket[s] \in {"open", "closing"}
    /\ running' = [event |-> "message", socket |-> s]
    /\ UNCHANGED <<attached, routed, socket, clientId, registry, counter, bounds, reused>>

\* seeded fault: only the rooms of the closing socket's id are searched, none is left
KeepsRooms(c) == rooms
\* What a client joined goes with it, also what it joined in onClose.  A room that
\* becomes empty this way stays.
LeavesRooms(c) == [r \in DOMAIN rooms |-> rooms[r] \ {c}]

Evict(c) ==
    /\ connections' = Without(connections, c)
    /\ joined' = Without(joined, c)
    /\ rooms' = LeavesRooms(c)

\* The onClose handler runs while the client is still registered, if there is
\* still a state to run it in.
OnClose(s) ==
    /\ running = Idle /\ socket[s] \in {"open", "closing"}
    /\ socket' = [socket EXCEPT ![s] = "closed"]
    /\ IF attached = "on"
       THEN running' = [event |-> "close", socket |-> s] /\ UNCHANGED registry
       ELSE Evict(clientId[s]) /\ UNCHANGED running
    /\ UNCHANGED <<attached, routed, clientId, counter, bounds, reused>>

callWasmHandlerEnds ==
    /\ running # Idle /\ running' = Idle /\ calls' = 0
    /\ IF running.event = "close"
       THEN Evict(clientId[running.socket])
       ELSE UNCHANGED registry
    /\ UNCHANGED <<attached, routed, socket, clientId, counter, stops, reused>>

\* A job or a schedule of the main thread calls the same functions.
JobRuns ==
    /\ running = Idle /\ stops < MaxStops
    /\ running' = [event |-> "job", socket |-> "none"]
    /\ UNCHANGED <<attached, routed, socket, clientId, registry, counter, bounds, reused>>

-----------------------------------------------------------------------------
\* The bridge functions, called by the handler that runs.
Call == running # Idle /\ calls < MaxCalls /\ calls' = calls + 1

NonEmpty(f) == Restrict(f, {r \in DOMAIN f : f[r] # {}})

\* The entry goes at once; the socket's close event comes later.
_ws_close(c) ==
    /\ Call /\ c \in DOMAIN connections
    /\ socket' = [socket EXCEPT ![connections[c]] = IF @ = "open" THEN "closing" ELSE @]
    /\ connections' = Without(connections, c)
    /\ joined' = Without(joined, c)
    /\ rooms' = NonEmpty(LeavesRooms(c))
    /\ UNCHANGED <<attached, routed, clientId, counter, running, stops, reused>>

MayJoin(c) == c \in DOMAIN connections

_ws_room_join(c, r) ==
    /\ Call /\ MayJoin(c)
    /\ rooms' = With(rooms, r, (IF r \in DOMAIN rooms THEN rooms[r] ELSE {}) \cup {c})
    /\ joined' = [d \in DOMAIN joined |-> IF d = c THEN joined[d] \cup {r} ELSE joined[d]]
    /\ UNCHANGED <<attached, routed, socket, clientId, connections, counter, running,
                   stops, reused>>

_ws_room_leave(c, r) ==
    /\ Call /\ r \in DOMAIN rooms
    /\ rooms' = IF rooms[r] = {c} \/ rooms[r] = {} THEN Without(rooms, r)
                ELSE [rooms EXCEPT ![r] = @ \ {c}]
    /\ joined' = [d \in DOMAIN joined |-> IF d = c THEN joined[d] \ {r} ELSE joined[d]]
    /\ UNCHANGED <<attached, routed, socket, clientId, connections, counter, running,
                   stops, reused>>

\* Whom a broadcast reaches: the members that are still connected.
broadcastToRoom(r) ==
    {connections[c] : c \in (IF r \in DOMAIN rooms THEN rooms[r] ELSE {})
                            \cap DOMAIN connections}

_ws_broadcast(r) == broadcastToRoom(r)

\* Whom a message to one client reaches; nobody when the id is not known.
_ws_send(c) == {connections[d] : d \in {c} \cap DOMAIN connections}

-----------------------------------------------------------------------------
\* Every connection is closed and everything forgotten, the counter of the ids
\* included; the close events of the sockets come later.  An import that is
\* still under way sets wsServer again.
stopWebsocketServer ==
    /\ running = Idle /\ stops < MaxStops /\ stops' = stops + 1
    /\ attached' = IF attached = "importing" THEN attached ELSE "off"
    /\ routed' = FALSE
    /\ socket' = [s \in Sockets |->
          IF socket[s] = "open" /\ s \in {connections[c] : c \in DOMAIN connections}
          THEN "closing" ELSE socket[s]]
    /\ connections' = NoFunction /\ rooms' = NoFunction /\ joined' = NoFunction
    /\ counter' = 0
    /\ UNCHANGED <<clientId, running, calls, reused>>

Next ==
    \/ _http_ws_route \/ attachWebsocketServer \/ Imported
    \/ callWasmHandlerEnds \/ JobRuns \/ stopWebsocketServer
    \/ \E s \in Sockets : upgradeHandler(s) \/ OnMessage(s) \/ OnClose(s)
    \/ \E c \in Ids : _ws_close(c)
    \/ \E c \in Ids : \E r \in Rooms : _ws_room_join(c, r) \/ _ws_room_leave(c, r)

Spec == Init /\ [][Next]_vars

-----------------------------------------------------------------------------
TypeOK ==
    /\ attached \in {"off", "importing", "on"} /\ routed \in BOOLEAN
    /\ socket \in [Sockets -> {"new", "open", "closing", "closed"}]
    /\ DOMAIN connections \subseteq Ids /\ counter \in 0 .. MaxClients
    /\ DOMAIN rooms \subseteq Rooms
    /\ \A r \in DOMAIN rooms : rooms[r] \subseteq Ids

\* The three tables agree: the members of a room are connected, a connection
\* lists exactly the rooms that have it, and a client that is gone is in none.
TablesAgree ==
    /\ DOMAIN joined = DOMAIN connections
    /\ \A r \in DOMAIN rooms : rooms[r] \subseteq DOMAIN connections
    /\ \A c \in DOMAIN joined :
          joined[c] = {r \in DOMAIN rooms : c \in rooms[r]}

\* A socket that neither side has closed can be reached under its own id, and a
\* closed one is forgotten once its onClose handler has ended.
OpenReachable ==
    \A s \in Sockets :
        /\ socket[s] = "open" => _ws_send(clientId[s]) = {s}
        /\ (socket[s] = "closed" /\ running.socket # s) =>
              \A c \in DOMAIN connections : connections[c] # s

\* Whom a room reaches is a socket whose client joined it, until the ids are
\* handed out again while old sockets still close (see reused).
RoomsMatchConnections ==
    ~reused =>
        /\ TablesAgree /\ OpenReachable
        /\ \A r \in Rooms : \A s \in _ws_broadcast(r) :
              socket[s] = "open" \/ running = [event |-> "close", socket |-> s]
=============================================================================
