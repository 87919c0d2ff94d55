------------------------------ MODULE MCServer ------------------------------
(***************************************************************************)
(* What server.ts does with a request that has found its route, checked    *)
(* side by side: how it is answered through the pool of workers            *)
(* (ServerLifecycle) or with an event stream that has a thread of its own  *)
(* (SseStream), and what becomes of an upgrade to a WebSocket              *)
(* (WebsocketRooms).  The parts share no state; an instance that runs one  *)
(* of them shows all that any of them can do.                              *)
(***************************************************************************)
EXTENDS ServerLifecycle

CONSTANTS
    MaxFrames, Sockets, Rooms,
    MaxClients, MaxCalls, MaxStops  \* bounds, see WebsocketRooms

ASSUME BoundsAssumption ==
    MaxFrames \in Nat /\ MaxClients \in Nat /\ MaxCalls \in Nat /\ MaxStops \in Nat

VARIABLES
    client, left, connected, streamEnded, timer, written, terminating,
    request, messages, thread, emitted, closing, seen,
    attached, routed, socket, clientId, connections, rooms, joined, counter, handler,
    calls, stops, reused,
    part  \* which of them runs

Stream == INSTANCE SseStream

Websocket == INSTANCE WebsocketRooms WITH running <- handler

streamVars ==
    <<client, left, connected, streamEnded, timer, written, terminating,
      request, messages, thread, emitted, closing, seen>>
websocketVars ==
    <<attached, routed, socket, clientId, connections, rooms, joined, counter, handler,
      calls, stops, reused>>
allVars == <<vars, streamVars, websocketVars, part>>

MCInit ==
    /\ Init /\ Stream!Init /\ Websocket!Init
    /\ part \in {"pool", "stream", "websocket"}
    /\ IF part = "pool" THEN errorHandler # redis ELSE ~errorHandler /\ ~redis

PoolOnly == part = "pool" /\ UNCHANGED <<streamVars, websocketVars, part>>
StreamOnly == part = "stream" /\ UNCHANGED <<vars, websocketVars, part>>
WebsocketOnly == part = "websocket" /\ UNCHANGED <<vars, streamVars, part>>

MCNext ==
    \/ PoolOnly /\ Next
    \/ StreamOnly /\ Stream!Next
    \/ WebsocketOnly /\ Websocket!Next

\* The fairness of the part that runs; nothing of a stream is due initially.
MCFairness ==
    /\ \A c \in Calls :
          /\ WF_allVars(PoolOnly /\ FallBack(c)) /\ WF_allVars(PoolOnly /\ Complete(c))
          /\ WF_allVars(PoolOnly /\ ~redis /\ (Authorised(c) \/ Unauthorised(c)))
    /\ \A id \in Tickets : WF_allVars(PoolOnly /\ Expire(id))
    /\ WF_allVars(PoolOnly /\ Tick) /\ WF_allVars(PoolOnly /\ ClosePool)
    /\ WF_allVars(PoolOnly /\ ForceExit)
    /\ Stream!Fairness

MCSpec == MCInit /\ [][MCNext]_allVars /\ MCFairness

-----------------------------------------------------------------------------
\* The types of all parts.  Here and below a part that does not run is in an initial
\* state, where its own instance checks it.
TypesOK ==
    /\ part = "pool" => TypeOK
    /\ part = "stream" => Stream!TypeOK
    /\ part = "websocket" => Websocket!TypeOK

\* See ServerLifecycle: the count of calls in flight is exact, so that the drain
\* cuts off nothing that was dispatched before it began.
DrainExact == part = "pool" => InflightCounts /\ NoneCutOff

\* See SseStream: the client reads the frames in order and without a gap, and none
\* is lost while it stays.
FramesComplete == part = "stream" => Stream!InOrder /\ Stream!NothingLost

\* A shutdown comes to its end, and the thread of a stream does not outlive its
\* client by more than the watchdog allows.
WorkEnds == ShutdownEnds /\ Stream!ThreadStops

\* See WebsocketRooms: rooms and connections name each other.
RoomsMatchConnections == part = "websocket" => Websocket!RoomsMatchConnections
=============================================================================
