----------------------------- MODULE SseStream -----------------------------
(***************************************************************************)
(* One event stream: handleSseRequest() of server.ts, which answers a      *)
(* STREAM route, and the worker thread (workers/sse-worker.ts) that runs   *)
(* its handler.  The handler posts frames to the main thread, which writes *)
(* them to the response; the main thread tells the handler through a       *)
(* shared flag that the client has left, and terminates the thread.        *)
(***************************************************************************)
EXTENDS Integers, Sequences, SequencesExt

CONSTANTS MaxFrames  \* bound: frames the handler emits

Frames == 1 .. MaxFrames

VARIABLES
    client,      \* the client's connection: open or gone
    left,        \* the 'close' event of the request was handled
    connected,   \* sseControl[0]
    streamEnded, \* endStream() has run
    timer,       \* setTimeout(endStream, 5000) is armed
    written,     \* frames written to the response
    thread,      \* the worker thread
    request,     \* the sse_request message is on its way to the worker
    messages,    \* from the worker to the main thread
    emitted,     \* number of frames the handler has emitted
    closing,     \* number of them emitted before _sse_close(), or -1
    seen,        \* what _sse_is_connected() last answered
    terminating  \* worker.terminate() was called

mainVars == <<left, connected, streamEnded, timer, written, terminating>>
workerVars == <<thread, emitted, closing, seen>>
vars == <<client, mainVars, request, messages, workerVars>>

Frame(k) == [type |-> "frame", frame |-> k]
Signal(type) == [type |-> type, frame |-> 0]

NotClosed == -1

-----------------------------------------------------------------------------
(* The worker thread                                                       *)

Post(m) == messages' = Append(messages, m)

Initialised ==
    /\ thread = "starting"
    /\ \/ thread' = "idle" /\ Post(Signal("ready"))
       \/ thread' = "over" /\ Post(Signal("fatal"))
    /\ UNCHANGED <<client, mainVars, request, emitted, closing, seen>>

StartHandler ==
    /\ thread = "idle" /\ request
    /\ request' = FALSE
    /\ thread' = "running"
    /\ UNCHANGED <<client, mainVars, messages, emitted, closing, seen>>

\* _sse_emit(), _sse_emit_event() and _sse_retry()
Emit ==
    /\ thread = "running" /\ emitted < MaxFrames
    /\ emitted' = emitted + 1
    /\ Post(Frame(emitted + 1))
    /\ UNCHANGED <<client, mainVars, request, thread, closing, seen>>

\* _sse_close(): the handler goes on.
Close ==
    /\ thread = "running" /\ closing = NotClosed
    /\ closing' = emitted
    /\ Post(Signal("sse_close"))
    /\ UNCHANGED <<client, mainVars, request, thread, emitted, seen>>

IsConnected ==
    /\ thread = "running"
    /\ seen' = connected
    /\ UNCHANGED <<client, mainVars, request, messages, thread, emitted, closing>>

\* The handler returns, or it throws or does not exist.
EndHandler ==
    /\ thread = "running"
    /\ thread' = "over"
    /\ \E type \in {"sse_done", "fatal"} : Post(Signal(type))
    /\ UNCHANGED <<client, mainVars, request, emitted, closing, seen>>

\* The thread runs out of memory, or it is stopped by terminate().
Die ==
    /\ thread \in {"starting", "running"} \/ (terminating /\ thread # "dead")
    /\ thread' = "dead"
    /\ IF terminating THEN UNCHANGED messages ELSE Post(Signal("error"))
    /\ UNCHANGED <<client, mainVars, request, emitted, closing, seen>>

-----------------------------------------------------------------------------
(* The main thread                                                         *)

\* endStream(): later calls change nothing.
EndStream == streamEnded' = TRUE /\ terminating' = TRUE

ArmTimer == TRUE

Swapped(m) == <<m>> \o written                              \* seeded fault
Write(m) == Append(written, m)

Ends == {"sse_close", "sse_done", "fatal", "error"}

Deliver ==
    /\ messages # <<>>
    /\ messages' = Tail(messages)
    /\ LET m == Head(messages)
       IN  \/ /\ m.type = "ready" /\ request' = TRUE
              /\ UNCHANGED <<streamEnded, terminating, written>>
           \/ /\ m.type = "frame"
              /\ written' = IF streamEnded THEN written ELSE Write(m.frame)
              /\ UNCHANGED <<request, streamEnded, terminating>>
           \/ /\ m.type \in Ends /\ EndStream
              /\ UNCHANGED <<request, written>>
    /\ UNCHANGED <<client, left, connected, timer, workerVars>>

\* req.on('close')
ClientLeft ==
    /\ client = "gone" /\ ~left
    /\ left' = TRUE /\ connected' = 0
    /\ timer' = ArmTimer
    /\ UNCHANGED <<client, streamEnded, written, terminating, request, messages, workerVars>>

EndAfterGrace ==
    /\ timer
    /\ timer' = FALSE
    /\ EndStream
    /\ UNCHANGED <<client, left, connected, written, request, messages, workerVars>>

ClientLeaves ==
    /\ client = "open"
    /\ client' = "gone"
    /\ UNCHANGED <<mainVars, request, messages, workerVars>>

-----------------------------------------------------------------------------
Init ==
    /\ client = "open" /\ left = FALSE
    /\ connected = 1
    /\ streamEnded = FALSE /\ timer = FALSE /\ written = <<>> /\ terminating = FALSE
    /\ thread = "starting" /\ request = FALSE /\ messages = <<>>
    /\ emitted = 0 /\ closing = NotClosed /\ seen = 1

Worker == Initialised \/ StartHandler \/ Emit \/ Close \/ IsConnected \/ EndHandler \/ Die
Main == Deliver \/ ClientLeft \/ EndAfterGrace
Next == Worker \/ Main \/ ClientLeaves

\* The main thread serves its events; a thread that is told to stop does so;
\* nothing is assumed of the handler.
Fairness ==
    /\ WF_vars(Deliver) /\ WF_vars(ClientLeft) /\ WF_vars(EndAfterGrace)
    /\ WF_vars(terminating /\ Die)

Spec == Init /\ [][Next]_vars /\ Fairness

-----------------------------------------------------------------------------
\* Types; a frame is written only after it was emitted.
TypeOK ==
    /\ client \in {"open", "gone"}
    /\ left \in BOOLEAN /\ streamEnded \in BOOLEAN /\ timer \in BOOLEAN
    /\ connected \in {0, 1} /\ seen \in {0, 1}
    /\ terminating = streamEnded
    /\ thread \in {"starting", "idle", "running", "over", "dead"}
    /\ request \in BOOLEAN
    /\ emitted \in 0 .. MaxFrames /\ closing \in {NotClosed} \cup 0 .. MaxFrames
    /\ Len(written) <= emitted

\* What the client reads is what the handler emitted, in that order and
\* without a gap, whatever ended the stream.
InOrder == IsPrefix(written, [k \in 1 .. emitted |-> k])

\* A handler that closes its stream or returns, and whose client stays and
\* thread lives, has had every frame written that it emitted before.
NothingLost ==
    streamEnded /\ client = "open" /\ (thread = "over" \/ closing # NotClosed) =>
        Len(written) >= (IF closing = NotClosed THEN emitted ELSE closing)

\* When the client leaves, or the handler fails or closes the stream, the
\* thread stops and the response ends, whatever the handler does.
ThreadStops ==
    (client = "gone" \/ thread \in {"over", "dead"} \/ closing # NotClosed) ~> (thread = "dead" /\ streamEnded)
=============================================================================
