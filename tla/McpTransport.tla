---------------------------- MODULE McpTransport ----------------------------
(***************************************************************************)
(* The two transports by which a program serves MCP: bridge/mcp.ts, on the *)
(* thread of the program, and its workers mcp-stdio-worker.ts and          *)
(* mcp-http-worker.ts.  The program blocks until a message is in the       *)
(* shared buffer; over HTTP it answers the request it has accepted before  *)
(* the worker offers the next one.  The worker stores the flag and         *)
(* notifies in two steps: a program that finds the flag set goes on at     *)
(* once, and the notify that is left wakes it in a later wait, which takes *)
(* what the buffer still holds.  Clients and standard input are external.  *)
(***************************************************************************)
EXTENDS Naturals, Sequences, SequencesExt

CONSTANTS
    MaxMessages,  \* lines, or requests of clients
    MaxTimeouts

VARIABLES
    transport,   \* "stdio" or "http"
    oversize,    \* HTTP requests that do not fit into the buffer
    arrived,     \* messages that have come in
    input,       \* standard input: "open", "closed", "lost" (nobody was told)
    queue,       \* queue, requestQueue
    waiting,     \* wasmWaiting
    isProcessing,
    pendingResponses,
    flag,        \* the first word of the control buffer
    length,      \* the second, as the message it is the length of
    data,        \* the message in the data buffer
    offered,     \* the message the worker is putting there
    writes,      \* what it has still to store for that
    inbox,       \* what the program's thread has posted to the worker
    started,     \* the stdio worker has been started
    reader,      \* where the thread of the program stands
    lastRequestId,
    held,        \* the message the program works on (0 = none)
    got,         \* the messages the program has read, in order
    answered,    \* which message each HTTP client has got the answer to
    sawClosed,   \* the program has been told that the input is closed
    timeouts,
    hurried      \* history: a notify has woken a wait for which nothing was stored

worker == <<queue, waiting, isProcessing, pendingResponses, offered, writes>>
shared == <<flag, length, data, inbox>>
program == <<started, reader, lastRequestId, held, got, sawClosed>>
outside == <<transport, oversize, arrived, input, answered>>
vars == <<worker, shared, program, outside, timeouts, hurried>>

Messages == 1 .. MaxMessages
Torn == MaxMessages + 1  \* the bytes of one message with the length of another

Init ==
    /\ transport \in {"stdio", "http"}
    /\ oversize \in {{}} \cup {{m} : m \in Messages}
    /\ arrived = 0 /\ input = "open" /\ answered = [m \in Messages |-> 0]
    /\ queue = <<>> /\ waiting = FALSE /\ isProcessing = FALSE /\ pendingResponses = {}
    /\ flag = "IDLE" /\ length = 0 /\ data = 0 /\ inbox = <<>>
    /\ offered = 0 /\ writes = <<>>
    /\ started = FALSE /\ reader = "busy" /\ lastRequestId = 0 /\ held = 0 /\ got = <<>>
    /\ sawClosed = FALSE /\ timeouts = 0 /\ hurried = FALSE

\* A message goes into the buffer, then its length and the flag, then the wake-up.
\* The handler that begins this ends it before the worker runs another one.
Signal(m) == offered' = m /\ writes' = <<"data", "length", "READY", "notify">>

\* Atomics.notify(ctrl, 0, 1) wakes the program if it is blocked.
Store ==
    LET step == Head(writes)
        wakes == step = "notify" /\ reader = "blocked"
    IN  /\ writes # <<>> /\ writes' = Tail(writes)
        /\ data' = IF step = "data" THEN offered ELSE data
        /\ length' = IF step = "length" THEN offered ELSE length
        /\ flag' = IF step \in {"READY", "CLOSED"} THEN step ELSE flag
        /\ reader' = IF wakes THEN "woken" ELSE reader
        /\ hurried' = (hurried \/ (wakes /\ flag = "IDLE"))
        /\ UNCHANGED <<queue, waiting, isProcessing, pendingResponses, offered, inbox,
                       started, lastRequestId, held, got, sawClosed, outside, timeouts>>

-----------------------------------------------------------------------------
\* mcp-stdio-worker.ts: a line goes to the program if it waits for one.
OnLine ==
    /\ transport = "stdio" /\ started /\ input = "open" /\ arrived < MaxMessages
    /\ writes = <<>> /\ arrived' = arrived + 1
    /\ IF waiting
       THEN Signal(arrived') /\ waiting' = FALSE /\ UNCHANGED queue
       ELSE queue' = Append(queue, arrived') /\ UNCHANGED <<offered, writes, waiting>>
    /\ UNCHANGED <<isProcessing, pendingResponses, shared, program, transport, oversize,
                   input, answered, timeouts, hurried>>

\* The end of the input is only told to a program that waits.
OnClose ==
    /\ transport = "stdio" /\ started /\ input = "open" /\ writes = <<>>
    /\ IF waiting THEN writes' = <<"CLOSED", "notify">> /\ input' = "closed"
       ELSE input' = "lost" /\ UNCHANGED writes
    /\ UNCHANGED <<queue, waiting, isProcessing, pendingResponses, offered, shared, program,
                   transport, oversize, arrived, answered, timeouts, hurried>>

\* The program asks for the next line.
OnAsked ==
    /\ transport = "stdio" /\ writes = <<>> /\ inbox # <<>> /\ inbox' = Tail(inbox)
    /\ IF queue = <<>>
       THEN waiting' = TRUE /\ UNCHANGED <<queue, offered, writes>>
       ELSE Signal(Head(queue)) /\ waiting' = FALSE /\ queue' = Tail(queue)
    /\ UNCHANGED <<isProcessing, pendingResponses, flag, length, data, program, outside,
                   timeouts, hurried>>

-----------------------------------------------------------------------------
\* seeded fault: a request is offered as soon as it arrives
AlwaysSignal(busy) == TRUE
\* mcp-http-worker.ts: the next request is offered when the last is answered.
MaySignal(busy) == ~busy

signalNextRequest(q, busy, pending) ==
    IF MaySignal(busy) /\ q # <<>>
    THEN /\ Signal(Head(q)) /\ queue' = Tail(q)
         /\ pendingResponses' = pending \cup {Head(q)} /\ isProcessing' = TRUE
    ELSE /\ queue' = q /\ pendingResponses' = pending /\ isProcessing' = busy
         /\ UNCHANGED <<offered, writes>>

OnRequest ==
    /\ transport = "http" /\ writes = <<>>
    /\ arrived < MaxMessages /\ arrived' = arrived + 1
    /\ signalNextRequest(Append(queue, arrived'), isProcessing, pendingResponses)
    /\ UNCHANGED <<waiting, shared, program, transport, oversize, input, answered,
                   timeouts, hurried>>

\* A response of the program: the client gets it once.
OnRespond ==
    /\ transport = "http" /\ writes = <<>> /\ inbox # <<>> /\ inbox' = Tail(inbox)
    /\ LET id == Head(inbox).to
       IN  IF id \in pendingResponses
           THEN /\ answered' = [answered EXCEPT ![id] = Head(inbox).about]
                /\ signalNextRequest(queue, FALSE, pendingResponses \ {id})
           ELSE UNCHANGED <<answered, queue, isProcessing, pendingResponses, offered, writes>>
    /\ UNCHANGED <<waiting, flag, length, data, program, transport, oversize, arrived, input,
                   timeouts, hurried>>

-----------------------------------------------------------------------------
\* The program's thread: the first read over stdio starts the worker.
Waits ==
    /\ reader = "busy" /\ held = 0 /\ reader' = "waiting"
    /\ inbox' = IF transport = "stdio" /\ ~started THEN Append(inbox, 0) ELSE inbox
    /\ started' = TRUE
    /\ UNCHANGED <<worker, flag, length, data, lastRequestId, held, got, sawClosed, outside,
                   timeouts, hurried>>

\* A program may wait for the next request without having answered the last.
Neglects ==
    /\ transport = "http" /\ held # 0 /\ timeouts < MaxTimeouts /\ timeouts' = timeouts + 1
    /\ reader = "busy" /\ reader' = "waiting" /\ held' = 0
    /\ UNCHANGED <<worker, shared, started, lastRequestId, got, sawClosed, outside, hurried>>

\* Atomics.wait compares and blocks; it returns 'not-equal' at once.
Blocks ==
    /\ reader = "waiting" /\ reader' = IF flag = "IDLE" THEN "blocked" ELSE "woken"
    /\ UNCHANGED <<worker, shared, started, lastRequestId, held, got, sawClosed, outside,
                   timeouts, hurried>>

TimesOut ==
    /\ reader = "blocked" /\ timeouts < MaxTimeouts /\ timeouts' = timeouts + 1
    /\ reader' = "busy"
    /\ UNCHANGED <<worker, shared, started, lastRequestId, held, got, sawClosed, outside,
                   hurried>>

SeesClosed ==
    /\ reader = "woken" /\ flag = "CLOSED" /\ reader' = "busy" /\ sawClosed' = TRUE
    /\ UNCHANGED <<worker, shared, started, lastRequestId, held, got, outside, timeouts,
                   hurried>>

\* What the program copies out of the buffer, whatever the flag holds by now.
Copies(m) ==
    /\ reader = "woken" /\ flag # "CLOSED" /\ reader' = "copied"
    /\ m \in IF data = length THEN {data} ELSE {data, Torn}
    /\ got' = Append(got, m)
    /\ UNCHANGED <<worker, shared, started, sawClosed, outside, timeouts, hurried>>

_mcp_stdio_read ==
    /\ transport = "stdio"
    /\ \E m \in {data, Torn} : Copies(m)
    /\ UNCHANGED <<lastRequestId, held>>

\* A request cut off by the buffer, or torn, has no id that could be parsed.
_mcp_http_accept ==
    /\ transport = "http"
    /\ \E m \in {data, Torn} :
          /\ Copies(m) /\ held' = m
          /\ lastRequestId' = IF m \in oversize \cup {Torn} THEN lastRequestId ELSE m

\* The flag is reset; over stdio the next line is asked for.
Releases ==
    /\ reader = "copied" /\ reader' = "busy" /\ flag' = "IDLE"
    /\ inbox' = IF transport = "stdio" THEN Append(inbox, 0) ELSE inbox
    /\ UNCHANGED <<worker, length, data, started, lastRequestId, held, got, sawClosed,
                   outside, timeouts, hurried>>

\* The same for _mcp_stdio_write while the transport is HTTP.
_mcp_http_respond ==
    /\ reader = "busy" /\ held # 0 /\ held' = 0
    /\ inbox' = IF lastRequestId = 0 THEN inbox
                ELSE Append(inbox, [to |-> lastRequestId, about |-> held])
    /\ lastRequestId' = 0
    /\ UNCHANGED <<worker, flag, length, data, started, reader, got, sawClosed, outside,
                   timeouts, hurried>>

\* What the threads do as long as there is something to do.
Worker == OnAsked \/ OnRespond \/ Store
Program ==
    \/ Waits \/ Blocks \/ SeesClosed
    \/ _mcp_stdio_read \/ _mcp_http_accept \/ Releases \/ _mcp_http_respond

Next == OnLine \/ OnClose \/ OnRequest \/ Worker \/ Program \/ Neglects \/ TimesOut

\* The program serves in a loop and both threads run.
Fairness == WF_vars(Worker) /\ WF_vars(Program)

Spec == Init /\ [][Next]_vars /\ Fairness

-----------------------------------------------------------------------------
TypeOK ==
    /\ transport \in {"stdio", "http"} /\ arrived \in 0 .. MaxMessages
    /\ input \in {"open", "closed", "lost"} /\ flag \in {"IDLE", "READY", "CLOSED"}
    /\ queue \in Seq(Messages)
    /\ data \in 0 .. MaxMessages /\ length \in 0 .. MaxMessages /\ offered \in 0 .. MaxMessages
    /\ pendingResponses \subseteq Messages /\ lastRequestId \in 0 .. MaxMessages
    /\ reader \in {"busy", "waiting", "blocked", "woken", "copied"}
    /\ held \in 0 .. Torn /\ got \in Seq(0 .. Torn) /\ hurried \in BOOLEAN

\* Unless a late notify has woken the program (see hurried), it reads every message
\* once and in the order of arrival, and a message that has come in is in the queue,
\* on its way into the buffer or in it until it is read.  In any case what the program
\* answers reaches only the client that asked for it.
McpExact ==
    /\ ~hurried => \A i \in 1 .. Len(got) : got[i] = i
    /\ \A m \in Messages : answered[m] \in {0, m}
    /\ ~hurried => \A m \in 1 .. arrived :
          \/ m \in ToSet(queue) \/ m \in ToSet(got)
          \/ offered = m /\ ("READY" \in ToSet(writes) \/ (flag = "READY" /\ data = m))

\* As long as the program has not been woken so, every line is read, and a program
\* that waits learns that the input is closed; over HTTP every request is answered by
\* a program that answers what it accepts, unless one does not fit into the buffer.
Served ==
    IF transport = "stdio" THEN Len(got) >= arrived
    ELSE \A m \in 1 .. arrived : answered[m] = m \/ (held = 0 /\ lastRequestId # 0)

McpServed ==
    /\ (input = "closed") ~> (sawClosed \/ hurried)
    /\ (transport = "http" => oversize = {}) ~> (Served \/ hurried)
=============================================================================
