----------------------------- MODULE MCSessions -----------------------------
(***************************************************************************)
(* What the calls of a program reach, checked side by side: by blocking    *)
(* its thread, the session channel with the stores behind it               *)
(* (SessionStore), outgoing HTTP (HttpChannel) and the MCP transports      *)
(* (McpTransport); by handle, its lists and arrays (HandleStores).         *)
(* They share no state: the store serves whatever operations the channel   *)
(* hands to it, each once, and the channel carries any.  An instance that  *)
(* runs one of them therefore shows all that any of them can do.           *)
(***************************************************************************)
EXTENDS SessionChannel

CONSTANTS
    Sessions, Workers, Keys, Values, Unset, Backends, MaxOps,  \* of SessionStore
    HttpCalls, Redirects, HttpTimeouts,                        \* of HttpChannel
    MaxMessages, McpTimeouts,                                  \* of McpTransport
    Top, MaxHandles, MaxLength                                 \* of HandleStores

ASSUME StoreAssumption == Unset \notin Values /\ MaxOps \in Nat
ASSUME HttpAssumption == HttpCalls \in Nat /\ Redirects \in Nat /\ HttpTimeouts \in Nat
ASSUME McpAssumption == MaxMessages \in Nat /\ McpTimeouts \in Nat
ASSUME HandlesAssumption ==
    Top \in Nat /\ MaxHandles \in Nat /\ MaxLength \in Nat

VARIABLES
    backend, store, created, expired, op, destroyed, truth, ops,
    enabled, jar, since, maxRedirects, lastResponse, httpCaller, last, ctrl, buffer,
    length, mailbox, exec, writing, writes, returned, timeouts, raced, httpHurried,
    transport, oversize, arrived, input, lines, waiting, isProcessing, pendingResponses,
    signal, mcpLength, message, offered, mcpWrites, inbox, started, reader, lastRequestId,
    held, got, answered, sawClosed, mcpTimeouts, mcpHurried,
    listStore, arrayStore, objects, nextList, nextArray, walks, found, callback,
    part  \* which of them runs

Store == INSTANCE SessionStore

Http == INSTANCE HttpChannel WITH
    MaxCalls <- HttpCalls, MaxTimeouts <- HttpTimeouts,
    caller <- httpCaller, flag <- ctrl, queue <- mailbox, result <- returned,
    hurried <- httpHurried

Mcp == INSTANCE McpTransport WITH
    MaxTimeouts <- McpTimeouts,
    queue <- lines, flag <- signal, length <- mcpLength, data <- message,
    writes <- mcpWrites, timeouts <- mcpTimeouts, hurried <- mcpHurried

Handles == INSTANCE HandleStores

storeVars == <<backend, store, created, expired, op, destroyed, truth, ops>>
httpVars ==
    <<enabled, jar, since, maxRedirects, lastResponse, httpCaller, last, ctrl, buffer,
      length, mailbox, exec, writing, writes, returned, timeouts, raced, httpHurried>>
mcpVars ==
    <<transport, oversize, arrived, input, lines, waiting, isProcessing, pendingResponses,
      signal, mcpLength, message, offered, mcpWrites, inbox, started, reader, lastRequestId,
      held, got, answered, sawClosed, mcpTimeouts, mcpHurried>>
handleVars ==
    <<listStore, arrayStore, objects, nextList, nextArray, walks, found, callback>>
allVars == <<vars, storeVars, httpVars, mcpVars, handleVars, part>>

\* A part that does not run keeps one initial state.  The callback of a walk either
\* swaps the two values or answers 1.
MCInit ==
    /\ Init /\ Store!Init /\ Http!Init /\ Mcp!Init /\ Handles!Init
    /\ part \in {"channel", "store", "http", "mcp", "handles"}
    /\ part = "store" \/ backend = CHOOSE b \in Backends : TRUE
    /\ part = "mcp" \/ (transport = "stdio" /\ oversize = {})
    /\ callback[0] = 1 /\ (part = "handles" \/ callback[1] = 1)

ChannelOnly == part = "channel" /\ UNCHANGED <<storeVars, httpVars, mcpVars, handleVars, part>>
StoreOnly == part = "store" /\ UNCHANGED <<vars, httpVars, mcpVars, handleVars, part>>
HttpOnly == part = "http" /\ UNCHANGED <<vars, storeVars, mcpVars, handleVars, part>>
McpOnly == part = "mcp" /\ UNCHANGED <<vars, storeVars, httpVars, handleVars, part>>
HandlesOnly == part = "handles" /\ UNCHANGED <<vars, storeVars, httpVars, mcpVars, part>>

MCNext ==
    \/ ChannelOnly /\ Next
    \/ StoreOnly /\ Store!Next
    \/ HttpOnly /\ Http!Next
    \/ McpOnly /\ Mcp!Next
    \/ HandlesOnly /\ Handles!Next

\* Nothing is due in the initial states of the others while one of them runs,
\* except that the program asks for MCP messages from the start.
McpFairness == WF_allVars(McpOnly /\ Mcp!Worker) /\ WF_allVars(McpOnly /\ Mcp!Program)

MCSpec ==
    /\ MCInit /\ [][MCNext]_allVars
    /\ Fairness /\ Store!Fairness /\ Http!Fairness /\ McpFairness

-----------------------------------------------------------------------------
\* The types of all parts.  Here and below a part that does not run is in an initial
\* state, where its own instance checks it.
TypesOK ==
    /\ part = "channel" => TypeOK
    /\ part = "store" => Store!TypeOK
    /\ part = "http" => Http!TypeOK
    /\ part = "mcp" => Mcp!TypeOK
    /\ part = "handles" => Handles!TypeOK

\* See SessionChannel and HttpChannel: a call gets its own answer, and what it asks
\* for is done once.
CallsExact ==
    /\ part = "channel" => OwnAnswers /\ AppliedOnce
    /\ part = "http" => Http!HttpExact

\* See SessionStore: workers do not undo each other, expired sessions leave.
ClaimsKept == part = "store" => Store!ClaimsKept
ExpiredLeaves == Store!ExpiredLeaves

\* See McpTransport: messages are read in order, once, and answers reach the client
\* that asked.
McpExact == part = "mcp" => Mcp!McpExact

\* See HandleStores: a handle names what the program of the request has made, and a
\* walk with a callback covers what was there.
HandlesIntact == part = "handles" => Handles!HandlesIntact

\* A thread blocked on a channel goes on, and a message that came in is worked on.
EveryCallReturns == CallsReturn /\ Http!CallsReturn /\ Mcp!McpServed
=============================================================================
