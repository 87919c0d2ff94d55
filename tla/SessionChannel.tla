--------------------------- MODULE SessionChannel ---------------------------
(***************************************************************************)
(* The channel that carries the session operations of one request worker   *)
(* to the main thread: BrokerSessionStore.call() (session/broker-store.ts) *)
(* blocks the worker in Atomics.wait, SessionChannelHandler.handleOp()     *)
(* (session/session-channel.ts) runs the operation on the session store.   *)
(* Both share two control words and one data buffer; one step is one load, *)
(* store or notify.  Atomics.wait compares and blocks in one step; a       *)
(* notify wakes whoever is blocked, whatever the word holds by then.       *)
(* Unlike the MySQL channel it carries no sequence numbers.                *)
(*                                                                         *)
(* Each call sends one operation, named by the number of the call, and     *)
(* posts one session_op message, whose handler has the same number but     *)
(* learns the operation only from the buffer.                              *)
(***************************************************************************)
EXTENDS Integers, FiniteSets

CONSTANTS
    MaxCalls,     \* bound: calls of call()
    MaxFailures   \* bound: store operations that reject

ASSUME MaxCallsAssumption == MaxCalls \in Nat \ {0}
ASSUME MaxFailuresAssumption == MaxFailures \in Nat

Calls == 1 .. MaxCalls
None == 0
IDLE == "idle"
PENDING == "pending"
DONE == "done"

Request(c)  == [kind |-> "request", call |-> c]
Response(c) == [kind |-> "response", call |-> c]    \* the result of operation c
Refusal     == [kind |-> "refusal", call |-> None]  \* { ok: false } of the default case
Garbled     == [kind |-> "garbled", call |-> None]  \* bytes that do not parse
NoResult    == [kind |-> "none", call |-> None]
TimedOut    == [kind |-> "timeout", call |-> None]
Contents    == {Request(c) : c \in Calls} \cup {Response(c) : c \in Calls}
               \cup {Refusal, Garbled}

\* What decode(dataBuf.slice(0, len)) yields when the bytes are those of one
\* message and the length that of another: the message, if they are as long.
Decode(bytes, length) == IF bytes = length THEN {bytes} ELSE {bytes, Garbled}

VARIABLES
    state,    \* ctrl[0]
    len,      \* ctrl[1], as the message it is the length of
    data,     \* dataBuf
    caller,   \* where call() stands
    call,     \* the current or last call
    gotLen,   \* respLen
    result,   \* what each call returned or threw
    late,     \* history: a call has begun while an earlier operation was under way
    hurried,  \* history: the calls begun between the last response and its notify
    main,     \* where the main thread's running code stands
    current,  \* the handleOp() that is running on the main thread, or None
    handler,  \* stage of the handleOp() of each message
    reqLen,   \* reqLen of the running handleOp()
    answer,   \* result of processOp()
    applied,  \* how often each operation was run on the store
    failures,
    exited    \* the process has exited on an unhandled rejection

shared     == <<state, len, data>>
callerVars == <<caller, call, gotLen, result, late, hurried>>
mainVars   == <<main, current, handler, reqLen, answer, applied, failures, exited>>
vars == <<shared, callerVars, mainVars>>

-----------------------------------------------------------------------------
(* BrokerSessionStore.call(), on the request worker                        *)

\* this.dataBuf.set(reqBytes)
StoreRequest ==
    /\ ~exited /\ caller = "idle" /\ call < MaxCalls
    /\ call' = call + 1
    /\ data' = Request(call + 1)
    /\ caller' = "len"
    /\ late' = (late \/ \E h \in Calls : handler[h] \notin {"none", "finished"})
    /\ hurried' = IF main = "notify" THEN hurried \cup {call + 1} ELSE hurried
    /\ UNCHANGED <<state, len, gotLen, result, mainVars>>

SetLength == len' = Request(call)

StoreLength ==
    /\ ~exited /\ caller = "len"
    /\ SetLength
    /\ caller' = "state"
    /\ UNCHANGED <<state, data, call, gotLen, result, late, hurried, mainVars>>

StorePending ==
    /\ ~exited /\ caller = "state"
    /\ state' = PENDING
    /\ caller' = "post"
    /\ UNCHANGED <<len, data, call, gotLen, result, late, hurried, mainVars>>

\* parentPort.postMessage({ type: 'session_op' })
PostMessage ==
    /\ ~exited /\ caller = "post"
    /\ handler' = [handler EXCEPT ![call] = "posted"]
    /\ caller' = "wait"
    /\ UNCHANGED <<shared, call, gotLen, result, late, hurried, main, current, reqLen,
                   answer, applied, failures, exited>>

\* Atomics.wait compares and blocks; it returns 'not-equal' at once.
Wait ==
    /\ ~exited /\ caller = "wait"
    /\ caller' = IF state = PENDING THEN "blocked" ELSE "readLen"
    /\ UNCHANGED <<shared, call, gotLen, result, late, hurried, mainVars>>

\* 'timed-out' after SESSION_TIMEOUT_MS
NeverDue == FALSE                                           \* seeded fault
WaitDue == caller = "blocked"

Timeout ==
    /\ ~exited /\ WaitDue
    /\ caller' = "timeout"
    /\ UNCHANGED <<shared, call, gotLen, result, late, hurried, mainVars>>

Abandon == state' = IDLE /\ caller' = "idle" /\ result' = [result EXCEPT ![call] = TimedOut]

GiveUp ==
    /\ ~exited /\ caller = "timeout"
    /\ Abandon
    /\ UNCHANGED <<len, data, call, gotLen, late, hurried, mainVars>>

LoadLength ==
    /\ ~exited /\ caller = "readLen"
    /\ gotLen' = len
    /\ caller' = "readData"
    /\ UNCHANGED <<shared, call, result, late, hurried, mainVars>>

LoadResponse ==
    /\ ~exited /\ caller = "readData"
    /\ \E message \in Decode(data, gotLen) :
          result' = [result EXCEPT ![call] = message]
    /\ caller' = "release"
    /\ UNCHANGED <<shared, call, gotLen, late, hurried, mainVars>>

StoreIdle ==
    /\ ~exited /\ caller = "release"
    /\ state' = IDLE
    /\ caller' = "idle"
    /\ UNCHANGED <<len, data, call, gotLen, result, late, hurried, mainVars>>

\* A call that has begun
Calling ==
    \/ StoreLength \/ StorePending \/ PostMessage
    \/ Wait \/ Timeout \/ GiveUp \/ LoadLength \/ LoadResponse \/ StoreIdle

-----------------------------------------------------------------------------
(* SessionChannelHandler.handleOp(), on the main thread.  It gives way to  *)
(* other handlers only while it awaits processOp().                        *)

LoadRequestLength(h) ==
    /\ ~exited /\ main = "idle" /\ handler[h] = "posted"
    /\ \A g \in Calls : handler[g] = "posted" => h <= g
    /\ reqLen' = len
    /\ current' = h
    /\ main' = "readData"
    /\ UNCHANGED <<shared, callerVars, handler, answer, applied, failures, exited>>

\* JSON.parse throws: the promise of handleOp() is rejected, nobody handles it
\* and the unhandledRejection handler of index.ts ends the process.
LoadGarbled ==
    /\ main = "readData" /\ ~exited
    /\ Garbled \in Decode(data, reqLen)
    /\ exited' = TRUE
    /\ UNCHANGED <<shared, callerVars, main, current, handler, reqLen, answer, applied,
                   failures>>

\* An operation goes to the store, anything else meets the default case.
LoadRequest ==
    /\ main = "readData" /\ ~exited
    /\ \E message \in Decode(data, reqLen) \ {Garbled} :
          IF message.kind = "request"
          THEN /\ applied' = [applied EXCEPT ![message.call] = @ + 1]
               /\ answer' = [answer EXCEPT ![current] = Response(message.call)]
          ELSE /\ answer' = [answer EXCEPT ![current] = Refusal]
               /\ UNCHANGED applied
    /\ handler' = [handler EXCEPT ![current] = "running"]
    /\ current' = None
    /\ main' = "idle"
    /\ UNCHANGED <<shared, callerVars, reqLen, failures, exited>>

\* The store rejects (Redis is gone) or dataBuf.set() overruns the buffer.
Reject(h) ==
    /\ ~exited /\ main = "idle" /\ handler[h] = "running" /\ failures < MaxFailures
    /\ failures' = failures + 1
    /\ exited' = TRUE
    /\ UNCHANGED <<shared, callerVars, main, current, handler, reqLen, answer, applied>>

WriteResponse(h) ==
    /\ ~exited /\ main = "idle" /\ handler[h] = "running"
    /\ data' = answer[h]
    /\ current' = h
    /\ main' = "len"
    /\ UNCHANGED <<state, len, callerVars, handler, reqLen, answer, applied, failures, exited>>

WriteLength ==
    /\ ~exited /\ main = "len"
    /\ len' = answer[current]
    /\ main' = "done"
    /\ UNCHANGED <<state, data, callerVars, current, handler, reqLen, answer, applied,
                   failures, exited>>

WriteDone ==
    /\ ~exited /\ main = "done"
    /\ state' = DONE
    /\ handler' = [handler EXCEPT ![current] = "finished"]
    /\ main' = "notify"
    /\ UNCHANGED <<len, data, callerVars, current, reqLen, answer, applied, failures,
                   exited>>

\* Atomics.notify(ctrl, 0, 1) wakes the worker if it is blocked, be it in the next call.
Notify ==
    /\ ~exited /\ main = "notify"
    /\ caller' = IF caller = "blocked" THEN "readLen" ELSE caller
    /\ main' = "idle" /\ current' = None
    /\ UNCHANGED <<shared, call, gotLen, result, late, hurried, handler, reqLen, answer,
                   applied, failures, exited>>

Main ==
    \/ \E h \in Calls : LoadRequestLength(h) \/ Reject(h) \/ WriteResponse(h)
    \/ LoadGarbled \/ LoadRequest \/ WriteLength \/ WriteDone
    \/ Notify

-----------------------------------------------------------------------------
Init ==
    /\ state = IDLE /\ len = Garbled /\ data = Garbled
    /\ caller = "idle" /\ call = 0 /\ gotLen = Garbled
    /\ result = [c \in Calls |-> NoResult] /\ late = FALSE /\ hurried = {}
    /\ main = "idle" /\ current = None
    /\ handler = [c \in Calls |-> "none"]
    /\ reqLen = Garbled
    /\ answer = [c \in Calls |-> Refusal]
    /\ applied = [c \in Calls |-> 0]
    /\ failures = 0 /\ exited = FALSE

Next == StoreRequest \/ Calling \/ Main

\* The worker thread runs and its wait ends; the main thread may be stuck.
Fairness == WF_vars(Calling)

Spec == Init /\ [][Next]_vars /\ Fairness

-----------------------------------------------------------------------------
\* The control words, the buffer and both threads' locals keep their types; the
\* channel is PENDING only from the post of a call to its end.
TypeOK ==
    /\ state \in {IDLE, PENDING, DONE}
    /\ len \in Contents /\ data \in Contents /\ gotLen \in Contents /\ reqLen \in Contents
    /\ caller \in {"idle", "len", "state", "post", "wait", "blocked", "timeout",
                   "readLen", "readData", "release"}
    /\ call \in 0 .. MaxCalls
    /\ result \in [Calls -> Contents \cup {NoResult, TimedOut}]
    /\ late \in BOOLEAN /\ hurried \subseteq Calls
    /\ main \in {"idle", "readData", "len", "done", "notify"}
    /\ current \in Calls \cup {None}
    /\ (main = "idle") = (current = None)
    /\ state = PENDING => caller \notin {"idle", "len", "state"}
    /\ handler \in [Calls -> {"none", "posted", "running", "finished"}]
    /\ answer \in [Calls -> Contents]
    /\ applied \in [Calls -> Nat]
    /\ failures \in 0 .. MaxFailures
    /\ exited \in BOOLEAN

\* A call returns the result of its own operation or throws: never another
\* session's data, its own request or a response it cannot parse.
AnswerMatchesCall ==
    \A c \in Calls : result[c] \in {NoResult, TimedOut, Response(c)}

\* As long as no call has begun while an earlier operation was under way, a call
\* returns its own result or throws.  Only a call that began before the last response
\* was notified may be woken too early, and reads its own request or a torn response.
OwnAnswers ==
    ~late =>
        \A c \in Calls : \/ result[c] \in {NoResult, TimedOut, Response(c)}
                         \/ result[c] \in {Request(c), Garbled} /\ c \in hurried

\* As long as that holds, each operation is run on the session store at most once,
\* and when its call has returned a result, exactly once: create is not repeated.
AppliedOnce ==
    ~late =>
        \A c \in Calls : /\ applied[c] <= 1
                         /\ result[c].kind = "response" => applied[c] = 1

\* Every call returns or throws, or the process has exited.
CallsReturn == caller # "idle" ~> caller = "idle" \/ exited
=============================================================================
