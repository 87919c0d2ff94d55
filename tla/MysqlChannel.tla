---------------------------- MODULE MysqlChannel ----------------------------
(***************************************************************************)
(* The synchronous call channel between SyncMysqlDriver (database/         *)
(* mysql.ts), which blocks its thread in Atomics.wait, and the MySQL       *)
(* worker (database/mysql-worker.ts), which serves each message in an      *)
(* asynchronous handler.  Both sides share four control words and one data *)
(* buffer that carries the request and the response; one step here is one  *)
(* load, store or notify, so the two threads interleave as they do in the  *)
(* program.  Atomics.wait compares and blocks in one step; a notify wakes  *)
(* whoever is blocked, whatever the word holds by then.                    *)
(*                                                                         *)
(* Each call sends one operation, named by the number of the call, and     *)
(* posts one message; the handler of that message has the same number, and *)
(* learns the operation only from the buffer.                              *)
(***************************************************************************)
EXTENDS Integers, FiniteSets

CONSTANTS
    MaxCalls,      \* bound: calls of sendAndWait()
    TimeoutStages  \* how far the handler of a call may be when the call times out

ASSUME MaxCallsAssumption == MaxCalls \in Nat \ {0}

Stages == {"posted", "running", "writing", "finished"}
ASSUME TimeoutStagesAssumption == TimeoutStages \subseteq Stages

Calls == 1 .. MaxCalls
None == 0
IDLE == "idle"
PENDING == "pending"
DONE == "done"

Request(c)  == [kind |-> "request", call |-> c]
Response(c) == [kind |-> "response", call |-> c]   \* the result of operation c
Failure     == [kind |-> "failure", call |-> None] \* UNKNOWN_OP or BAD_REQUEST
Garbled     == [kind |-> "garbled", call |-> None] \* bytes that do not parse
Contents    == {Request(c) : c \in Calls} \cup {Response(c) : c \in Calls}
               \cup {Failure, Garbled}

\* What a call can end with beside a decoded message.
NoResult  == [kind |-> "none", call |-> None]
TimedOut  == [kind |-> "timeout", call |-> None]
StaleSeen == [kind |-> "stale", call |-> None]

\* What decode(dataBuf.slice(0, len)) yields when the bytes are those of one
\* message and the length that of another: the message, if they are as long.
Decode(bytes, length) == IF bytes = length THEN {bytes} ELSE {bytes, Garbled}

DriverSteps == {"idle", "data", "len", "state", "post", "wait", "blocked",
                "timeout", "check", "readLen", "readData", "release"}
WorkerSteps == {"idle", "readLen", "readData", "check", "data", "len", "seq", "done",
                "notify"}

VARIABLES
    state,     \* ctrl[0]
    len,       \* ctrl[1], as the message it is the length of
    reqSeq,    \* ctrl[2]
    respSeq,   \* ctrl[3]
    data,      \* dataBuf
    driver,    \* where sendAndWait() stands
    call,      \* the current or last call
    seq,       \* this.seq
    mySeq,     \* mySeq of the current call
    gotLen,    \* respLen
    result,    \* what each call returned or threw
    raced,     \* history: a call has timed out, or been followed by the next one
               \* without having timed out, while it was unsettled
    hurried,   \* history: the calls begun between the last response and its notify
    worker,    \* where the worker's running code stands
    current,   \* the handler that is running on the worker, or None
    handler,   \* stage of the handler of each message
    captured,  \* capturedSeq
    wLen,      \* reqLen
    answer,    \* what the handler will respond
    started    \* how often each operation was handed to the database

shared      == <<state, len, reqSeq, respSeq, data>>
driverVars  == <<driver, call, seq, mySeq, gotLen, result, raced, hurried>>
workerVars  == <<worker, current, handler, captured, wLen, answer, started>>
vars == <<shared, driverVars, workerVars>>

-----------------------------------------------------------------------------
(* sendAndWait() *)

\* How far the handler of a message is.
Stage(h) == IF worker \in {"data", "len", "seq", "done"} /\ current = h
            THEN "writing" ELSE handler[h]

\* Its message is unread, or its response is being written.
Unsettled(h) == Stage(h) \in {"posted", "writing"}

\* const mySeq = ++this.seq; Atomics.store(ctrl, 2, mySeq)
StoreSeq ==
    /\ driver = "idle" /\ call < MaxCalls
    /\ call' = call + 1
    /\ seq' = seq + 1 /\ mySeq' = seq + 1 /\ reqSeq' = seq + 1
    /\ driver' = "data"
    /\ raced' = (raced \/ (call # 0 /\ result[call] # TimedOut /\ Unsettled(call)))
    /\ hurried' = IF worker = "notify" THEN hurried \cup {call + 1} ELSE hurried
    /\ UNCHANGED <<state, len, respSeq, data, gotLen, result, workerVars>>

\* this.dataBuf.set(reqBytes)
StoreRequest ==
    /\ driver = "data"
    /\ data' = Request(call)
    /\ driver' = "len"
    /\ UNCHANGED <<state, len, reqSeq, respSeq, call, seq, mySeq, gotLen, result,
                   raced, hurried, workerVars>>

StoreLength ==
    /\ driver = "len"
    /\ len' = Request(call)
    /\ driver' = "state"
    /\ UNCHANGED <<state, reqSeq, respSeq, data, call, seq, mySeq, gotLen, result,
                   raced, hurried, workerVars>>

StorePending ==
    /\ driver = "state"
    /\ state' = PENDING
    /\ driver' = "post"
    /\ UNCHANGED <<len, reqSeq, respSeq, data, call, seq, mySeq, gotLen, result,
                   raced, hurried, workerVars>>

\* this.worker.postMessage(null)
PostMessage ==
    /\ driver = "post"
    /\ handler' = [handler EXCEPT ![call] = "posted"]
    /\ driver' = "wait"
    /\ UNCHANGED <<shared, call, seq, mySeq, gotLen, result, raced, hurried, worker,
                   current, captured, wLen, answer, started>>

\* Atomics.wait compares and blocks; it returns 'not-equal' at once.
Wait ==
    /\ driver = "wait"
    /\ driver' = IF state = PENDING THEN "blocked" ELSE "check"
    /\ UNCHANGED <<shared, call, seq, mySeq, gotLen, result, raced, hurried, workerVars>>

\* 'timed-out': Atomics.store(ctrl, 2, ++this.seq).  DONE may just have been
\* stored and not yet notified.
BumpNothing == UNCHANGED <<seq, reqSeq>>                    \* seeded fault
BumpUnsaved == reqSeq' = seq + 1 /\ UNCHANGED seq           \* seeded fault
BumpSeq == seq' = seq + 1 /\ reqSeq' = seq + 1

WaitForever == FALSE                                        \* seeded fault

Timeout ==
    /\ driver = "blocked"
    /\ Stage(call) \in TimeoutStages
    /\ BumpSeq
    /\ raced' = (raced \/ Unsettled(call))
    /\ driver' = "timeout"
    /\ UNCHANGED <<state, len, respSeq, data, call, mySeq, gotLen, result, hurried,
                   workerVars>>

GiveUp ==
    /\ driver = "timeout"
    /\ state' = IDLE
    /\ result' = [result EXCEPT ![call] = TimedOut]
    /\ driver' = "idle"
    /\ UNCHANGED <<len, reqSeq, respSeq, data, call, seq, mySeq, gotLen, raced,
                   hurried, workerVars>>

\* respSeq !== mySeq
Stale == respSeq # mySeq

CheckStale ==
    /\ driver = "check" /\ Stale
    /\ state' = IDLE
    /\ result' = [result EXCEPT ![call] = StaleSeen]
    /\ driver' = "idle"
    /\ UNCHANGED <<len, reqSeq, respSeq, data, call, seq, mySeq, gotLen, raced,
                   hurried, workerVars>>

CheckOk ==
    /\ driver = "check" /\ ~Stale
    /\ driver' = "readLen"
    /\ UNCHANGED <<shared, call, seq, mySeq, gotLen, result, raced, hurried, workerVars>>

LoadLength ==
    /\ driver = "readLen"
    /\ gotLen' = len
    /\ driver' = "readData"
    /\ UNCHANGED <<shared, call, seq, mySeq, result, raced, hurried, workerVars>>

LoadResponse ==
    /\ driver = "readData"
    /\ \E message \in Decode(data, gotLen) :
          result' = [result EXCEPT ![call] = message]
    /\ driver' = "release"
    /\ UNCHANGED <<shared, call, seq, mySeq, gotLen, raced,
                   hurried, workerVars>>

StoreIdle ==
    /\ driver = "release"
    /\ state' = IDLE
    /\ driver' = "idle"
    /\ UNCHANGED <<len, reqSeq, respSeq, data, call, seq, mySeq, gotLen, result,
                   raced, hurried, workerVars>>

\* A call that has begun
Calling ==
    \/ StoreRequest \/ StoreLength \/ StorePending \/ PostMessage
    \/ Wait \/ Timeout \/ GiveUp \/ CheckStale \/ CheckOk
    \/ LoadLength \/ LoadResponse \/ StoreIdle

-----------------------------------------------------------------------------
(* The message handler of the worker.  Its synchronous parts do not        *)
(* interleave with other handlers; only handleRequest() awaits.            *)

\* const capturedSeq = Atomics.load(ctrl, 2), for the oldest message
CaptureSeq(h) ==
    /\ worker = "idle" /\ handler[h] = "posted"
    /\ \A g \in Calls : handler[g] = "posted" => h <= g
    /\ captured' = [captured EXCEPT ![h] = reqSeq]
    /\ current' = h
    /\ worker' = "readLen"
    /\ UNCHANGED <<shared, driverVars, handler, wLen, answer, started>>

LoadRequestLength ==
    /\ worker = "readLen"
    /\ wLen' = len
    /\ worker' = "readData"
    /\ UNCHANGED <<shared, driverVars, current, handler, captured, answer, started>>

\* A request goes to the database, which answers later; anything else is
\* answered with an error at once (BAD_REQUEST, UNKNOWN_OP).
LoadRequest ==
    /\ worker = "readData"
    /\ handler' = [handler EXCEPT ![current] = "running"]
    /\ \E message \in Decode(data, wLen) :
          \/ /\ message.kind = "request"
             /\ started' = [started EXCEPT ![message.call] = @ + 1]
             /\ answer' = [answer EXCEPT ![current] = Response(message.call)]
             /\ worker' = "idle" /\ current' = None
          \/ /\ message.kind # "request"
             /\ answer' = [answer EXCEPT ![current] = Failure]
             /\ worker' = "check"
             /\ UNCHANGED <<current, started>>
    /\ UNCHANGED <<shared, driverVars, captured, wLen>>

\* handleRequest() resolved; writeResponse() drops the answer of an old seq.
Outdated(h) == reqSeq # captured[h]

Resolved(h) ==
    \/ worker = "idle" /\ handler[h] = "running"
    \/ worker = "check" /\ current = h

DropResponse(h) ==
    /\ Resolved(h) /\ Outdated(h)
    /\ handler' = [handler EXCEPT ![h] = "finished"]
    /\ worker' = "idle" /\ current' = None
    /\ UNCHANGED <<shared, driverVars, captured, wLen, answer, started>>

CheckSeq(h) ==
    /\ Resolved(h) /\ ~Outdated(h)
    /\ current' = h
    /\ worker' = "data"
    /\ UNCHANGED <<shared, driverVars, handler, captured, wLen, answer, started>>

WriteResponse ==
    /\ worker = "data"
    /\ data' = answer[current]
    /\ worker' = "len"
    /\ UNCHANGED <<state, len, reqSeq, respSeq, driverVars, current, handler,
                   captured, wLen, answer, started>>

WriteLength ==
    /\ worker = "len"
    /\ len' = answer[current]
    /\ worker' = "seq"
    /\ UNCHANGED <<state, reqSeq, respSeq, data, driverVars, current, handler,
                   captured, wLen, answer, started>>

WriteSeq ==
    /\ worker = "seq"
    /\ respSeq' = captured[current]
    /\ worker' = "done"
    /\ UNCHANGED <<state, len, reqSeq, data, driverVars, current, handler,
                   captured, wLen, answer, started>>

\* Atomics.store(ctrl, 0, DONE)
WriteDone ==
    /\ worker = "done"
    /\ state' = DONE
    /\ handler' = [handler EXCEPT ![current] = "finished"]
    /\ worker' = "notify"
    /\ UNCHANGED <<len, reqSeq, respSeq, data, driverVars, current, captured, wLen,
                   answer, started>>

\* Atomics.notify(ctrl, 0, 1) wakes the driver if it is blocked, be it in the next call.
Notify ==
    /\ worker = "notify"
    /\ driver' = IF driver = "blocked" THEN "check" ELSE driver
    /\ worker' = "idle" /\ current' = None
    /\ UNCHANGED <<shared, call, seq, mySeq, gotLen, result, raced, hurried, handler,
                   captured, wLen, answer, started>>

Worker ==
    \/ \E h \in Calls : CaptureSeq(h) \/ DropResponse(h) \/ CheckSeq(h)
    \/ LoadRequestLength \/ LoadRequest
    \/ WriteResponse \/ WriteLength \/ WriteSeq \/ WriteDone \/ Notify

-----------------------------------------------------------------------------
Init ==
    /\ state = IDLE /\ len = Garbled /\ reqSeq = 0 /\ respSeq = 0 /\ data = Garbled
    /\ driver = "idle" /\ call = 0 /\ seq = 0 /\ mySeq = 0 /\ gotLen = Garbled
    /\ result = [c \in Calls |-> NoResult] /\ raced = FALSE /\ hurried = {}
    /\ worker = "idle" /\ current = None
    /\ handler = [c \in Calls |-> "none"]
    /\ captured = [c \in Calls |-> 0]
    /\ wLen = Garbled
    /\ answer = [c \in Calls |-> Failure]
    /\ started = [c \in Calls |-> 0]

Next == StoreSeq \/ Calling \/ Worker

\* The driver thread runs and its wait ends; the database may never answer.
Fairness == WF_vars(Calling)

Spec == Init /\ [][Next]_vars /\ Fairness

-----------------------------------------------------------------------------
\* The control words, the buffer and both threads' locals keep their types;
\* the sequence numbers written to shared memory are at most this.seq.
TypeOK ==
    /\ state \in {IDLE, PENDING, DONE}
    /\ len \in Contents /\ data \in Contents /\ gotLen \in Contents /\ wLen \in Contents
    /\ seq \in 0 .. 2 * MaxCalls
    /\ reqSeq \in 0 .. seq /\ respSeq \in 0 .. seq /\ mySeq \in 0 .. seq
    /\ driver \in DriverSteps
    /\ call \in 0 .. MaxCalls
    /\ result \in [Calls -> Contents \cup {NoResult, TimedOut, StaleSeen}]
    /\ raced \in BOOLEAN /\ hurried \subseteq Calls
    /\ worker \in WorkerSteps
    /\ current \in Calls \cup {None}
    /\ handler \in [Calls -> {"none", "posted", "running", "finished"}]
    /\ captured \in [Calls -> 0 .. seq]
    /\ answer \in [Calls -> Contents]
    /\ started \in [Calls -> Nat]

\* The two seq checks keep late answers apart: unless a call has raced, every
\* call returns its own operation's result or a timeout, never a failed or foreign
\* answer, and no operation is handed to the database twice.  Only a call that has begun before
\* the last response was notified may be woken too early and throw a stale response.
ExactOrTimedOut ==
    ~raced =>
        \A c \in Calls :
            /\ \/ result[c] \in {NoResult, TimedOut, Response(c)}
               \/ result[c] = StaleSeen /\ c \in hurried
            /\ started[c] <= 1

\* The comments on seq in mysql.ts and in writeResponse(): a late response is
\* discarded instead of corrupting the next call's payload: what a waiting
\* call has written stays in the buffer until its message is picked up, as long as no
\* call has raced.
PayloadIntact ==
    ~raced /\ driver \in {"wait", "blocked"} /\ handler[call] = "posted" =>
        data = Request(call)

\* The comments at handler entry and in sendAndWait(): a stale response is
\* dropped, so no call returns the result of another operation.
AnswerMatchesCall ==
    \A c \in Calls : result[c].kind = "response" => result[c].call = c

\* Every call returns, even if the worker never answers.
CallsReturn == driver # "idle" ~> driver = "idle"
=============================================================================
