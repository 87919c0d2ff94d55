---------------------------- MODULE RequestPool ----------------------------
(***************************************************************************)
(* The request worker pool of src/src/workers/request-pool.ts: the main    *)
(* thread hands each HTTP request to one of Size worker threads, queues it *)
(* when none is free, times it out, and replaces workers that crash, ask   *)
(* to be rotated or answer too late.                                       *)
(*                                                                         *)
(* The pool's own code runs on the main thread, one event handler at a     *)
(* time; every action below named after a function is one such handler.    *)
(* The worker threads run in between: they answer, crash, boot and exit    *)
(* at any time, and their messages reach the main thread in order.         *)
(*                                                                         *)
(* A WorkerSlot object and its thread are one number, the threadId: a      *)
(* replacement is always a new object around a new thread.                 *)
(***************************************************************************)
EXTENDS Integers, Sequences, FiniteSets, SequencesExt

CONSTANTS
    Size,         \* number of slots (constructor argument)
    MaxQueue,     \* maxQueueSize
    MaxRequests,  \* bound: calls of dispatch() that take an id
    MaxThreads,   \* bound: worker threads ever started
    MaxFaults     \* bound: crashes, rotations and failed boots

ASSUME SizeAssumption == Size \in Nat \ {0}
ASSUME MaxQueueAssumption == MaxQueue \in Nat
ASSUME MaxRequestsAssumption == MaxRequests \in Nat
ASSUME MaxThreadsAssumption == MaxThreads \in Nat /\ MaxThreads >= Size
ASSUME MaxFaultsAssumption == MaxFaults \in Nat

Indexes  == 0 .. Size - 1
Requests == 0 .. MaxRequests - 1
Workers  == 1 .. MaxThreads
Null     == -1

Outcomes == {"none", "answered", "crashed", "timeout", "overloaded", "shutdown"}

(***************************************************************************)
(* booting/rebooting: createSlot() has not settled yet, on the first try   *)
(* or on the retry after the 2 s pause.  crashed: the thread died and its  *)
(* 'error' event is not handled yet.  terminating: terminate() was called; *)
(* dying: it was called on a thread that has failed.                       *)
(***************************************************************************)
ThreadStates == {"unused", "booting", "rebooting", "alive", "crashed",
                 "terminating", "dying", "dead"}

Messages == [kind : {"response"}, id : Requests, needsRestart : BOOLEAN]
            \cup {[kind |-> "error"]}

VARIABLES
    slots,      \* this.slots: the worker of each index, or Null
    queue,      \* this.queue: ids of the waiting requests
    nextId,     \* this.nextId
    closed,     \* this.closed
    closing,    \* the workers whose termination close() is awaiting
    pending,    \* slot.pending: the request a worker was given, or Null
    retiring,   \* slot.retiring
    home,       \* slot.index
    thread,     \* the state of the worker thread
    job,        \* the request the thread has received and not answered
    outbox,     \* its messages and events the main thread has not handled
    restarts,   \* restartSlot() calls awaiting the worker's termination
    backoff,    \* 2 s retry timers armed for an index
    timer,      \* is the timer of a request armed?
    outcome,    \* how the promise of a request was settled first
    lastThread, \* number of the last thread started
    faults,     \* faults injected so far (bounded by MaxFaults)
    lost,       \* history: failed retries of an index
    extra       \* history: restarts of a worker already being restarted

poolVars   == <<slots, queue, nextId, closed, closing, pending, retiring>>
threadVars == <<home, thread, job, outbox, lastThread, faults>>
chainVars  == <<restarts, backoff, lost, extra>>
callVars   == <<timer, outcome>>
vars == <<poolVars, threadVars, chainVars, callVars>>

-----------------------------------------------------------------------------
(* Helpers of the pool *)

\* s && !s.pending && !s.retiring
Free(i) ==
    /\ slots[i] # Null
    /\ pending[slots[i]] = Null
    /\ ~retiring[slots[i]]

\* this.slots.find(...): the free slot with the least index
FirstFree(i) == Free(i) /\ \A j \in Indexes : Free(j) => i <= j

\* Settling a promise twice keeps the first outcome; the timer is off either way.
Settle(r, how) ==
    /\ outcome' = [outcome EXCEPT ![r] = IF @ = "none" THEN how ELSE @]
    /\ timer' = [timer EXCEPT ![r] = FALSE]

\* sendToSlot(): slot.pending = dispatch; worker.postMessage(msg).
\* A thread that has failed never sees the message.
SendToSlot(w, r) ==
    /\ pending' = [pending EXCEPT ![w] = r]
    /\ job' = [job EXCEPT ![w] = IF thread[w] \in {"alive", "booting", "rebooting"}
                                 THEN r ELSE @]

\* this.queue.shift()
ShiftNothing == UNCHANGED queue                        \* seeded fault
Shift == queue' = Tail(queue)
LastWaiting == Last(queue)                             \* seeded fault: LIFO
NextWaiting == Head(queue)

\* drainQueue(), with pending cleared or the worker new, and not retiring.
DrainNothing(w) ==                                     \* seeded fault
    queue' = queue /\ pending' = [pending EXCEPT ![w] = Null] /\ job' = job
DrainQueue(w) ==
    IF queue # <<>>
    THEN Shift /\ SendToSlot(w, NextWaiting)
    ELSE queue' = queue /\ pending' = [pending EXCEPT ![w] = Null] /\ job' = job

\* handleWorkerCrash() rejects what the worker was doing.
RejectPending(w) ==
    IF pending[w] # Null THEN Settle(pending[w], "crashed") ELSE UNCHANGED callVars

\* terminate(): a live thread is asked to stop.
Terminate(state) ==
    CASE state = "alive" -> "terminating" [] state = "crashed" -> "dying" [] OTHER -> state

\* restartSlot(), up to the await of worker.terminate().
RestartSlot(w) ==
    /\ slots' = [slots EXCEPT ![home[w]] = Null]
    /\ restarts' = [restarts EXCEPT ![w] = @ + 1]
    /\ thread' = [thread EXCEPT ![w] = Terminate(@)]
    /\ extra' = [extra EXCEPT ![home[w]] =
                    IF thread[w] \in {"alive", "crashed"} THEN @ ELSE @ + 1]

\* createSlot(): a new thread for index i starts to boot.
CreateSlot(i, how) ==
    /\ lastThread < MaxThreads
    /\ lastThread' = lastThread + 1
    /\ thread' = [thread EXCEPT ![lastThread + 1] = how]
    /\ home' = [home EXCEPT ![lastThread + 1] = i]

-----------------------------------------------------------------------------
(* dispatch() and the request timer *)

ArmNoTimer(r) == UNCHANGED timer                       \* seeded fault
ArmTimer(r) == timer' = [timer EXCEPT ![r] = TRUE]

FullOffByOne == Len(queue) > MaxQueue                  \* seeded fault
Full == Len(queue) >= MaxQueue

\* dispatch() finds a free slot.
DispatchToSlot ==
    /\ ~closed
    /\ nextId < MaxRequests
    /\ nextId' = nextId + 1
    /\ ArmTimer(nextId)
    /\ \E i \in Indexes : FirstFree(i) /\ SendToSlot(slots[i], nextId)
    /\ UNCHANGED <<slots, queue, closed, closing, retiring, home, thread, outbox,
                   lastThread, faults, chainVars, outcome>>

\* dispatch() finds none and queues the request.
DispatchToQueue ==
    /\ ~closed
    /\ nextId < MaxRequests
    /\ \A i \in Indexes : ~Free(i)
    /\ ~Full
    /\ nextId' = nextId + 1
    /\ ArmTimer(nextId)
    /\ queue' = Append(queue, nextId)
    /\ UNCHANGED <<slots, closed, closing, pending, retiring, threadVars,
                   chainVars, outcome>>

\* dispatch() finds none and the queue is full: the timer is cleared again.
DispatchOverloaded ==
    /\ ~closed
    /\ nextId < MaxRequests
    /\ \A i \in Indexes : ~Free(i)
    /\ Full
    /\ nextId' = nextId + 1
    /\ outcome' = [outcome EXCEPT ![nextId] = "overloaded"]
    /\ UNCHANGED <<slots, queue, closed, closing, pending, retiring, threadVars,
                   chainVars, timer>>

\* All timers have the same duration, so Node fires them in the order of the ids.
TimerDue(r) == timer[r] /\ \A q \in Requests : timer[q] => r <= q

\* The timer of a queued request: splice it out and reject.
TimeoutQueued(r) ==
    /\ TimerDue(r)
    /\ \E k \in 1 .. Len(queue) :
          /\ queue[k] = r
          /\ queue' = RemoveAt(queue, k)
    /\ Settle(r, "timeout")
    /\ UNCHANGED <<slots, nextId, closed, closing, pending, retiring, threadVars,
                   chainVars>>

\* slot.retiring = true, for the slot whose pending request is r
RetireNobody(r) == UNCHANGED retiring                  \* seeded fault
Retire(r) ==
    retiring' = [w \in Workers |->
                   retiring[w] \/ (pending[w] = r /\ \E i \in Indexes : slots[i] = w)]

\* The slot keeps its pending request after the timeout.
KeepPending(r) == UNCHANGED pending

\* The timer of a request that was sent: its worker, if it is in a slot, retires.
\* slot.pending stays until the worker answers or crashes.
TimeoutSent(r) ==
    /\ TimerDue(r)
    /\ \A k \in 1 .. Len(queue) : queue[k] # r
    /\ Retire(r)
    /\ KeepPending(r)
    /\ Settle(r, "timeout")
    /\ UNCHANGED <<slots, queue, nextId, closed, closing, threadVars, chainVars>>

-----------------------------------------------------------------------------
(* onWorkerMessage() and the 'error' event *)

HasResponse(w) == outbox[w] # <<>> /\ Head(outbox[w]).kind = "response"

\* The answer of a worker that stays: the next waiting request goes to it.
\* (A response whose id is not the pending one is dropped by the code;
\* AnswersMatch shows there is none.)
ResponseDrain(w) ==
    /\ HasResponse(w)
    /\ pending[w] = Head(outbox[w]).id
    /\ ~Head(outbox[w]).needsRestart /\ ~retiring[w]
    /\ outbox' = [outbox EXCEPT ![w] = Tail(@)]
    /\ Settle(pending[w], "answered")
    /\ DrainQueue(w)
    /\ UNCHANGED <<slots, nextId, closed, closing, retiring, home, thread,
                   lastThread, faults, chainVars>>

\* The answer of a worker that asks for rotation, or that had timed out.
ResponseRestart(w) ==
    /\ HasResponse(w)
    /\ pending[w] = Head(outbox[w]).id
    /\ Head(outbox[w]).needsRestart \/ retiring[w]
    /\ outbox' = [outbox EXCEPT ![w] = Tail(@)]
    /\ Settle(pending[w], "answered")
    /\ pending' = [pending EXCEPT ![w] = Null]
    /\ RestartSlot(w)
    /\ UNCHANGED <<queue, nextId, closed, closing, retiring, home, job,
                   lastThread, faults, backoff, lost>>

\* handleWorkerCrash(), on the 'error' event of a worker that had booted.
HandleWorkerCrash(w) ==
    /\ outbox[w] # <<>> /\ Head(outbox[w]).kind = "error"
    /\ outbox' = [outbox EXCEPT ![w] = Tail(@)]
    /\ RejectPending(w)
    /\ pending' = [pending EXCEPT ![w] = Null]
    /\ RestartSlot(w)
    /\ UNCHANGED <<queue, nextId, closed, closing, retiring, home, job,
                   lastThread, faults, backoff, lost>>

-----------------------------------------------------------------------------
(* The rest of restartSlot(): replacement, pause and retry *)

\* terminate() resolved: stop if the pool was closed, else boot a replacement.
RestartTerminated(w) ==
    /\ restarts[w] > 0 /\ thread[w] = "dead"
    /\ restarts' = [restarts EXCEPT ![w] = @ - 1]
    /\ IF closed THEN UNCHANGED <<home, thread, lastThread>>
                 ELSE CreateSlot(home[w], "booting")
    /\ UNCHANGED <<poolVars, job, outbox, faults, backoff, lost, extra, callVars>>

\* 'ready' arrived: the slot is installed, whatever close() did meanwhile.
Booted(w) ==
    /\ thread[w] \in {"booting", "rebooting"}
    /\ slots' = [slots EXCEPT ![home[w]] = w]
    /\ thread' = [thread EXCEPT ![w] = "alive"]
    /\ DrainQueue(w)
    /\ UNCHANGED <<nextId, closed, closing, retiring, home, outbox, lastThread,
                   faults, chainVars, callVars>>

\* if (!this.closed) setTimeout(..., 2000)
ArmNoRetry(i) == UNCHANGED backoff                     \* seeded fault
ArmRetry(i) == backoff' = [backoff EXCEPT ![i] = IF closed THEN @ ELSE @ + 1]

\* createSlot() rejected on the first try: empty the slot and pause 2 s.
BootFailed(w) ==
    /\ thread[w] = "booting" /\ faults < MaxFaults
    /\ faults' = faults + 1
    /\ thread' = [thread EXCEPT ![w] = "dead"]
    /\ slots' = [slots EXCEPT ![home[w]] = Null]
    /\ ArmRetry(home[w])
    /\ UNCHANGED <<queue, nextId, closed, closing, pending, retiring, home, job,
                   outbox, lastThread, restarts, lost, extra, callVars>>

\* The 2 s timer fires.
RetryTimer(i) ==
    /\ backoff[i] > 0
    /\ backoff' = [backoff EXCEPT ![i] = @ - 1]
    /\ IF closed THEN UNCHANGED <<home, thread, lastThread>>
                 ELSE CreateSlot(i, "rebooting")
    /\ UNCHANGED <<poolVars, job, outbox, faults, restarts, lost, extra, callVars>>

\* createSlot() rejected on the retry: the failure is only logged.
RetryFailed(w) ==
    /\ thread[w] = "rebooting" /\ faults < MaxFaults
    /\ faults' = faults + 1
    /\ thread' = [thread EXCEPT ![w] = "dead"]
    /\ lost' = [lost EXCEPT ![home[w]] = @ + 1]
    /\ UNCHANGED <<poolVars, home, job, outbox, lastThread, restarts, backoff,
                   extra, callVars>>

-----------------------------------------------------------------------------
(* close() *)

InSlots == {slots[i] : i \in Indexes} \ {Null}

\* Up to the await: reject what is queued, terminate the workers in the slots.
Close ==
    /\ ~closed
    /\ closed' = TRUE
    /\ outcome' = [r \in Requests |->
                     IF \E k \in 1 .. Len(queue) : queue[k] = r
                     THEN "shutdown" ELSE outcome[r]]
    /\ timer' = [r \in Requests |-> timer[r] /\ \A k \in 1 .. Len(queue) : queue[k] # r]
    /\ queue' = <<>>
    /\ closing' = InSlots
    /\ thread' = [w \in Workers |->
                    IF w \in InSlots THEN Terminate(thread[w]) ELSE thread[w]]
    /\ UNCHANGED <<slots, nextId, pending, retiring, home, job, outbox, lastThread,
                   faults, chainVars>>

\* All terminations awaited have resolved: this.slots = [].
CloseDone ==
    /\ closed /\ closing # {}
    /\ \A w \in closing : thread[w] = "dead"
    /\ closing' = {}
    /\ slots' = [i \in Indexes |-> Null]
    /\ UNCHANGED <<queue, nextId, closed, pending, retiring, threadVars, chainVars,
                   callVars>>

-----------------------------------------------------------------------------
(* The worker threads (request-worker.ts, seen from the pool) *)

Running(w) == thread[w] \in {"alive", "terminating"}

\* The thread has handled its request and posts the response; it asks for
\* rotation after enough requests or memory growth.
Answer(w, needsRestart) ==
    /\ Running(w) /\ job[w] # Null
    /\ needsRestart => faults < MaxFaults
    /\ faults' = IF needsRestart THEN faults + 1 ELSE faults
    /\ job' = [job EXCEPT ![w] = Null]
    /\ outbox' = [outbox EXCEPT ![w] =
                     Append(@, [kind |-> "response", id |-> job[w],
                                needsRestart |-> needsRestart])]
    /\ UNCHANGED <<poolVars, home, thread, lastThread, chainVars, callVars>>

\* An uncaught error or the heap limit ends the thread, busy or idle.
Crash(w) ==
    /\ Running(w) /\ faults < MaxFaults
    /\ faults' = faults + 1
    /\ thread' = [thread EXCEPT ![w] = IF @ = "alive" THEN "crashed" ELSE "dying"]
    /\ job' = [job EXCEPT ![w] = Null]
    /\ outbox' = [outbox EXCEPT ![w] = Append(@, [kind |-> "error"])]
    /\ UNCHANGED <<poolVars, home, lastThread, chainVars, callVars>>

\* The thread is gone; Node delivers what it had posted before 'exit'.
ThreadExit(w) ==
    /\ thread[w] \in {"terminating", "dying"} /\ outbox[w] = <<>>
    /\ thread' = [thread EXCEPT ![w] = "dead"]
    /\ job' = [job EXCEPT ![w] = Null]
    /\ UNCHANGED <<poolVars, home, outbox, lastThread, faults, chainVars, callVars>>

-----------------------------------------------------------------------------
\* The state initialize() leaves: worker i + 1 in slot i, all ready.
Init ==
    /\ slots = [i \in Indexes |-> i + 1]
    /\ queue = <<>>
    /\ nextId = 0
    /\ closed = FALSE
    /\ closing = {}
    /\ pending = [w \in Workers |-> Null]
    /\ retiring = [w \in Workers |-> FALSE]
    /\ home = [w \in Workers |-> IF w <= Size THEN w - 1 ELSE 0]
    /\ thread = [w \in Workers |-> IF w <= Size THEN "alive" ELSE "unused"]
    /\ job = [w \in Workers |-> Null]
    /\ outbox = [w \in Workers |-> <<>>]
    /\ restarts = [w \in Workers |-> 0]
    /\ backoff = [i \in Indexes |-> 0]
    /\ timer = [r \in Requests |-> FALSE]
    /\ outcome = [r \in Requests |-> "none"]
    /\ lastThread = Size
    /\ faults = 0
    /\ lost = [i \in Indexes |-> 0]
    /\ extra = [i \in Indexes |-> 0]

Dispatch == DispatchToSlot \/ DispatchToQueue \/ DispatchOverloaded
Timeout(r) == TimeoutQueued(r) \/ TimeoutSent(r)
OnWorkerEvent(w) == ResponseDrain(w) \/ ResponseRestart(w) \/ HandleWorkerCrash(w)
BootSettled(w) == Booted(w) \/ BootFailed(w) \/ RetryFailed(w)

Next ==
    \/ Dispatch
    \/ \E r \in Requests : Timeout(r)
    \/ \E w \in Workers :
          \/ OnWorkerEvent(w)
          \/ RestartTerminated(w)
          \/ BootSettled(w)
          \/ \E needsRestart \in BOOLEAN : Answer(w, needsRestart)
          \/ Crash(w)
          \/ ThreadExit(w)
    \/ \E i \in Indexes : RetryTimer(i)
    \/ Close
    \/ CloseDone

(***************************************************************************)
(* The event loop serves every timer and every message; a thread told to   *)
(* terminate exits and one told to boot does or fails.  Nothing is assumed *)
(* of the handlers: a request may run forever.                             *)
(***************************************************************************)
Fairness ==
    /\ \A r \in Requests : WF_vars(Timeout(r))
    /\ \A w \in Workers :
          /\ WF_vars(OnWorkerEvent(w))
          /\ WF_vars(RestartTerminated(w))
          /\ WF_vars(BootSettled(w))
          /\ WF_vars(ThreadExit(w))
    /\ \A i \in Indexes : WF_vars(RetryTimer(i))
    /\ WF_vars(CloseDone)

Spec == Init /\ [][Next]_vars
FairSpec == Spec /\ Fairness

-----------------------------------------------------------------------------
\* Every variable keeps the type the source gives it; the queue never exceeds
\* maxQueueSize (the fields of request-pool.ts, lines 25-46).
TypeOK ==
    /\ slots \in [Indexes -> Workers \cup {Null}]
    /\ queue \in Seq(Requests) /\ Len(queue) <= MaxQueue
    /\ nextId \in 0 .. MaxRequests
    /\ closed \in BOOLEAN
    /\ closing \in SUBSET Workers
    /\ pending \in [Workers -> Requests \cup {Null}]
    /\ retiring \in [Workers -> BOOLEAN]
    /\ home \in [Workers -> Indexes]
    /\ thread \in [Workers -> ThreadStates]
    /\ job \in [Workers -> Requests \cup {Null}]
    /\ outbox \in [Workers -> Seq(Messages)]
    /\ restarts \in [Workers -> Nat]
    /\ backoff \in [Indexes -> Nat]
    /\ timer \in [Requests -> BOOLEAN]
    /\ outcome \in [Requests -> Outcomes]
    /\ lastThread \in Size .. MaxThreads
    /\ faults \in 0 .. MaxFaults
    /\ lost \in [Indexes -> Nat]
    /\ extra \in [Indexes -> Nat]

Queued(r) == \E k \in 1 .. Len(queue) : queue[k] = r
Sent(r)   == \E w \in Workers : pending[w] = r

\* No request is forgotten: one whose promise is open is either waiting or
\* given to a worker, and its timer is still armed (dispatch, its timer,
\* onWorkerMessage, handleWorkerCrash and close together keep this).
OpenRequestsTracked ==
    \A r \in Requests :
        r < nextId /\ outcome[r] = "none" => timer[r] /\ (Queued(r) \/ Sent(r))

\* No request is executed twice: it is in the queue once or held by one
\* worker, and never both (drainQueue shifts exactly what it sends).
AtMostOnePlace ==
    /\ \A r \in Requests : ~(Queued(r) /\ Sent(r))
    /\ \A v, w \in Workers : pending[v] = pending[w] /\ pending[v] # Null => v = w
    /\ \A j, k \in 1 .. Len(queue) : j < k => queue[j] < queue[k]

\* Each request the pool has accepted is in one place until it is settled, and its
\* timer runs: none is lost and none is executed twice.
RequestsAccounted == OpenRequestsTracked /\ AtMostOnePlace

\* The pool never idles: while a request waits, no installed slot is free.
\* Every event that frees a worker must drain the queue for this.
WorkConserving == queue # <<>> => \A i \in Indexes : ~Free(i)

\* The id check of onWorkerMessage never drops the answer a request waits
\* for: a response on its way to the main thread is for the pending request.
AnswersMatch ==
    \A w \in Workers : \A k \in 1 .. Len(outbox[w]) :
        outbox[w][k].kind = "response" => outbox[w][k].id = pending[w]

\* A worker in a slot that let a request time out is retiring, so that it is
\* never given another request before it is replaced (dispatch's timer).
LateWorkersRetire ==
    \A i \in Indexes :
        slots[i] # Null /\ pending[slots[i]] # Null
            => (retiring[slots[i]] <=> outcome[pending[slots[i]]] = "timeout")

\* An answer reaches the request it is of, and a worker that answers after the
\* timeout of its request is replaced.
AnswersReachRequests == AnswersMatch /\ LateWorkersRetire

\* The workers of index i that are starting, serving or have failed unnoticed.
Staffing(i) ==
    {w \in Workers : home[w] = i
        /\ thread[w] \in {"booting", "rebooting", "alive", "crashed"}}

\* The calls of restartSlot() for index i that are not over, numbered by worker.
RestartCalls(i) ==
    UNION {{w} \X (1 .. restarts[w]) : w \in {v \in Workers : home[v] = i}}

\* Capacity is conserved while the pool is open: each index has one worker, or
\* one replacement under way, or lost it to a failed retry; a worker that is
\* restarted twice (rotation and crash) adds one more (restartSlot, its retry).
CapacityConserved ==
    ~closed => \A i \in Indexes :
        Cardinality(Staffing(i)) + Cardinality(RestartCalls(i)) + backoff[i] + lost[i]
            = 1 + extra[i]

\* Requests are started in the order of dispatch(): a request is never given
\* to a worker while an older one still waits, none is started twice or after
\* it was settled, and none goes to a worker that let a request time out.
StartedInOrder ==
    [][\A w \in Workers :
          pending'[w] # pending[w] /\ pending'[w] # Null
              => /\ ~retiring[w] /\ outcome[pending'[w]] = "none"
                 /\ \A k \in 1 .. Len(queue') : pending'[w] < queue'[k]
                 /\ \A v \in Workers : pending[v] # Null => pending[v] < pending'[w]]_vars

\* Every request dispatch() accepts is settled, even if its handler hangs.
EveryRequestSettles ==
    \A r \in Requests : r < nextId ~> outcome[r] # "none"

\* An empty slot is filled again, unless its retry failed or the pool closes.
SlotsRefilled ==
    \A i \in Indexes : slots[i] = Null ~> slots[i] # Null \/ lost[i] > 0 \/ closed
=============================================================================
