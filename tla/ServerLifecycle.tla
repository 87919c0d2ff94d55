-------------------------- MODULE ServerLifecycle --------------------------
(***************************************************************************)
(* The HTTP server around the worker pool: CleanNodeServer.handleRequest() *)
(* with its session lookup, its dispatch to the pool, the second dispatch  *)
(* to the program's error handler and the count of requests in flight; and *)
(* the shutdown of index.ts that drains them, closes pool and stores, and  *)
(* is cut short by a watchdog.  The pool is what DispatchContract says of  *)
(* it, with the time at which its timers expire.                           *)
(*                                                                         *)
(* The main thread runs one callback at a time, and the promise callbacks  *)
(* it causes before the next one: while a settled dispatch has not been    *)
(* taken up by handleRequest(), nothing else happens (Quiet).              *)
(***************************************************************************)
EXTENDS Integers, FiniteSets, Sequences

CONSTANTS
    Calls,        \* HTTP requests
    MaxQueue,     \* the queue of the pool
    Handlers,     \* whether programs have a global error handler: {TRUE, FALSE} for some
    Stores,       \* "memory" or "redis"
    Timeout,      \* timeout of a dispatch (30 s)
    Drain,        \* gracefulShutdown(timeoutMs) (30 s)
    Watchdog,     \* forced exit (35 s)
    MaxTime       \* bound: the clock

ASSUME CallsAssumption == IsFiniteSet(Calls)
ASSUME MaxQueueAssumption == MaxQueue \in Nat
ASSUME FlagsAssumption == Handlers \subseteq BOOLEAN /\ Stores \subseteq {"memory", "redis"}
ASSUME TimesAssumption ==
    /\ Timeout \in Nat \ {0} /\ Drain \in Nat /\ Watchdog \in Nat /\ MaxTime \in Nat
    /\ Timeout <= Drain /\ Drain < Watchdog

\* Every call takes at most one ticket, and one more for the error handler.
Tickets == 0 .. 2 * Cardinality(Calls) - 1
NoTicket == -1
Never == -1

VARIABLES
    errorHandler, \* the program registered a global error handler
    redis,      \* sessions are kept in Redis, so that a lookup waits and may fail
    issued, waiting, running, result, open, \* the pool, see DispatchContract
    expires,    \* ticket -> when its timer is due
    at,         \* where each call is in handleRequest()
    ticket,     \* the dispatch a call waits for, NoTicket if it was rejected at once
    inflight,   \* inflightCount
    now,        \* the clock
    main,       \* serving, and the steps of the shutdown
    since,      \* when the shutdown began, or Never
    early       \* tickets and calls of before the shutdown

Pool == INSTANCE DispatchContract WITH Requests <- Tickets

poolVars == <<issued, waiting, running, result, open>>
callVars == <<at, ticket, inflight>>
mainVars == <<main, since, early>>
config == <<errorHandler, redis>>
vars == <<poolVars, expires, callVars, now, mainVars, config>>

-----------------------------------------------------------------------------
(* handleRequest()                                                         *)

InPool(c) == at[c] \in {"handler", "fallback"}
Outcome(c) == IF ticket[c] = NoTicket THEN "closed" ELSE result[ticket[c]]
Settled(c) == InPool(c) /\ Outcome(c) # "none"

\* A lookup in the memory store is over before the next callback.
Quiet == main # "exited" /\ \A c \in Calls : ~Settled(c) /\ (redis \/ at[c] # "auth")

\* requestPool.dispatch(context, handlerName), for the step `step` of call c
Dispatch(c, step) ==
    /\ at' = [at EXCEPT ![c] = step]
    /\ IF open
       THEN /\ Pool!StartAtOnce \/ Pool!Wait \/ Pool!Refuse
            /\ ticket' = [ticket EXCEPT ![c] = issued]
            /\ expires' = [expires EXCEPT ![issued] = now + Timeout]
       ELSE /\ ticket' = [ticket EXCEPT ![c] = NoTicket]
            /\ UNCHANGED <<poolVars, expires>>

Respond(c) ==
    /\ at' = [at EXCEPT ![c] = "done"]
    /\ UNCHANGED <<ticket, poolVars, expires>>

\* The counted part of handleRequest() begins.
Enter(c) ==
    /\ Dispatch(c, "handler")
    /\ inflight' = inflight + 1

\* A request arrives while the server listens or on a connection kept alive.
ArriveStatic(c) ==
    /\ Quiet /\ at[c] = "new"
    /\ Respond(c)
    /\ UNCHANGED <<inflight, now, mainVars, config>>

ArrivePlain(c) ==
    /\ Quiet /\ at[c] = "new"
    /\ Enter(c)
    /\ UNCHANGED <<now, mainVars, config>>

ArriveProtected(c) ==
    /\ Quiet /\ at[c] = "new"
    /\ at' = [at EXCEPT ![c] = "auth"]
    /\ UNCHANGED <<ticket, inflight, poolVars, expires, now, mainVars, config>>

Turn(c) == main # "exited" /\ (Quiet \/ ~redis)

Authorised(c) ==
    /\ at[c] = "auth" /\ Turn(c) /\ Enter(c)
    /\ UNCHANGED <<now, mainVars, config>>

Unauthorised(c) ==
    /\ at[c] = "auth" /\ Turn(c)
    /\ Respond(c)
    /\ UNCHANGED <<inflight, now, mainVars, config>>

\* A rejected lookup rejects handleRequest(): index.ts ends the process.
LookupFails(c) ==
    /\ at[c] = "auth" /\ Turn(c) /\ redis
    /\ main' = "exited"
    /\ UNCHANGED <<callVars, poolVars, expires, now, since, early, config>>

\* The promise of the dispatch is settled, and handleRequest() goes on.  The
\* handler has answered, or failed with an error whose text says "timed out",
\* which is answered like a timeout.
Answered(c) ==
    /\ Settled(c) /\ Outcome(c) = "answered"
    /\ Respond(c)

Unavailable(c) == Outcome(c) \in {"timeout", "overloaded"}

Refused(c) == Settled(c) /\ at[c] = "handler" /\ Unavailable(c) /\ Respond(c)

\* The handler failed: the error handler gets the request, if there is one.
Failed(c) == Settled(c) /\ at[c] = "handler" /\ ~Unavailable(c)

FallBack(c) ==
    /\ Failed(c) /\ errorHandler
    /\ Dispatch(c, "fallback")
    /\ UNCHANGED <<inflight, now, mainVars, config>>

FailWithout(c) == Failed(c) /\ ~errorHandler /\ Respond(c)

\* The error handler failed, too: the answer is that of the first failure.
FallBackFailed(c) == Settled(c) /\ at[c] = "fallback" /\ Respond(c)

\* finally { this.inflightCount--; }
LeftTwice(c) == IF Unavailable(c) THEN inflight - 2 ELSE inflight - 1       \* seeded fault
LeftInFlight(c) == inflight - 1

Complete(c) ==
    /\ main # "exited"
    /\ Answered(c) \/ Refused(c) \/ FailWithout(c) \/ FallBackFailed(c)
    /\ inflight' = LeftInFlight(c)
    /\ UNCHANGED <<now, mainVars, config>>

-----------------------------------------------------------------------------
(* The workers, the timers of the pool and the clock                       *)

Unsettled(id) == id < issued /\ result[id] = "none"
Due(id) == Unsettled(id) /\ expires[id] <= now

\* A worker answers or crashes, or takes the next request.
WorkerStep ==
    /\ Quiet /\ main # "stores"
    /\ Pool!Finish \/ Pool!Take
    /\ \A id \in Tickets : result'[id] = "timeout" => result[id] = "timeout"
    /\ UNCHANGED <<expires, callVars, now, mainVars, config>>

Expire(id) ==
    /\ Quiet /\ Due(id)
    /\ Pool!Finish \/ Pool!TimeoutWaiting
    /\ result' = [result EXCEPT ![id] = "timeout"]
    /\ UNCHANGED <<expires, callVars, now, mainVars, config>>

-----------------------------------------------------------------------------
(* Shutdown: SIGINT, SIGTERM or the memory guard                           *)

Draining == main = "draining"
DrainOver == now >= since + Drain
EarlyDeadline == now >= since + Drain - 1                 \* seeded fault
DeadlinePassed == DrainOver

\* Timers that were armed before the shutdown are due before its deadline.
PollEnds ==
    /\ Draining
    /\ inflight = 0 \/ (DeadlinePassed /\ \A id \in Tickets : Due(id) => id >= early.tickets)

\* Only the first signal counts; then the server stops listening.
Shutdown ==
    /\ Quiet /\ since = Never
    /\ now + Watchdog <= MaxTime
    /\ since' = now /\ main' = "draining"
    /\ early' = [tickets |-> issued, calls |-> {c \in Calls : at[c] \notin {"new", "done"}}]
    /\ UNCHANGED <<callVars, poolVars, expires, now, config>>

ClosePool ==
    /\ Quiet /\ PollEnds
    /\ Pool!Close
    /\ main' = "closing"
    /\ UNCHANGED <<expires, callVars, now, since, early, config>>

\* Every worker is terminated.
PoolClosed ==
    /\ Quiet /\ main = "closing"
    /\ main' = "stores"
    /\ UNCHANGED <<expires, callVars, poolVars, now, since, early, config>>

\* The database and the session store are closed: process.exit(0).
StoresClosed ==
    /\ Quiet /\ main = "stores"
    /\ main' = "exited"
    /\ UNCHANGED <<expires, callVars, poolVars, now, since, early, config>>

WatchdogDue == since # Never /\ now >= since + Watchdog
NoWatchdog == FALSE                                       \* seeded fault
Overdue == WatchdogDue

ForceExit ==
    /\ Quiet /\ Overdue
    /\ main' = "exited"
    /\ UNCHANGED <<expires, callVars, poolVars, now, since, early, config>>

\* The clock goes on when no timer is due.
Tick ==
    /\ Quiet /\ now < MaxTime
    /\ \A id \in Tickets : ~Due(id)
    /\ ~PollEnds /\ ~Overdue
    /\ now' = now + 1
    /\ UNCHANGED <<expires, callVars, poolVars, mainVars, config>>

-----------------------------------------------------------------------------
Init ==
    /\ errorHandler \in Handlers
    /\ redis \in {kind = "redis" : kind \in Stores}
    /\ Pool!Init
    /\ expires = [id \in Tickets |-> Never]
    /\ at = [c \in Calls |-> "new"]
    /\ ticket = [c \in Calls |-> NoTicket]
    /\ inflight = 0 /\ now = 0
    /\ main = "serving" /\ since = Never
    /\ early = [tickets |-> 0, calls |-> {}]

HandleRequest(c) ==
    \/ ArriveStatic(c) \/ ArrivePlain(c) \/ ArriveProtected(c)
    \/ Authorised(c) \/ Unauthorised(c) \/ LookupFails(c)
    \/ FallBack(c) \/ Complete(c)

Next ==
    \/ \E c \in Calls : HandleRequest(c)
    \/ WorkerStep \/ (\E id \in Tickets : Expire(id)) \/ Tick
    \/ Shutdown \/ ClosePool \/ PoolClosed \/ StoresClosed \/ ForceExit

\* Promise callbacks and timers run; a worker need not answer, a worker need
\* not terminate and a store need not close.
Fairness ==
    /\ \A c \in Calls :
          /\ WF_vars(FallBack(c)) /\ WF_vars(Complete(c))
          /\ WF_vars(~redis /\ (Authorised(c) \/ Unauthorised(c)))
    /\ \A id \in Tickets : WF_vars(Expire(id))
    /\ WF_vars(Tick) /\ WF_vars(ClosePool) /\ WF_vars(ForceExit)

Spec == Init /\ [][Next]_vars /\ Fairness

-----------------------------------------------------------------------------
\* Types.
TypeOK ==
    /\ errorHandler \in BOOLEAN /\ redis \in BOOLEAN
    /\ issued \in 0 .. Cardinality(Tickets)
    /\ waiting \in Seq(Tickets) /\ Len(waiting) <= MaxQueue
    /\ running \subseteq Tickets
    /\ result \in [Tickets -> {"none", "answered", "crashed", "timeout", "overloaded", "shutdown"}]
    /\ open \in BOOLEAN
    /\ expires \in [Tickets -> {Never} \cup 0 .. MaxTime + Timeout]
    /\ at \in [Calls -> {"new", "auth", "handler", "fallback", "done"}]
    /\ ticket \in [Calls -> Tickets \cup {NoTicket}]
    /\ inflight \in Nat /\ now \in 0 .. MaxTime
    /\ main \in {"serving", "draining", "closing", "stores", "exited"}
    /\ since \in {Never} \cup 0 .. MaxTime

\* inflightCount is the number of calls that wait for the pool, on every path
\* through handleRequest(): it neither stays above zero, which would hold up
\* every shutdown, nor falls below the calls that a shutdown must wait for.
InflightCounts == inflight = Cardinality({c \in Calls : InPool(c)})

\* A request that was dispatched before the shutdown is answered before the
\* pool is closed, by its handler or by its timeout: the drain is as long as
\* the timeout of a dispatch, and ends at its deadline, so that the watchdog
\* never cuts it short.  Only dispatches made during the drain are cut off.
NoneCutOff ==
    /\ Draining => now <= since + Drain
    /\ main \in {"closing", "stores"} => \A c \in Calls :
          InPool(c) => ticket[c] >= early.tickets \/ ticket[c] = NoTicket

\* The requests in flight when the shutdown begins are answered before the
\* pool is closed, unless the drain takes too long.
InFlightDrained ==
    main = "closing" /\ now < since + Drain => \A c \in early.calls : at[c] = "done"

\* A shutdown that was begun ends the process, even if a handler never
\* returns, a worker never terminates or a store never closes.
ShutdownEnds == since # Never ~> main = "exited"
=============================================================================
