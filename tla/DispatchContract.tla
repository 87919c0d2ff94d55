-------------------------- MODULE DispatchContract --------------------------
(***************************************************************************)
(* What RequestWorkerPool.dispatch() promises its caller (server.ts),      *)
(* whatever happens to the workers: requests are started in the order they *)
(* were accepted, at most once, and each is settled once, by its answer,   *)
(* by the failure of its worker, by its timeout, or at shutdown while it   *)
(* waits.  RequestPool implements it (see RequestPoolRefinement).          *)
(***************************************************************************)
EXTENDS Integers, Sequences, SequencesExt

CONSTANTS Requests, MaxQueue

VARIABLES
    issued,   \* number of requests dispatched so far
    waiting,  \* accepted and not started, oldest first
    running,  \* started and not settled
    result,   \* how each request was settled, or "none"
    open      \* close() was not called

vars == <<issued, waiting, running, result, open>>

Init ==
    /\ issued = 0
    /\ waiting = <<>>
    /\ running = {}
    /\ result = [r \in Requests |-> "none"]
    /\ open = TRUE

\* A request is started at once only if none waits before it.
StartAtOnce ==
    /\ open /\ issued \in Requests /\ waiting = <<>>
    /\ issued' = issued + 1
    /\ running' = running \cup {issued}
    /\ UNCHANGED <<waiting, result, open>>

Wait ==
    /\ open /\ issued \in Requests /\ Len(waiting) < MaxQueue
    /\ issued' = issued + 1
    /\ waiting' = Append(waiting, issued)
    /\ UNCHANGED <<running, result, open>>

\* Only a full queue refuses a request while the pool is open.
Refuse ==
    /\ open /\ issued \in Requests /\ Len(waiting) >= MaxQueue
    /\ issued' = issued + 1
    /\ result' = [result EXCEPT ![issued] = "overloaded"]
    /\ UNCHANGED <<waiting, running, open>>

\* Requests that are started are settled by an answer, a crash or a timeout.
SettleStarted(done) ==
    /\ done \subseteq running
    /\ \E how \in {"answered", "crashed", "timeout"} :
          result' = [r \in Requests |-> IF r \in done THEN how ELSE result[r]]

Finish ==
    \E r \in running :
        /\ SettleStarted({r})
        /\ running' = running \ {r}
        /\ UNCHANGED <<issued, waiting, open>>

\* A worker takes the oldest waiting request, settling what it had before.
Take ==
    /\ waiting # <<>>
    /\ waiting' = Tail(waiting)
    /\ \E done \in {{}} \cup {{r} : r \in running} :
          /\ SettleStarted(done)
          /\ running' = (running \ done) \cup {Head(waiting)}
    /\ UNCHANGED <<issued, open>>

TimeoutWaiting ==
    \E k \in 1 .. Len(waiting) :
        /\ result' = [result EXCEPT ![waiting[k]] = "timeout"]
        /\ waiting' = RemoveAt(waiting, k)
        /\ UNCHANGED <<issued, running, open>>

Close ==
    /\ open
    /\ open' = FALSE
    /\ result' = [r \in Requests |->
                    IF \E k \in 1 .. Len(waiting) : waiting[k] = r
                    THEN "shutdown" ELSE result[r]]
    /\ waiting' = <<>>
    /\ UNCHANGED <<issued, running>>

Next == StartAtOnce \/ Wait \/ Refuse \/ Finish \/ Take \/ TimeoutWaiting \/ Close

Spec == Init /\ [][Next]_vars
=============================================================================
