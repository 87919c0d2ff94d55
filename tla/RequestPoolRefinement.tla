------------------------ MODULE RequestPoolRefinement ------------------------
(***************************************************************************)
(* RequestPool implements DispatchContract: a request runs, for its caller,*)
(* from the moment a worker is given it until its promise is settled, even *)
(* if the worker goes on after the timeout.                                *)
(***************************************************************************)
EXTENDS RequestPool

RunningForCaller == {r \in Requests : Sent(r) /\ outcome[r] = "none"}

Contract == INSTANCE DispatchContract WITH
    issued  <- nextId,
    waiting <- queue,
    running <- RunningForCaller,
    result  <- outcome,
    open    <- ~closed

\* Every behaviour of the pool is one the contract allows.
ImplementsContract == Contract!Spec
=============================================================================
