---------------------------- MODULE Server_proofs ----------------------------
(***************************************************************************)
(* Theorems about the parts of MCServer: the requests in flight and the    *)
(* shutdown of ServerLifecycle, for any number of calls and any timeouts.  *)
(***************************************************************************)
EXTENDS MCServer, SequenceFacts, FiniteSetTheorems

-----------------------------------------------------------------------------
(***************************************************************************)
(* The inductive invariant of the server.  A dispatch from before the      *)
(* shutdown has a ticket below early.tickets (TicketsIssued), and its      *)
(* timer is due before the drain is over (TimersDue), as the drain is at   *)
(* least as long as the timeout; so the drain that ends at its deadline,   *)
(* when no timer of those is due, has settled every one of them.           *)
(***************************************************************************)
TicketsIssued == \A c \in Calls : ticket[c] # NoTicket => ticket[c] < issued

TimersDue ==
    /\ \A id \in Tickets : id < issued => expires[id] <= now + Timeout
    /\ since # Never => \A id \in Tickets :
          id < early.tickets => id < issued /\ expires[id] <= since + Timeout

ShutdownBegun ==
    /\ main \in {"draining", "closing", "stores"} => since # Never
    /\ main = "serving" => since = Never
    /\ early.tickets \in Nat /\ early.tickets <= issued

ServerInv ==
    /\ TypeOK /\ InflightCounts
    /\ TicketsIssued /\ TimersDue /\ ShutdownBegun /\ NoneCutOff

LEMMA CallsAreFinite ==
    /\ IsFiniteSet(Calls) /\ Cardinality(Calls) \in Nat
    /\ Tickets \subseteq Nat /\ NoTicket \notin Tickets
    /\ Cardinality(Tickets) \in Nat /\ \A id \in Tickets : id + 1 \in 0 .. Cardinality(Tickets)
  <1>1. IsFiniteSet(Calls) /\ Cardinality(Calls) \in Nat
    BY CallsAssumption, FS_CardinalityType
  <1>2. Cardinality(Tickets) = 2 * Cardinality(Calls)
    BY <1>1, FS_Interval DEF Tickets
  <1> QED
    BY <1>1, <1>2 DEF Tickets, NoTicket

\* The pool, as DispatchContract has it, keeps its types.
ContractTypes ==
    /\ issued \in 0 .. Cardinality(Tickets)
    /\ waiting \in Seq(Tickets) /\ Len(waiting) <= MaxQueue
    /\ running \subseteq Tickets
    /\ result \in [Tickets -> {"none", "answered", "crashed", "timeout", "overloaded",
                               "shutdown"}]
    /\ open \in BOOLEAN

LEMMA ContractTypesStep == ContractTypes /\ Pool!Next => ContractTypes'
  <1> SUFFICES ASSUME ContractTypes, Pool!Next PROVE ContractTypes'
    OBVIOUS
  <1> USE MaxQueueAssumption DEF ContractTypes
  <1>0. Len(waiting) \in Nat
    BY LenProperties
  <1>1. CASE Pool!StartAtOnce
    BY <1>1, CallsAreFinite DEF Pool!StartAtOnce
  <1>2. CASE Pool!Wait
    <2>1. /\ issued \in Tickets /\ issued' = issued + 1 /\ Len(waiting) < MaxQueue
          /\ waiting' = Append(waiting, issued) /\ UNCHANGED <<running, result, open>>
      BY <1>2 DEF Pool!Wait
    <2>2. waiting' \in Seq(Tickets) /\ Len(waiting') = Len(waiting) + 1
      BY <2>1, AppendProperties
    <2> QED
      BY <1>0, <2>1, <2>2, CallsAreFinite
  <1>3. CASE Pool!Refuse
    BY <1>3, CallsAreFinite DEF Pool!Refuse
  <1>4. CASE Pool!Finish
    BY <1>4 DEF Pool!Finish, Pool!SettleStarted
  <1>5. CASE Pool!Take
    <2>1. /\ waiting # <<>> /\ waiting' = Tail(waiting)
          /\ issued' = issued /\ open' = open
          /\ running' \subseteq running \cup {Head(waiting)}
          /\ \E done \in SUBSET Tickets, how \in {"answered", "crashed", "timeout"} :
                result' = [r \in Tickets |-> IF r \in done THEN how ELSE result[r]]
      BY <1>5 DEF Pool!Take, Pool!SettleStarted
    <2>2. Head(waiting) \in Tickets /\ waiting' \in Seq(Tickets)
          /\ Len(waiting') = Len(waiting) - 1
      BY <2>1, HeadTailProperties
    <2> QED
      BY <1>0, <2>1, <2>2
  <1>6. CASE Pool!TimeoutWaiting
    <2>1. PICK k \in 1 .. Len(waiting) :
             /\ result' = [result EXCEPT ![waiting[k]] = "timeout"]
             /\ waiting' = Pool!RemoveAt(waiting, k)
             /\ UNCHANGED <<issued, running, open>>
      BY <1>6 DEF Pool!TimeoutWaiting
    <2>2. Pool!RemoveAt(waiting, k) = RemoveAt(waiting, k)
      BY DEF Pool!RemoveAt, RemoveAt
    <2>3. waiting' \in Seq(Tickets) /\ Len(waiting') = Len(waiting) - 1
      BY <2>1, <2>2, RemoveAtFacts
    <2> QED
      BY <1>0, <2>1, <2>3
  <1>7. CASE Pool!Close
    <2>1. waiting' = <<>> /\ open' = FALSE /\ UNCHANGED <<issued, running>>
      BY <1>7 DEF Pool!Close
    <2>2. result' \in [Tickets -> {"none", "answered", "crashed", "timeout", "overloaded",
                                   "shutdown"}]
      BY <1>7 DEF Pool!Close
    <2>3. waiting' \in Seq(Tickets) /\ Len(waiting') <= MaxQueue
      BY <2>1, EmptySeq
    <2>4. issued' = issued /\ running' = running /\ open' \in BOOLEAN
      BY <2>1
    <2> QED
      BY <2>2, <2>3, <2>4
  <1> QED
    BY <1>1, <1>2, <1>3, <1>4, <1>5, <1>6, <1>7 DEF Pool!Next

\* How many calls wait for the pool when call c alone moves on.
InPoolCalls == {c \in Calls : InPool(c)}

LEMMA InPoolCounted ==
    ASSUME NEW c \in Calls, \A d \in Calls : d # c => at'[d] = at[d]
    PROVE  LET before == Cardinality(InPoolCalls)
               after == Cardinality(InPoolCalls')
           IN  /\ before \in Nat
               /\ (InPool(c) <=> InPool(c)') => after = before
               /\ ~InPool(c) /\ InPool(c)' => after = before + 1
               /\ InPool(c) /\ ~InPool(c)' => after = before - 1
  <1>1. IsFiniteSet(InPoolCalls) /\ Cardinality(InPoolCalls) \in Nat
    BY CallsAreFinite, FS_Subset, FS_CardinalityType DEF InPoolCalls
  <1>2. \A d \in Calls : d # c => (InPool(d) <=> InPool(d)')
    BY DEF InPool
  <1>3. CASE InPool(c) <=> InPool(c)'
    <2>1. InPoolCalls' = InPoolCalls
      BY <1>2, <1>3 DEF InPoolCalls
    <2> QED
      BY <1>1, <1>3, <2>1
  <1>4. CASE ~InPool(c) /\ InPool(c)'
    <2>1. InPoolCalls' = InPoolCalls \cup {c} /\ c \notin InPoolCalls
      BY <1>2, <1>4 DEF InPoolCalls
    <2>2. Cardinality(InPoolCalls \cup {c}) = Cardinality(InPoolCalls) + 1
      BY <1>1, <2>1, FS_AddElement
    <2> QED
      BY <1>1, <1>4, <2>1, <2>2
  <1>5. CASE InPool(c) /\ ~InPool(c)'
    <2>1. InPoolCalls' = InPoolCalls \ {c} /\ c \in InPoolCalls
      BY <1>2, <1>5 DEF InPoolCalls
    <2>2. Cardinality(InPoolCalls \ {c}) = Cardinality(InPoolCalls) - 1
      BY <1>1, <2>1, FS_RemoveElement
    <2> QED
      BY <1>1, <1>5, <2>1, <2>2
  <1> QED
    BY <1>3, <1>4, <1>5

\* A dispatch gives the call a new ticket, or none once the pool is closed.
LEMMA DispatchFacts ==
    ASSUME ServerInv, NEW c \in Calls, NEW step, Dispatch(c, step)
    PROVE  /\ at' = [at EXCEPT ![c] = step] /\ ContractTypes'
           /\ \A d \in Calls : d # c => ticket'[d] = ticket[d]
           /\ ticket' \in [Calls -> Tickets \cup {NoTicket}]
           /\ expires' \in [Tickets -> {Never} \cup 0 .. MaxTime + Timeout]
           /\ \A id \in Tickets : id < issued => expires'[id] = expires[id]
           /\ \/ ticket'[c] = issued /\ issued' = issued + 1
                 /\ issued \in Tickets /\ expires'[issued] = now + Timeout
              \/ ticket'[c] = NoTicket /\ issued' = issued /\ expires' = expires
  <1> USE TimesAssumption
  <1>0. /\ at' = [at EXCEPT ![c] = step] /\ issued \in Nat
        /\ ticket \in [Calls -> Tickets \cup {NoTicket}]
        /\ expires \in [Tickets -> {Never} \cup 0 .. MaxTime + Timeout]
        /\ now + Timeout \in 0 .. MaxTime + Timeout
    BY DEF Dispatch, ServerInv, TypeOK
  <1>1. ContractTypes
    BY DEF ServerInv, TypeOK, ContractTypes
  <1>2. CASE open
    <2>1. /\ Pool!StartAtOnce \/ Pool!Wait \/ Pool!Refuse
          /\ ticket' = [ticket EXCEPT ![c] = issued]
          /\ expires' = [expires EXCEPT ![issued] = now + Timeout]
      BY <1>2 DEF Dispatch
    <2>2. issued \in Tickets /\ issued' = issued + 1
      BY <2>1 DEF Pool!StartAtOnce, Pool!Wait, Pool!Refuse
    <2>3. ContractTypes'
      BY <1>1, <2>1, ContractTypesStep DEF Pool!Next
    <2>4. expires' \in [Tickets -> {Never} \cup 0 .. MaxTime + Timeout]
      BY <1>0, <2>1, <2>2
    <2>5. \A id \in Tickets : expires'[id] = IF id = issued THEN now + Timeout
                                             ELSE expires[id]
      BY <1>0, <2>1
    <2>6. /\ ticket' \in [Calls -> Tickets \cup {NoTicket}] /\ ticket'[c] = issued
          /\ \A d \in Calls : d # c => ticket'[d] = ticket[d]
      BY <1>0, <2>1, <2>2
    <2> QED
      BY <1>0, <2>2, <2>3, <2>4, <2>5, <2>6
  <1>3. CASE ~open
    <2>1. ticket' = [ticket EXCEPT ![c] = NoTicket] /\ UNCHANGED <<poolVars, expires>>
      BY <1>3 DEF Dispatch
    <2>2. ContractTypes' /\ issued' = issued
      BY <1>1, <2>1 DEF ContractTypes, poolVars
    <2> QED
      BY <1>0, <2>1, <2>2
  <1> QED
    BY <1>2, <1>3

\* handleRequest() dispatches, for the handler or for the error handler.
LEMMA DispatchStep ==
    ASSUME ServerInv, NEW c \in Calls, NEW step \in {"handler", "fallback"},
           Dispatch(c, step), UNCHANGED <<now, mainVars, config>>,
           inflight' = inflight + IF InPool(c) THEN 0 ELSE 1
    PROVE  ServerInv'
  <1>1. /\ at' \in [Calls -> {"new", "auth", "handler", "fallback", "done"}]
        /\ InPool(c)' /\ \A d \in Calls : d # c => at'[d] = at[d]
    BY DispatchFacts DEF ServerInv, TypeOK, InPool
  <1>2. InflightCounts' /\ inflight' \in Nat
    BY <1>1, InPoolCounted DEF ServerInv, TypeOK, InflightCounts, InPoolCalls
  <1>3. TypeOK'
    BY <1>1, <1>2, DispatchFacts DEF ServerInv, TypeOK, ContractTypes, mainVars, config
  <1>4. issued \in Nat /\ issued' \in Nat /\ issued <= issued' /\ early' = early
        /\ since' = since /\ main' = main /\ now' = now
    BY DispatchFacts DEF ServerInv, TypeOK, mainVars
  <1>5. TicketsIssued'
    <2> SUFFICES ASSUME NEW d \in Calls, ticket'[d] # NoTicket PROVE ticket'[d] < issued'
      BY DEF TicketsIssued
    <2>1. CASE d = c
      BY <1>4, <2>1, DispatchFacts
    <2>2. CASE d # c
      <3>1. ticket'[d] = ticket[d] /\ ticket[d] < issued /\ ticket[d] \in Nat
        BY <2>2, DispatchFacts, CallsAreFinite DEF ServerInv, TypeOK, TicketsIssued
      <3> QED
        BY <1>4, <3>1
    <2> QED
      BY <2>1, <2>2
  <1>6. TimersDue'
    <2>1. \A id \in Tickets : id < issued' =>
             (id < issued /\ expires'[id] = expires[id]) \/ expires'[id] = now + Timeout
      BY <1>4, DispatchFacts, CallsAreFinite
    <2>2. \A id \in Tickets : id < issued => id < issued' /\ expires'[id] = expires[id]
      BY <1>4, DispatchFacts, CallsAreFinite
    <2>3. now + Timeout \in Nat
      BY TimesAssumption DEF ServerInv, TypeOK
    <2>4. \A id \in Tickets : id < issued' => expires'[id] <= now + Timeout
      BY <2>1, <2>3 DEF ServerInv, TimersDue
    <2> QED
      BY <1>4, <2>2, <2>4 DEF ServerInv, TimersDue
  <1>7. ShutdownBegun'
    BY <1>4 DEF ServerInv, ShutdownBegun
  <1>8. NoneCutOff'
    <2>1. ticket'[c] >= early.tickets \/ ticket'[c] = NoTicket
      BY DispatchFacts DEF ServerInv, ShutdownBegun
    <2> QED
      BY <1>1, <1>4, <2>1, DispatchFacts DEF ServerInv, NoneCutOff, Draining, InPool
  <1> QED
    BY <1>2, <1>3, <1>5, <1>6, <1>7, <1>8 DEF ServerInv

\* A call is answered, or waits for its session.
LEMMA CallMoves ==
    ASSUME ServerInv, NEW c \in Calls, NEW step \in {"auth", "done"},
           at' = [at EXCEPT ![c] = step],
           UNCHANGED <<ticket, poolVars, expires, now, mainVars, config>>,
           inflight' = inflight - IF InPool(c) THEN 1 ELSE 0
    PROVE  ServerInv'
  <1>1. /\ at' \in [Calls -> {"new", "auth", "handler", "fallback", "done"}]
        /\ ~InPool(c)' /\ \A d \in Calls : d # c => at'[d] = at[d]
    BY DEF ServerInv, TypeOK, InPool
  <1>2. InflightCounts' /\ inflight' \in Nat
    <2>1. Cardinality(InPoolCalls') \in Nat
      BY <1>1, CallsAreFinite, FS_Subset, FS_CardinalityType DEF InPoolCalls
    <2>2. inflight = Cardinality(InPoolCalls)
      BY DEF ServerInv, InflightCounts, InPoolCalls
    <2>3. inflight' = Cardinality(InPoolCalls')
      BY <1>1, <2>2, InPoolCounted
    <2> QED
      BY <2>1, <2>3 DEF InflightCounts, InPoolCalls
  <1>3. TypeOK'
    BY <1>1, <1>2 DEF ServerInv, TypeOK, poolVars, mainVars, config
  <1>4. TicketsIssued' /\ TimersDue' /\ ShutdownBegun'
    BY DEF ServerInv, TicketsIssued, TimersDue, ShutdownBegun, poolVars, mainVars
  <1>5. NoneCutOff'
    BY <1>1 DEF ServerInv, NoneCutOff, Draining, InPool, mainVars
  <1> QED
    BY <1>2, <1>3, <1>4, <1>5 DEF ServerInv

\* A step of the pool or of its timers, which settles dispatches and issues none.
LEMMA PoolStep ==
    ASSUME ServerInv, Pool!Next, issued' = issued,
           UNCHANGED <<expires, callVars, now, mainVars, config>>
    PROVE  ServerInv'
  <1>1. ContractTypes'
    BY ContractTypesStep DEF ServerInv, TypeOK, ContractTypes
  <1>2. TypeOK'
    BY <1>1 DEF ServerInv, TypeOK, ContractTypes, callVars, mainVars, config
  <1> QED
    BY <1>2 DEF ServerInv, InflightCounts, TicketsIssued, TimersDue, ShutdownBegun,
       NoneCutOff, Draining, InPool, callVars, mainVars

\* Time goes on while no timer is due, and the drain is not over.
LEMMA TickStep ==
    ASSUME ServerInv, Tick PROVE ServerInv'
  <1>1. /\ now < MaxTime /\ now' = now + 1 /\ ~PollEnds /\ \A id \in Tickets : ~Due(id)
        /\ UNCHANGED <<expires, callVars, poolVars, mainVars, config>>
    BY DEF Tick
  <1>0. now' \in 0 .. MaxTime
    BY <1>1, TimesAssumption DEF ServerInv, TypeOK
  <1>2. TypeOK'
    BY <1>0, <1>1 DEF ServerInv, TypeOK, callVars, poolVars, mainVars, config
  <1>3. TimersDue'
    <2>1. now + Timeout <= now' + Timeout /\ now + Timeout \in Nat /\ now' + Timeout \in Nat
      BY <1>1, TimesAssumption DEF ServerInv, TypeOK
    <2>2. \A id \in Tickets : expires[id] \in Int
      BY TimesAssumption DEF ServerInv, TypeOK, Never
    <2> QED
      BY <1>1, <2>1, <2>2 DEF ServerInv, TimersDue, poolVars, mainVars
  <1>4. NoneCutOff'
    <2>1. ASSUME Draining PROVE now + 1 <= since + Drain
      <3>1. ~DrainOver
        BY <1>1, <2>1 DEF PollEnds, DeadlinePassed
      <3>2. since \in Nat /\ now \in Nat
        BY <2>1 DEF ServerInv, TypeOK, ShutdownBegun, Draining
      <3> QED
        BY <3>1, <3>2, TimesAssumption DEF DrainOver
    <2> QED
      BY <1>1, <2>1 DEF ServerInv, NoneCutOff, Draining, InPool, callVars, mainVars
  <1> QED
    BY <1>1, <1>2, <1>3, <1>4
       DEF ServerInv, InflightCounts, InPool, TicketsIssued, ShutdownBegun, callVars,
           poolVars, mainVars

LEMMA ShutdownStep ==
    ASSUME ServerInv, Shutdown PROVE ServerInv'
  <1>1. /\ since = Never /\ since' = now /\ main' = "draining"
        /\ early' = [tickets |-> issued, calls |-> {c \in Calls : at[c] \notin {"new", "done"}}]
        /\ UNCHANGED <<callVars, poolVars, expires, now, config>>
    BY DEF Shutdown
  <1>2. early'.tickets = issued /\ issued \in Nat /\ now \in 0 .. MaxTime /\ since' # Never
    BY <1>1, TimesAssumption DEF ServerInv, TypeOK, Never
  <1>3. TypeOK'
    BY <1>1, <1>2 DEF ServerInv, TypeOK, callVars, poolVars, config
  <1>4. TimersDue' /\ ShutdownBegun'
    BY <1>1, <1>2 DEF ServerInv, TimersDue, ShutdownBegun, poolVars
  <1>5. NoneCutOff'
    BY <1>1, <1>2, TimesAssumption DEF NoneCutOff, Draining
  <1> QED
    BY <1>1, <1>3, <1>4, <1>5
       DEF ServerInv, InflightCounts, InPool, TicketsIssued, callVars, poolVars

\* A call that waits when the pool is closed was dispatched during the drain.
LEMMA ClosePoolStep ==
    ASSUME ServerInv, ClosePool PROVE ServerInv'
  <1>1. /\ Quiet /\ PollEnds /\ Pool!Close /\ main' = "closing"
        /\ UNCHANGED <<expires, callVars, now, since, early, config>>
    BY DEF ClosePool
  <1>2. ContractTypes' /\ issued' = issued
    BY <1>1, ContractTypesStep DEF ServerInv, TypeOK, ContractTypes, Pool!Next, Pool!Close
  <1>3. TypeOK'
    BY <1>1, <1>2 DEF ServerInv, TypeOK, ContractTypes, callVars, config
  <1>4. Draining /\ since \in Nat
    BY <1>1 DEF PollEnds, Draining, ServerInv, TypeOK, ShutdownBegun
  <1>5. ASSUME NEW c \in Calls, InPool(c), ticket[c] # NoTicket
        PROVE  ticket[c] >= early.tickets
    <2>1. ticket[c] \in Tickets /\ ticket[c] < issued /\ ticket[c] \in Nat
      BY <1>5, CallsAreFinite DEF ServerInv, TypeOK, TicketsIssued
    <2>2. Unsettled(ticket[c])
      BY <1>1, <1>5, <2>1 DEF Quiet, Settled, Outcome, Unsettled
    <2>3. inflight # 0
      <3>1. InPoolCalls # {} /\ IsFiniteSet(InPoolCalls)
        BY <1>5, CallsAreFinite, FS_Subset DEF InPoolCalls
      <3>2. Cardinality(InPoolCalls) # 0
        BY <3>1, FS_EmptySet
      <3> QED
        BY <3>2 DEF ServerInv, InflightCounts, InPoolCalls
    <2>4. DrainOver /\ \A id \in Tickets : Due(id) => id >= early.tickets
      BY <1>1, <2>3 DEF PollEnds, DeadlinePassed
    <2>5. CASE Due(ticket[c])
      BY <2>1, <2>4, <2>5
    <2>6. CASE ~Due(ticket[c])
      <3>1. ~(expires[ticket[c]] <= now)
        BY <2>2, <2>6 DEF Due
      <3>2. expires[ticket[c]] \in Int /\ now \in Nat /\ early.tickets \in Nat
        BY <2>1, TimesAssumption DEF ServerInv, TypeOK, ShutdownBegun, Never
      <3>3. ticket[c] < early.tickets => expires[ticket[c]] <= since + Timeout
        BY <1>4, <2>1 DEF ServerInv, TimersDue, ShutdownBegun, Draining
      <3>4. since + Timeout <= now
        BY <1>4, <2>4, <3>2, TimesAssumption DEF DrainOver
      <3>5. since + Timeout \in Nat
        BY <1>4, TimesAssumption
      <3> QED
        BY <2>1, <3>1, <3>2, <3>3, <3>4, <3>5
    <2> QED
      BY <2>5, <2>6
  <1>6. NoneCutOff'
    BY <1>1, <1>5 DEF NoneCutOff, Draining, InPool, callVars
  <1>7. TimersDue' /\ ShutdownBegun'
    BY <1>1, <1>2, <1>4 DEF ServerInv, TimersDue, ShutdownBegun, Draining
  <1> QED
    BY <1>1, <1>2, <1>3, <1>6, <1>7
       DEF ServerInv, InflightCounts, InPool, TicketsIssued, callVars

\* The shutdown goes on, or the process ends.
LEMMA MainStep ==
    ASSUME ServerInv, main' \in {"stores", "exited"}, main' = "stores" => main = "closing",
           UNCHANGED <<expires, callVars, poolVars, now, since, early, config>>
    PROVE  ServerInv'
  <1>1. TypeOK'
    BY DEF ServerInv, TypeOK, callVars, poolVars, config
  <1>2. TimersDue' /\ ShutdownBegun'
    BY DEF ServerInv, TimersDue, ShutdownBegun, poolVars
  <1>3. NoneCutOff'
    BY DEF ServerInv, NoneCutOff, Draining, InPool, callVars
  <1> QED
    BY <1>1, <1>2, <1>3
       DEF ServerInv, InflightCounts, InPool, TicketsIssued, callVars, poolVars

LEMMA ServerInvStep == ServerInv /\ [Next]_vars => ServerInv'
  <1> SUFFICES ASSUME ServerInv, [Next]_vars PROVE ServerInv'
    OBVIOUS
  <1>0. \A c \in Calls : at[c] \in {"new", "auth", "handler", "fallback", "done"}
        /\ inflight \in Nat
    BY DEF ServerInv, TypeOK
  <1>1. ASSUME NEW c \in Calls, ArrivePlain(c) \/ Authorised(c) PROVE ServerInv'
    <2>1. /\ Dispatch(c, "handler") /\ inflight' = inflight + 1 /\ ~InPool(c)
          /\ UNCHANGED <<now, mainVars, config>>
      BY <1>1 DEF ArrivePlain, Authorised, Enter, InPool
    <2> QED
      BY <2>1, DispatchStep
  <1>2. ASSUME NEW c \in Calls, FallBack(c) PROVE ServerInv'
    <2>1. /\ Dispatch(c, "fallback") /\ inflight' = inflight + 0 /\ InPool(c)
          /\ UNCHANGED <<now, mainVars, config>>
      BY <1>0, <1>2 DEF FallBack, Failed, Settled
    <2> QED
      BY <2>1, DispatchStep
  <1>3. ASSUME NEW c \in Calls, ArriveStatic(c) \/ Unauthorised(c) \/ ArriveProtected(c)
        PROVE  ServerInv'
    <2>1. /\ \E step \in {"auth", "done"} : at' = [at EXCEPT ![c] = step]
          /\ ~InPool(c) /\ inflight' = inflight - 0
          /\ UNCHANGED <<ticket, poolVars, expires, now, mainVars, config>>
      BY <1>0, <1>3 DEF ArriveStatic, Unauthorised, ArriveProtected, Respond, InPool
    <2> QED
      BY <2>1, CallMoves
  <1>4. ASSUME NEW c \in Calls, Complete(c) PROVE ServerInv'
    <2>1. /\ at' = [at EXCEPT ![c] = "done"] /\ InPool(c) /\ inflight' = inflight - 1
          /\ UNCHANGED <<ticket, poolVars, expires, now, mainVars, config>>
      BY <1>4 DEF Complete, Answered, Refused, FailWithout, FallBackFailed, Failed,
         Settled, Respond, LeftInFlight
    <2> QED
      BY <2>1, CallMoves
  <1>5. ASSUME NEW c \in Calls, LookupFails(c) PROVE ServerInv'
    BY <1>5, MainStep DEF LookupFails
  <1>6. CASE WorkerStep
    BY <1>6, PoolStep DEF WorkerStep, Pool!Finish, Pool!Take, Pool!Next
  <1>7. ASSUME NEW id \in Tickets, Expire(id) PROVE ServerInv'
    BY <1>7, PoolStep DEF Expire, Pool!Finish, Pool!TimeoutWaiting, Pool!Next
  <1>8. CASE PoolClosed \/ StoresClosed \/ ForceExit
    BY <1>8, MainStep DEF PoolClosed, StoresClosed, ForceExit
  <1>9. CASE UNCHANGED vars
    BY <1>9 DEF vars, poolVars, callVars, mainVars, config, ServerInv, TypeOK,
       InflightCounts, InPool, TicketsIssued, TimersDue, ShutdownBegun, NoneCutOff, Draining
  <1> QED
    BY <1>1, <1>2, <1>3, <1>4, <1>5, <1>6, <1>7, <1>8, <1>9, TickStep, ShutdownStep,
       ClosePoolStep DEF Next, HandleRequest

LEMMA ServerInvInit == Init => ServerInv
  <1> SUFFICES ASSUME Init PROVE ServerInv
    OBVIOUS
  <1>1. /\ issued = 0 /\ waiting = <<>> /\ running = {} /\ open = TRUE
        /\ result = [r \in Tickets |-> "none"]
    BY DEF Init, Pool!Init
  <1>2. TypeOK
    <2>1. waiting \in Seq(Tickets) /\ Len(waiting) = 0
      BY <1>1, EmptySeq
    <2>2. errorHandler \in BOOLEAN /\ redis \in BOOLEAN
      BY FlagsAssumption DEF Init
    <2> QED
      BY <1>1, <2>1, <2>2, CallsAreFinite, MaxQueueAssumption, TimesAssumption
         DEF Init, TypeOK
  <1>3. InflightCounts
    <2>1. {c \in Calls : InPool(c)} = {}
      BY DEF Init, InPool
    <2> QED
      BY <2>1, FS_EmptySet DEF Init, InflightCounts
  <1>4. TicketsIssued /\ TimersDue /\ ShutdownBegun /\ NoneCutOff
    BY <1>1, CallsAreFinite
       DEF Init, TicketsIssued, TimersDue, ShutdownBegun, NoneCutOff, Draining, Tickets
  <1> QED
    BY <1>2, <1>3, <1>4 DEF ServerInv

\* The count of requests in flight is exact on every path through handleRequest(), and
\* a request that was dispatched before the shutdown is settled before the pool is
\* closed, whatever the workers do: the drain cuts off only what was dispatched
\* while it ran.
THEOREM DrainIsExact == MCSpec => []DrainExact
  <1>1. MCInit => ServerInv
    BY ServerInvInit DEF MCInit
  <1>2. ServerInv /\ [MCNext]_allVars => ServerInv'
    <2>1. [MCNext]_allVars => [Next]_vars
      BY DEF MCNext, allVars, PoolOnly, StreamOnly, WebsocketOnly
    <2> QED
      BY <2>1, ServerInvStep
  <1>3. ServerInv => DrainExact
    BY DEF ServerInv, DrainExact
  <1> QED
    BY <1>1, <1>2, <1>3, PTL DEF MCSpec

=============================================================================
