------------------------- MODULE RequestPool_proofs -------------------------
(***************************************************************************)
(* Theorems about RequestPool for any number of slots, requests, threads   *)
(* and faults.                                                             *)
(***************************************************************************)
EXTENDS RequestPoolRefinement, SequenceFacts, FiniteSetTheorems

USE SizeAssumption, MaxQueueAssumption, MaxRequestsAssumption,
    MaxThreadsAssumption, MaxFaultsAssumption

-----------------------------------------------------------------------------
(* Type correctness *)

\* What the helpers of the pool assign has the declared types.
LEMMA DrainQueueType ==
    ASSUME TypeOK, NEW w \in Workers, DrainQueue(w)
    PROVE  /\ queue' \in Seq(Requests) /\ Len(queue') <= MaxQueue
           /\ pending' \in [Workers -> Requests \cup {Null}]
           /\ job' \in [Workers -> Requests \cup {Null}]
  <1>1. CASE queue # <<>>
    <2>1. /\ Head(queue) \in Requests /\ Tail(queue) \in Seq(Requests)
          /\ Len(Tail(queue)) = Len(queue) - 1 /\ Len(queue) \in Nat
      BY <1>1, HeadTailProperties, LenProperties DEF TypeOK
    <2>2. queue' = Tail(queue) /\ SendToSlot(w, Head(queue))
      BY <1>1 DEF DrainQueue, Shift, NextWaiting
    <2>3. queue' \in Seq(Requests) /\ Len(queue') <= MaxQueue
      BY <2>1, <2>2 DEF TypeOK
    <2>4. pending' \in [Workers -> Requests \cup {Null}]
          /\ job' \in [Workers -> Requests \cup {Null}]
      BY <2>1, <2>2 DEF TypeOK, SendToSlot
    <2> QED
      BY <2>3, <2>4
  <1>2. CASE queue = <<>>
    BY <1>2 DEF TypeOK, DrainQueue
  <1> QED
    BY <1>1, <1>2

\* restartSlot() gives slots and thread states of the declared types.
LEMMA RestartSlotType ==
    ASSUME TypeOK, NEW w \in Workers, RestartSlot(w)
    PROVE  /\ slots' \in [Indexes -> Workers \cup {Null}]
           /\ restarts' \in [Workers -> Nat]
           /\ thread' \in [Workers -> ThreadStates]
           /\ extra' \in [Indexes -> Nat]
  <1>1. home[w] \in Indexes /\ restarts[w] \in Nat /\ extra[home[w]] \in Nat
    BY DEF TypeOK
  <1>2. Terminate(thread[w]) \in ThreadStates
    BY DEF TypeOK, Terminate, ThreadStates
  <1> QED
    BY <1>1, <1>2 DEF TypeOK, RestartSlot

\* createSlot() gives a thread, and numbers it, within the declared types.
LEMMA CreateSlotType ==
    ASSUME TypeOK, NEW i \in Indexes, NEW how \in ThreadStates, CreateSlot(i, how)
    PROVE  /\ lastThread' \in Size .. MaxThreads
           /\ thread' \in [Workers -> ThreadStates]
           /\ home' \in [Workers -> Indexes]
  <1>1. lastThread + 1 \in Size .. MaxThreads /\ lastThread + 1 \in Workers
    BY DEF TypeOK, CreateSlot, Workers
  <1> QED
    BY <1>1 DEF TypeOK, CreateSlot

\* Settling a promise keeps the types of timers and outcomes.
LEMMA SettleType ==
    ASSUME TypeOK, NEW r, NEW how \in Outcomes, Settle(r, how)
    PROVE  timer' \in [Requests -> BOOLEAN] /\ outcome' \in [Requests -> Outcomes]
  BY DEF TypeOK, Settle

\* The initial state has the declared types.
LEMMA TypeInit == Init => TypeOK
  <1> SUFFICES ASSUME Init PROVE TypeOK
    OBVIOUS
  <1>1. Size >= 1 /\ \A i \in Indexes : i + 1 \in Workers
    BY DEF Indexes, Workers
  <1>2. \A w \in Workers : w <= Size => w - 1 \in Indexes
    BY DEF Indexes, Workers
  <1>3. home \in [Workers -> Indexes] /\ slots \in [Indexes -> Workers \cup {Null}]
    BY <1>1, <1>2 DEF Init, Indexes
  <1>4. /\ thread \in [Workers -> ThreadStates]
        /\ outcome \in [Requests -> Outcomes]
        /\ outbox \in [Workers -> Seq(Messages)]
    BY EmptySeq DEF Init, ThreadStates, Outcomes
  <1>5. queue \in Seq(Requests) /\ Len(queue) <= MaxQueue
    BY EmptySeq DEF Init
  <1>6. lastThread \in Size .. MaxThreads /\ nextId \in 0 .. MaxRequests
        /\ faults \in 0 .. MaxFaults
    BY DEF Init
  <1> QED
    BY <1>3, <1>4, <1>5, <1>6 DEF Init, TypeOK

\* Every action preserves the declared types.
LEMMA TypeStep == TypeOK /\ [Next]_vars => TypeOK'
  <1> SUFFICES ASSUME TypeOK, [Next]_vars PROVE TypeOK'
    OBVIOUS
  <1> USE DEF TypeOK, Null
  <1>1. CASE DispatchToSlot
    <2>1. PICK i \in Indexes : FirstFree(i) /\ SendToSlot(slots[i], nextId)
      BY <1>1 DEF DispatchToSlot
    <2>2. nextId \in Requests /\ nextId' \in 0 .. MaxRequests
      BY <1>1 DEF DispatchToSlot, Requests
    <2>3. pending' \in [Workers -> Requests \cup {Null}]
          /\ job' \in [Workers -> Requests \cup {Null}]
      BY <2>1, <2>2 DEF SendToSlot
    <2> QED
      BY <1>1, <2>2, <2>3 DEF DispatchToSlot, ArmTimer, chainVars
  <1>2. CASE DispatchToQueue
    BY <1>2 DEF DispatchToQueue, Full, ArmTimer, Requests, threadVars, chainVars
  <1>3. CASE DispatchOverloaded
    BY <1>3 DEF DispatchOverloaded, Requests, Outcomes, threadVars, chainVars
  <1>4. ASSUME NEW r \in Requests, TimeoutQueued(r) PROVE TypeOK'
    <2>1. PICK k \in 1 .. Len(queue) : queue' = RemoveAt(queue, k)
      BY <1>4 DEF TimeoutQueued
    <2>2. queue' \in Seq(Requests) /\ Len(queue') = Len(queue) - 1
      BY <2>1, RemoveAtFacts
    <2> QED
      BY <1>4, <2>2 DEF TimeoutQueued, Settle, Outcomes, threadVars, chainVars
  <1>5. ASSUME NEW r \in Requests, TimeoutSent(r) PROVE TypeOK'
    BY <1>5 DEF TimeoutSent, Retire, KeepPending, Settle, Outcomes, threadVars,
       chainVars
  <1>6. ASSUME NEW w \in Workers, ResponseDrain(w) PROVE TypeOK'
    <2>1. outbox' \in [Workers -> Seq(Messages)]
      BY <1>6, HeadTailProperties DEF ResponseDrain, HasResponse
    <2>2. DrainQueue(w) /\ Settle(pending[w], "answered") /\ "answered" \in Outcomes
      BY <1>6 DEF ResponseDrain, Outcomes
    <2> QED
      BY <1>6, <2>1, <2>2, DrainQueueType, SettleType DEF ResponseDrain, chainVars
  <1>7. ASSUME NEW w \in Workers, ResponseRestart(w) PROVE TypeOK'
    <2>1. outbox' \in [Workers -> Seq(Messages)]
      BY <1>7, HeadTailProperties DEF ResponseRestart, HasResponse
    <2>2. RestartSlot(w) /\ Settle(pending[w], "answered") /\ "answered" \in Outcomes
      BY <1>7 DEF ResponseRestart, Outcomes
    <2> QED
      BY <1>7, <2>1, <2>2, RestartSlotType, SettleType DEF ResponseRestart
  <1>8. ASSUME NEW w \in Workers, HandleWorkerCrash(w) PROVE TypeOK'
    <2>1. outbox' \in [Workers -> Seq(Messages)]
      BY <1>8, HeadTailProperties DEF HandleWorkerCrash
    <2>2. timer' \in [Requests -> BOOLEAN] /\ outcome' \in [Requests -> Outcomes]
      BY <1>8, SettleType DEF HandleWorkerCrash, RejectPending, Outcomes, callVars
    <2>3. RestartSlot(w)
      BY <1>8 DEF HandleWorkerCrash
    <2> QED
      BY <1>8, <2>1, <2>2, <2>3, RestartSlotType DEF HandleWorkerCrash
  <1>9. ASSUME NEW w \in Workers, RestartTerminated(w) PROVE TypeOK'
    <2>1. /\ lastThread' \in Size .. MaxThreads
          /\ thread' \in [Workers -> ThreadStates]
          /\ home' \in [Workers -> Indexes]
      BY <1>9, CreateSlotType DEF RestartTerminated, ThreadStates
    <2>2. restarts' \in [Workers -> Nat]
      BY <1>9 DEF RestartTerminated
    <2> QED
      BY <1>9, <2>1, <2>2 DEF RestartTerminated, poolVars, callVars
  <1>10. ASSUME NEW w \in Workers, Booted(w) PROVE TypeOK'
    <2>1. DrainQueue(w) /\ thread' \in [Workers -> ThreadStates]
          /\ slots' \in [Indexes -> Workers \cup {Null}]
      BY <1>10 DEF Booted, ThreadStates
    <2> QED
      BY <1>10, <2>1, DrainQueueType DEF Booted, chainVars, callVars
  <1>11. ASSUME NEW w \in Workers, BootFailed(w) PROVE TypeOK'
    BY <1>11 DEF BootFailed, ArmRetry, ThreadStates, callVars
  <1>12. ASSUME NEW w \in Workers, RetryFailed(w) PROVE TypeOK'
    BY <1>12 DEF RetryFailed, ThreadStates, poolVars, callVars
  <1>13. ASSUME NEW w \in Workers, NEW b \in BOOLEAN, Answer(w, b) PROVE TypeOK'
    BY <1>13 DEF Answer, Messages, poolVars, chainVars, callVars
  <1>14. ASSUME NEW w \in Workers, Crash(w) PROVE TypeOK'
    BY <1>14, SMTT(30) DEF Crash, Messages, ThreadStates, poolVars, chainVars, callVars
  <1>15. ASSUME NEW w \in Workers, ThreadExit(w) PROVE TypeOK'
    BY <1>15 DEF ThreadExit, ThreadStates, poolVars, chainVars, callVars
  <1>16. ASSUME NEW i \in Indexes, RetryTimer(i) PROVE TypeOK'
    <2>1. /\ lastThread' \in Size .. MaxThreads
          /\ thread' \in [Workers -> ThreadStates]
          /\ home' \in [Workers -> Indexes]
      BY <1>16, CreateSlotType DEF RetryTimer, ThreadStates
    <2>2. backoff' \in [Indexes -> Nat]
      BY <1>16 DEF RetryTimer
    <2> QED
      BY <1>16, <2>1, <2>2 DEF RetryTimer, poolVars, callVars
  <1>17. CASE Close
    BY <1>17 DEF Close, InSlots, Terminate, ThreadStates, Outcomes, chainVars
  <1>18. CASE CloseDone
    BY <1>18 DEF CloseDone, threadVars, chainVars, callVars
  <1>19. CASE UNCHANGED vars
    BY <1>19 DEF vars, poolVars, threadVars, chainVars, callVars
  <1> QED
    BY <1>1, <1>2, <1>3, <1>4, <1>5, <1>6, <1>7, <1>8, <1>9, <1>10, <1>11, <1>12,
       <1>13, <1>14, <1>15, <1>16, <1>17, <1>18, <1>19
       DEF Next, Dispatch, Timeout, OnWorkerEvent, BootSettled

\* The types of request-pool.ts hold in every reachable state; in particular
\* the queue never exceeds maxQueueSize.
THEOREM PoolTypeCorrect == Spec => []TypeOK
  BY TypeInit, TypeStep, PTL DEF Spec

-----------------------------------------------------------------------------
(***************************************************************************)
(* The inductive invariant.  WorkConserving is what makes the pool fair: a *)
(* new request may only overtake the queue if the queue is empty.  It is   *)
(* not inductive alone: a worker leaves its slot by its own index (home),  *)
(* so a slot must hold a worker of that index, and one that has started.   *)
(***************************************************************************)
NotStarted == {"unused", "booting", "rebooting"}

ThreadsNumbered == \A w \in Workers : w > lastThread => thread[w] = "unused"

SlotsHoldOwnWorkers ==
    \A i \in Indexes : slots[i] # Null =>
        home[slots[i]] = i /\ thread[slots[i]] \notin NotStarted

NewWorkersIdle ==
    \A w \in Workers : thread[w] \in NotStarted => pending[w] = Null /\ ~retiring[w]

NewRequestsOpen ==
    \A r \in Requests : r >= nextId => outcome[r] = "none" /\ ~timer[r]

QueueOrdered ==
    /\ \A k \in 1 .. Len(queue) : queue[k] < nextId /\ outcome[queue[k]] = "none"
    /\ \A j, k \in 1 .. Len(queue) : j < k => queue[j] < queue[k]

PendingOrdered ==
    /\ \A w \in Workers : pending[w] # Null => pending[w] < nextId
    /\ \A w \in Workers : \A k \in 1 .. Len(queue) :
          pending[w] # Null => pending[w] < queue[k]
    /\ \A v, w \in Workers : pending[v] = pending[w] /\ pending[v] # Null => v = w

PoolInv ==
    /\ TypeOK
    /\ ThreadsNumbered
    /\ SlotsHoldOwnWorkers
    /\ NewWorkersIdle
    /\ NewRequestsOpen
    /\ QueueOrdered
    /\ PendingOrdered
    /\ WorkConserving
    /\ OpenRequestsTracked

\* The types as the arithmetic of the steps below uses them.
LEMMA PoolFacts ==
    ASSUME PoolInv
    PROVE  /\ nextId \in Nat /\ Requests \subseteq Nat /\ Null \notin Requests
           /\ \A w \in Workers : pending[w] \in Requests \cup {Null}
           /\ queue \in Seq(Requests) /\ Len(queue) \in Nat
           /\ \A k \in 1 .. Len(queue) : queue[k] \in Requests
           /\ \A w \in Workers : \A r \in Requests :
                 r >= nextId => r # pending[w]
           /\ \A w \in Workers : \A k \in 1 .. Len(queue) : queue[k] # pending[w]
  <1>1. nextId \in Nat /\ Requests \subseteq Nat /\ Null \notin Requests
    BY DEF PoolInv, TypeOK, Requests, Null
  <1>2. \A w \in Workers : pending[w] \in Requests \cup {Null}
    BY DEF PoolInv, TypeOK
  <1>3. queue \in Seq(Requests) /\ Len(queue) \in Nat
    BY LenProperties DEF PoolInv, TypeOK
  <1>4. \A k \in 1 .. Len(queue) : queue[k] \in Requests
    BY <1>3, ElementOfSeq
  <1>5. \A w \in Workers : pending[w] # Null => pending[w] < nextId
    BY DEF PoolInv, PendingOrdered
  <1>6. \A w \in Workers : \A k \in 1 .. Len(queue) :
           pending[w] # Null => pending[w] < queue[k]
    BY DEF PoolInv, PendingOrdered
  <1>7. ASSUME NEW w \in Workers, NEW r \in Requests, r >= nextId
        PROVE  r # pending[w]
    BY <1>1, <1>2, <1>5, <1>7
  <1>8. ASSUME NEW w \in Workers, NEW k \in 1 .. Len(queue)
        PROVE  queue[k] # pending[w]
    <2>1. queue[k] \in Nat /\ queue[k] # Null
      BY <1>1, <1>4
    <2>2. pending[w] # Null => pending[w] < queue[k]
      BY <1>6
    <2> QED
      BY <2>1, <2>2
  <1> QED
    BY <1>1, <1>2, <1>3, <1>4, <1>7, <1>8

\* The pool invariant holds when initialize() has installed the workers.
LEMMA PoolInvInit == Init => PoolInv
  <1> SUFFICES ASSUME Init PROVE PoolInv
    OBVIOUS
  <1>1. TypeOK
    BY TypeInit
  <1>2. ThreadsNumbered /\ NewWorkersIdle /\ NewRequestsOpen
    BY DEF Init, ThreadsNumbered, NewWorkersIdle, NewRequestsOpen, NotStarted, Workers
  <1>3. SlotsHoldOwnWorkers
    BY DEF Init, SlotsHoldOwnWorkers, NotStarted, Indexes, Workers
  <1>4. QueueOrdered /\ PendingOrdered /\ WorkConserving
    BY DEF Init, QueueOrdered, PendingOrdered, WorkConserving
  <1>5. OpenRequestsTracked
    BY DEF Init, OpenRequestsTracked, Requests
  <1> QED
    BY <1>1, <1>2, <1>3, <1>4, <1>5 DEF PoolInv

\* A free slot means an empty queue, so the new request is younger than all
\* that were given to a worker.
LEMMA DispatchToSlotStep ==
    ASSUME PoolInv, TypeOK', DispatchToSlot PROVE PoolInv'
  <1> USE DEF PoolInv
  <1>1. PICK i \in Indexes : Free(i) /\ SendToSlot(slots[i], nextId)
    BY DEF DispatchToSlot, FirstFree
  <1> DEFINE w == slots[i]
  <1>2. /\ w \in Workers /\ pending[w] = Null /\ nextId \in Requests
        /\ thread[w] \notin NotStarted /\ Null \notin Requests
    BY <1>1 DEF Free, TypeOK, SlotsHoldOwnWorkers, DispatchToSlot, Requests, Null
  <1>3. queue = <<>> /\ queue' = queue /\ nextId' = nextId + 1
    BY <1>1 DEF WorkConserving, DispatchToSlot
  <1>4. pending' = [pending EXCEPT ![w] = nextId] /\ UNCHANGED <<outcome, retiring>>
    BY <1>1 DEF SendToSlot, DispatchToSlot
  <1> HIDE DEF w
  <1>5. ThreadsNumbered' /\ SlotsHoldOwnWorkers'
    BY DEF ThreadsNumbered, SlotsHoldOwnWorkers, DispatchToSlot
  <1>6. NewWorkersIdle'
    BY <1>2, <1>4 DEF NewWorkersIdle, TypeOK, DispatchToSlot
  <1>7. QueueOrdered' /\ WorkConserving'
    BY <1>3, <1>4 DEF QueueOrdered, WorkConserving
  <1>10. NewRequestsOpen'
    <2>1. timer' = [timer EXCEPT ![nextId] = TRUE] /\ nextId \in Nat
      BY <1>2, PoolFacts DEF DispatchToSlot, ArmTimer, TypeOK
    <2>2. ASSUME NEW r \in Requests, r >= nextId'
          PROVE  r >= nextId /\ timer'[r] = timer[r]
      <3>1. r \in Nat /\ r > nextId
        BY <1>3, <2>1, <2>2, PoolFacts
      <3>2. timer \in [Requests -> BOOLEAN] /\ r # nextId
        BY <2>1, <3>1 DEF TypeOK
      <3> QED
        BY <2>1, <3>1, <3>2
    <2> QED
      BY <1>4, <2>2 DEF NewRequestsOpen
  <1>8. PendingOrdered'
    <2>1. nextId \in Nat /\ \A v \in Workers : pending[v] \in Requests \cup {Null}
      BY <1>2 DEF TypeOK, Requests
    <2>2. /\ pending'[w] = nextId
          /\ \A v \in Workers : v # w => pending'[v] = pending[v]
      BY <1>2, <1>4 DEF TypeOK
    <2>3. \A v \in Workers : pending[v] # Null => pending[v] < nextId
      BY DEF PendingOrdered
    <2>4. \A v \in Workers : pending'[v] # Null => pending'[v] < nextId'
      BY <1>3, <2>1, <2>2, <2>3 DEF Requests
    <2>5. ASSUME NEW u \in Workers, NEW v \in Workers,
                 pending'[u] = pending'[v], pending'[u] # Null
          PROVE  u = v
      BY <1>2, <2>1, <2>2, <2>3, <2>5 DEF PendingOrdered, Requests
    <2>6. Len(queue') = 0
      BY <1>3
    <2> QED
      BY <2>4, <2>5, <2>6 DEF PendingOrdered
  <1>9. OpenRequestsTracked'
    <2> SUFFICES ASSUME NEW r \in Requests, r < nextId', outcome'[r] = "none"
                 PROVE  timer'[r] /\ Sent(r)'
      BY <1>3 DEF OpenRequestsTracked
    <2>1. CASE r = nextId
      BY <1>2, <1>4, <2>1 DEF Sent, ArmTimer, DispatchToSlot, TypeOK
    <2>2. CASE r # nextId
      <3>1. r < nextId /\ timer[r] /\ Sent(r)
        BY <1>3, <1>4, <2>2 DEF OpenRequestsTracked, Queued, TypeOK, Requests
      <3>2. PICK v \in Workers : pending[v] = r
        BY <3>1 DEF Sent
      <3>3. v # w
        BY <1>2, <3>2
      <3> QED
        BY <1>4, <2>2, <3>1, <3>2, <3>3 DEF Sent, ArmTimer, DispatchToSlot, TypeOK
    <2> QED
      BY <2>1, <2>2
  <1> QED
    BY <1>5, <1>6, <1>7, <1>8, <1>9, <1>10

\* dispatch() appends to the queue only when no slot is free.
LEMMA DispatchToQueueStep ==
    ASSUME PoolInv, TypeOK', DispatchToQueue PROVE PoolInv'
  <1> USE DEF PoolInv
  <1>1. /\ nextId \in Requests /\ nextId' = nextId + 1
        /\ queue \in Seq(Requests) /\ queue' = Append(queue, nextId)
        /\ UNCHANGED <<slots, pending, retiring, thread, home, lastThread, outcome>>
    BY DEF DispatchToQueue, TypeOK, Requests, threadVars
  <1>2. /\ Len(queue') = Len(queue) + 1 /\ Len(queue) \in Nat
        /\ \A k \in 1 .. Len(queue) : queue'[k] = queue[k]
        /\ queue'[Len(queue) + 1] = nextId
    BY <1>1, AppendProperties, LenProperties
  <1>3. ThreadsNumbered' /\ SlotsHoldOwnWorkers' /\ NewWorkersIdle' /\ NewRequestsOpen'
    BY <1>1 DEF ThreadsNumbered, SlotsHoldOwnWorkers, NewWorkersIdle, NewRequestsOpen,
       TypeOK, Requests, DispatchToQueue, ArmTimer
  <1>4. QueueOrdered'
    <2>1. nextId \in Nat /\ outcome[nextId] = "none"
      BY <1>1 DEF NewRequestsOpen, Requests
    <2>2. \A k \in 1 .. Len(queue) : queue[k] \in Nat /\ queue[k] < nextId
                                     /\ outcome[queue[k]] = "none"
      BY <1>1, ElementOfSeq DEF QueueOrdered, Requests
    <2>3. \A k \in 1 .. Len(queue') : k \in 1 .. Len(queue) \/ k = Len(queue) + 1
      BY <1>2
    <2>4. \A k \in 1 .. Len(queue') : queue'[k] < nextId' /\ outcome'[queue'[k]] = "none"
      BY <1>1, <1>2, <2>1, <2>2, <2>3
    <2>5. ASSUME NEW j \in 1 .. Len(queue'), NEW k \in 1 .. Len(queue'), j < k
          PROVE  queue'[j] < queue'[k]
      <3>1. j \in 1 .. Len(queue)
        BY <1>2, <2>5
      <3>2. CASE k \in 1 .. Len(queue)
        BY <1>2, <2>5, <3>1, <3>2 DEF QueueOrdered
      <3>3. CASE k = Len(queue) + 1
        BY <1>2, <2>2, <3>1, <3>3
      <3> QED
        BY <2>3, <3>2, <3>3
    <2> QED
      BY <2>4, <2>5 DEF QueueOrdered
  <1>5. PendingOrdered'
    <2>1. nextId \in Nat /\ \A w \in Workers : pending[w] \in Requests \cup {Null}
      BY <1>1 DEF TypeOK, Requests
    <2>2. \A w \in Workers : pending[w] # Null => pending[w] < nextId
      BY DEF PendingOrdered
    <2>3. \A w \in Workers : pending[w] # Null => pending[w] < nextId'
      BY <1>1, <2>1, <2>2 DEF Requests
    <2>4. ASSUME NEW w \in Workers, NEW k \in 1 .. Len(queue'), pending[w] # Null
          PROVE  pending[w] < queue'[k]
      BY <1>2, <2>2, <2>4 DEF PendingOrdered
    <2> QED
      BY <1>1, <2>3, <2>4 DEF PendingOrdered
  <1>6. WorkConserving'
    BY <1>1 DEF WorkConserving, DispatchToQueue, Free
  <1>7. OpenRequestsTracked'
    <2> SUFFICES ASSUME NEW r \in Requests, r < nextId', outcome'[r] = "none"
                 PROVE  timer'[r] /\ (Queued(r) \/ Sent(r))'
      BY DEF OpenRequestsTracked
    <2>1. CASE r = nextId
      BY <1>2, <2>1 DEF Queued, ArmTimer, DispatchToQueue, TypeOK
    <2>2. CASE r # nextId
      <3>1. timer[r] /\ (Queued(r) \/ Sent(r))
        BY <1>1, <2>2 DEF OpenRequestsTracked, TypeOK, Requests
      <3>2. timer'[r]
        BY <2>2, <3>1 DEF ArmTimer, DispatchToQueue, TypeOK
      <3> QED
        BY <1>1, <1>2, <3>1, <3>2 DEF Queued, Sent
    <2> QED
      BY <2>1, <2>2
  <1> QED
    BY <1>3, <1>4, <1>5, <1>6, <1>7

\* dispatch() settles the request it does not queue.
LEMMA DispatchOverloadedStep ==
    ASSUME PoolInv, TypeOK', DispatchOverloaded PROVE PoolInv'
  <1> USE DEF PoolInv
  <1>1. /\ nextId \in Requests /\ nextId' = nextId + 1
        /\ outcome' = [outcome EXCEPT ![nextId] = "overloaded"]
        /\ UNCHANGED <<slots, queue, pending, retiring, thread, home, lastThread, timer>>
    BY DEF DispatchOverloaded, TypeOK, Requests, threadVars
  <1>2. ThreadsNumbered' /\ SlotsHoldOwnWorkers' /\ NewWorkersIdle' /\ WorkConserving'
    BY <1>1 DEF ThreadsNumbered, SlotsHoldOwnWorkers, NewWorkersIdle, WorkConserving, Free
  <1>3. NewRequestsOpen' /\ QueueOrdered' /\ PendingOrdered'
    BY <1>1 DEF NewRequestsOpen, QueueOrdered, PendingOrdered, TypeOK, Requests
  <1>4. OpenRequestsTracked'
    <2> SUFFICES ASSUME NEW r \in Requests, r < nextId', outcome'[r] = "none"
                 PROVE  timer[r] /\ (Queued(r) \/ Sent(r))
      BY <1>1 DEF OpenRequestsTracked, Queued, Sent
    <2>1. r # nextId /\ outcome[r] = "none"
      BY <1>1 DEF TypeOK
    <2> QED
      BY <1>1, <2>1 DEF OpenRequestsTracked, TypeOK, Requests
  <1> QED
    BY <1>2, <1>3, <1>4

\* A timer takes its request out of the queue and settles it.
LEMMA TimeoutQueuedStep ==
    ASSUME PoolInv, TypeOK', NEW r \in Requests, TimeoutQueued(r) PROVE PoolInv'
  <1> USE DEF PoolInv
  <1>1. PICK k \in 1 .. Len(queue) : queue[k] = r /\ queue' = RemoveAt(queue, k)
    BY DEF TimeoutQueued
  <1>2. /\ outcome'[r] # "none"
        /\ \A q \in Requests : q # r => outcome'[q] = outcome[q] /\ timer'[q] = timer[q]
        /\ UNCHANGED <<slots, nextId, pending, retiring, thread, home, lastThread>>
    BY DEF TimeoutQueued, Settle, threadVars, TypeOK
  <1>3. /\ Len(queue) \in Nat /\ queue \in Seq(Requests) /\ Len(queue') = Len(queue) - 1
        /\ \A j \in 1 .. Len(queue) - 1 :
              queue'[j] = IF j < k THEN queue[j] ELSE queue[j + 1]
    BY <1>1, RemoveAtFacts, PoolFacts
  \* Every element left was in the queue, at old(j), and old is increasing.
  <1> DEFINE old(j) == IF j < k THEN j ELSE j + 1
  <1>4. \A j \in 1 .. Len(queue') :
           old(j) \in 1 .. Len(queue) /\ old(j) # k /\ queue'[j] = queue[old(j)]
    BY <1>3
  <1>5. \A i, j \in 1 .. Len(queue') : i < j => old(i) < old(j)
    BY <1>3
  <1>6. \A j \in 1 .. Len(queue) : j # k =>
           \E i \in 1 .. Len(queue') : queue'[i] = queue[j]
    <2> SUFFICES ASSUME NEW j \in 1 .. Len(queue), j # k
                 PROVE  \E i \in 1 .. Len(queue') : queue'[i] = queue[j]
      OBVIOUS
    <2>1. CASE j < k
      BY <1>3, <2>1
    <2>2. CASE j > k
      <3>1. j - 1 \in 1 .. Len(queue') /\ ~(j - 1 < k) /\ (j - 1) + 1 = j
        BY <1>3, <2>2
      <3> QED
        BY <1>3, <3>1
    <2> QED
      BY <1>3, <2>1, <2>2
  <1> HIDE DEF old
  <1>7. \A j \in 1 .. Len(queue') : queue'[j] \in Requests /\ queue'[j] # r
    <2> SUFFICES ASSUME NEW j \in 1 .. Len(queue')
                 PROVE  queue'[j] \in Requests /\ queue'[j] # r
      OBVIOUS
    <2>1. queue[old(j)] \in Requests /\ (old(j) < k \/ k < old(j))
      BY <1>3, <1>4, ElementOfSeq
    <2>2. queue[old(j)] # queue[k]
      BY <1>3, <1>4, <2>1 DEF QueueOrdered, Requests
    <2> QED
      BY <1>1, <1>4, <2>1, <2>2
  <1>8. ThreadsNumbered' /\ SlotsHoldOwnWorkers' /\ NewWorkersIdle'
    BY <1>2 DEF ThreadsNumbered, SlotsHoldOwnWorkers, NewWorkersIdle
  <1>9. NewRequestsOpen'
    <2>1. r < nextId
      BY <1>1 DEF QueueOrdered
    <2>2. ~(r >= nextId) /\ nextId' = nextId
      BY <1>2, <2>1 DEF TypeOK, Requests
    <2> QED
      BY <1>2, <2>2 DEF NewRequestsOpen
  <1>10. QueueOrdered'
    <2>1. ASSUME NEW j \in 1 .. Len(queue')
          PROVE  queue'[j] < nextId' /\ outcome'[queue'[j]] = "none"
      <3>1. queue[old(j)] < nextId /\ outcome[queue[old(j)]] = "none"
        BY <1>4 DEF QueueOrdered
      <3> QED
        BY <1>2, <1>4, <1>7, <3>1
    <2>2. ASSUME NEW i \in 1 .. Len(queue'), NEW j \in 1 .. Len(queue'), i < j
          PROVE  queue'[i] < queue'[j]
      <3>1. old(i) \in 1 .. Len(queue) /\ old(j) \in 1 .. Len(queue) /\ old(i) < old(j)
        BY <1>4, <1>5, <2>2
      <3>2. queue[old(i)] < queue[old(j)]
        BY <3>1 DEF QueueOrdered
      <3> QED
        BY <1>4, <3>2
    <2> QED
      BY <2>1, <2>2 DEF QueueOrdered
  <1>11. PendingOrdered'
    BY <1>2, <1>4 DEF PendingOrdered
  <1>12. WorkConserving'
    BY <1>2, <1>1, EmptySeq DEF WorkConserving, Free
  <1>13. OpenRequestsTracked'
    <2> SUFFICES ASSUME NEW q \in Requests, q < nextId, outcome'[q] = "none"
                 PROVE  timer'[q] /\ (Queued(q)' \/ Sent(q)')
      BY <1>2 DEF OpenRequestsTracked
    <2>1. q # r /\ timer'[q] /\ (Queued(q) \/ Sent(q))
      BY <1>2 DEF OpenRequestsTracked
    <2>2. CASE Queued(q)
      BY <1>1, <1>6, <2>1, <2>2 DEF Queued
    <2>3. CASE Sent(q)
      BY <1>2, <2>1, <2>3 DEF Sent
    <2> QED
      BY <2>1, <2>2, <2>3
  <1> QED
    BY <1>8, <1>9, <1>10, <1>11, <1>12, <1>13

\* A timer settles a request that runs, and its worker retires.
LEMMA TimeoutSentStep ==
    ASSUME PoolInv, TypeOK', NEW r \in Requests, TimeoutSent(r) PROVE PoolInv'
  <1> USE DEF PoolInv
  <1>1. /\ outcome'[r] # "none"
        /\ \A q \in Requests : q # r => outcome'[q] = outcome[q] /\ timer'[q] = timer[q]
        /\ UNCHANGED <<slots, queue, nextId, pending, thread, home, lastThread>>
        /\ \A k \in 1 .. Len(queue) : queue[k] # r
        /\ timer[r]
    BY DEF TimeoutSent, TimerDue, KeepPending, Settle, threadVars, TypeOK
  <1>2. \A w \in Workers : retiring'[w] =
           (retiring[w] \/ (pending[w] = r /\ \E i \in Indexes : slots[i] = w))
    BY DEF TimeoutSent, Retire
  <1>3. ThreadsNumbered' /\ SlotsHoldOwnWorkers'
    BY <1>1 DEF ThreadsNumbered, SlotsHoldOwnWorkers
  <1>4. NewWorkersIdle'
    <2>1. r # Null
      BY DEF Requests, Null
    <2> QED
      BY <1>1, <1>2, <2>1 DEF NewWorkersIdle
  <1>5. QueueOrdered'
    BY <1>1, ElementOfSeq DEF QueueOrdered, TypeOK
  <1>6. PendingOrdered'
    BY <1>1 DEF PendingOrdered
  <1>7. WorkConserving'
    BY <1>1, <1>2 DEF WorkConserving, Free, TypeOK
  <1>8. OpenRequestsTracked'
    BY <1>1 DEF OpenRequestsTracked, Queued, Sent
  <1>9. NewRequestsOpen'
    <2>1. ~(r >= nextId)
      BY <1>1 DEF NewRequestsOpen
    <2> QED
      BY <1>1, <2>1 DEF NewRequestsOpen
  <1> QED
    BY <1>3, <1>4, <1>5, <1>6, <1>7, <1>8, <1>9

\* A step in which worker w, whose last request is settled, takes the oldest
\* waiting one.
LEMMA DrainStep ==
    ASSUME PoolInv, TypeOK', NEW w \in Workers, DrainQueue(w),
           ThreadsNumbered', SlotsHoldOwnWorkers',
           UNCHANGED <<nextId, retiring>>,
           thread'[w] \notin NotStarted,
           \A v \in Workers : thread'[v] \in NotStarted => thread[v] \in NotStarted,
           \A i \in Indexes : slots'[i] = slots[i] \/ slots'[i] = w,
           \A r \in Requests :
               IF r = pending[w] THEN outcome'[r] # "none"
               ELSE outcome'[r] = outcome[r] /\ timer'[r] = timer[r]
    PROVE  PoolInv'
  <1> USE DEF PoolInv
  <1>0. Null \notin Requests
    BY DEF Null, Requests
  <1>1. CASE queue = <<>>
    <2>1. queue' = <<>> /\ pending' = [pending EXCEPT ![w] = Null]
      BY <1>1 DEF DrainQueue
    <2>2. NewWorkersIdle'
      BY <2>1 DEF NewWorkersIdle, TypeOK
    <2>3. NewRequestsOpen'
      BY PoolFacts DEF NewRequestsOpen
    <2>4. QueueOrdered' /\ WorkConserving'
      BY <2>1 DEF QueueOrdered, WorkConserving
    <2>5. PendingOrdered'
      <3>1. Len(queue') = 0 /\ \A v \in Workers : pending'[v] # Null => pending'[v] = pending[v]
        BY <2>1, EmptySeq DEF TypeOK
      <3> QED
        BY <3>1 DEF PendingOrdered
    <2>6. OpenRequestsTracked'
      BY <1>1, <2>1 DEF OpenRequestsTracked, Queued, Sent, TypeOK
    <2> QED
      BY <2>2, <2>3, <2>4, <2>5, <2>6
  <1>2. CASE queue # <<>>
    <2> DEFINE h == Head(queue)
    <2>1. queue' = Tail(queue) /\ pending' = [pending EXCEPT ![w] = h]
      BY <1>2 DEF DrainQueue, Shift, NextWaiting, SendToSlot
    <2>2. /\ Len(queue) \in Nat /\ Len(queue) >= 1 /\ h = queue[1] /\ h \in Requests
          /\ Len(queue') = Len(queue) - 1
          /\ \A k \in 1 .. Len(queue') : queue'[k] = queue[k + 1]
                                         /\ k + 1 \in 1 .. Len(queue)
      <3>1. queue \in Seq(Requests) /\ Len(queue) \in Nat
        BY PoolFacts
      <3>2. Len(queue) >= 1 /\ h = queue[1]
        BY <1>2, <3>1
      <3>3. h \in Requests /\ Len(queue') = Len(queue) - 1
            /\ \A k \in 1 .. Len(queue') : queue'[k] = queue[k + 1]
        BY <1>2, <2>1, <3>1, HeadTailProperties
      <3> QED
        BY <3>1, <3>2, <3>3
    <2>3. h < nextId /\ outcome[h] = "none" /\ h # Null
      BY <1>0, <2>2 DEF QueueOrdered
    <2>4. /\ pending'[w] = h
          /\ \A v \in Workers : v # w => pending'[v] = pending[v]
      BY <2>1 DEF TypeOK
    <2>5. \A v \in Workers : pending[v] # Null => pending[v] < h
      BY <2>2 DEF PendingOrdered
    <2>6. \A k \in 1 .. Len(queue') : h < queue'[k]
      BY <2>2 DEF QueueOrdered
    <2> HIDE DEF h
    <2>7. NewWorkersIdle'
      BY <2>4 DEF NewWorkersIdle
    <2>8. NewRequestsOpen'
      BY PoolFacts DEF NewRequestsOpen
    <2>9. QueueOrdered'
      <3>1. \A k \in 1 .. Len(queue) :
               queue[k] < nextId /\ outcome'[queue[k]] = "none"
        BY PoolFacts DEF QueueOrdered
      <3>2. \A i, j \in 1 .. Len(queue') : i < j => queue'[i] < queue'[j]
        BY <2>2 DEF QueueOrdered
      <3> QED
        BY <2>2, <3>1, <3>2 DEF QueueOrdered
    <2>10. PendingOrdered'
      <3>1. \A v \in Workers : pending'[v] # Null => pending'[v] < nextId
        BY <2>3, <2>4 DEF PendingOrdered
      <3>2. \A v \in Workers : \A k \in 1 .. Len(queue') :
               pending'[v] # Null => pending'[v] < queue'[k]
        BY <2>2, <2>4, <2>6 DEF PendingOrdered
      <3>3. \A v \in Workers : v # w => pending'[v] # h
        BY <2>2, <2>3, <2>4, <2>5 DEF Requests
      <3>4. \A u, v \in Workers :
               pending'[u] = pending'[v] /\ pending'[u] # Null => u = v
        BY <2>4, <3>3 DEF PendingOrdered
      <3> QED
        BY <3>1, <3>2, <3>4 DEF PendingOrdered
    <2>11. WorkConserving'
      <3> SUFFICES ASSUME NEW i \in Indexes PROVE ~Free(i)'
        BY DEF WorkConserving
      <3>1. CASE slots'[i] = w
        BY <2>3, <2>4, <3>1 DEF Free
      <3>2. CASE slots'[i] # w
        <4>1. slots'[i] = slots[i] /\ ~Free(i)
          BY <1>2, <3>2 DEF WorkConserving
        <4>2. slots[i] # Null => slots[i] \in Workers /\ slots[i] # w
          BY <3>2, <4>1 DEF TypeOK
        <4> QED
          BY <2>4, <4>1, <4>2 DEF Free
      <3> QED
        BY <3>1, <3>2
    <2>12. OpenRequestsTracked'
      <3> SUFFICES ASSUME NEW r \in Requests, r < nextId, outcome'[r] = "none"
                   PROVE  timer'[r] /\ (Queued(r)' \/ Sent(r)')
        BY DEF OpenRequestsTracked
      <3>1. r # pending[w] /\ timer'[r] /\ (Queued(r) \/ Sent(r))
        BY DEF OpenRequestsTracked
      <3>2. CASE Sent(r)
        BY <2>4, <3>1, <3>2 DEF Sent
      <3>3. CASE Queued(r)
        <4>1. PICK k \in 1 .. Len(queue) : queue[k] = r
          BY <3>3 DEF Queued
        <4>2. CASE k = 1
          BY <2>2, <2>4, <3>1, <4>1, <4>2 DEF Sent
        <4>3. CASE k # 1
          <5>1. k - 1 \in 1 .. Len(queue') /\ (k - 1) + 1 = k
            BY <2>2, <4>3
          <5>2. queue'[k - 1] = r
            BY <2>2, <4>1, <5>1
          <5> QED
            BY <3>1, <5>1, <5>2 DEF Queued
        <4> QED
          BY <4>2, <4>3
      <3> QED
        BY <3>1, <3>2, <3>3
    <2> QED
      BY <2>7, <2>8, <2>9, <2>10, <2>11, <2>12
  <1> QED
    BY <1>1, <1>2

\* A step that takes worker w out of its slot and settles what it held.
LEMMA RestartStep ==
    ASSUME PoolInv, TypeOK', NEW w \in Workers, RestartSlot(w),
           pending' = [pending EXCEPT ![w] = Null],
           UNCHANGED <<queue, nextId, retiring, home, lastThread>>,
           \A r \in Requests :
               IF r = pending[w] THEN outcome'[r] # "none"
               ELSE outcome'[r] = outcome[r] /\ timer'[r] = timer[r]
    PROVE  PoolInv'
  <1> USE DEF PoolInv
  <1>1. /\ \A i \in Indexes : slots'[i] = IF i = home[w] THEN Null ELSE slots[i]
        /\ \A v \in Workers : thread'[v] = IF v = w THEN Terminate(thread[w]) ELSE thread[v]
        /\ \A v \in Workers : pending'[v] = IF v = w THEN Null ELSE pending[v]
    BY DEF RestartSlot, TypeOK
  <1>2. Terminate(thread[w]) \in NotStarted <=> thread[w] \in NotStarted
    BY DEF Terminate, NotStarted
  <1>3. ThreadsNumbered'
    BY <1>1 DEF ThreadsNumbered, Terminate
  <1>4. SlotsHoldOwnWorkers'
    <2> SUFFICES ASSUME NEW i \in Indexes, slots'[i] # Null
                 PROVE  home[slots'[i]] = i /\ thread'[slots'[i]] \notin NotStarted
      BY DEF SlotsHoldOwnWorkers
    <2>1. slots'[i] = slots[i] /\ slots[i] \in Workers
      BY <1>1 DEF TypeOK
    <2>2. home[slots[i]] = i /\ thread[slots[i]] \notin NotStarted
      BY <2>1 DEF SlotsHoldOwnWorkers
    <2> QED
      BY <1>1, <1>2, <2>1, <2>2
  <1>5. NewWorkersIdle'
    BY <1>1, <1>2 DEF NewWorkersIdle
  <1>6. NewRequestsOpen'
    BY PoolFacts DEF NewRequestsOpen
  <1>7. QueueOrdered'
    BY PoolFacts DEF QueueOrdered
  <1>8. PendingOrdered'
    BY <1>1 DEF PendingOrdered
  <1>9. WorkConserving'
    <2> SUFFICES ASSUME queue # <<>>, NEW i \in Indexes, slots'[i] # Null
                 PROVE  ~Free(i)'
      BY DEF WorkConserving, Free
    <2>1. slots'[i] = slots[i] /\ slots[i] \in Workers /\ slots[i] # w /\ ~Free(i)
      BY <1>1 DEF WorkConserving, SlotsHoldOwnWorkers, TypeOK
    <2> QED
      BY <1>1, <2>1 DEF Free
  <1>10. OpenRequestsTracked'
    <2> SUFFICES ASSUME NEW r \in Requests, r < nextId, outcome'[r] = "none"
                 PROVE  timer'[r] /\ (Queued(r) \/ Sent(r)')
      BY DEF OpenRequestsTracked, Queued
    <2>1. r # pending[w] /\ timer'[r] /\ (Queued(r) \/ Sent(r))
      BY DEF OpenRequestsTracked
    <2> QED
      BY <1>1, <2>1 DEF Sent
  <1> QED
    BY <1>3, <1>4, <1>5, <1>6, <1>7, <1>8, <1>9, <1>10

\* A step that leaves the requests alone and at most empties slots.
LEMMA QuietStep ==
    ASSUME PoolInv, TypeOK', ThreadsNumbered', SlotsHoldOwnWorkers', NewWorkersIdle',
           UNCHANGED <<queue, nextId, pending, retiring, timer, outcome>>,
           \A i \in Indexes : slots'[i] = slots[i] \/ slots'[i] = Null
    PROVE  PoolInv'
  <1> USE DEF PoolInv
  <1>1. NewRequestsOpen' /\ QueueOrdered' /\ PendingOrdered'
    BY DEF NewRequestsOpen, QueueOrdered, PendingOrdered
  <1>2. WorkConserving'
    BY DEF WorkConserving, Free
  <1>3. OpenRequestsTracked'
    BY DEF OpenRequestsTracked, Queued, Sent
  <1> QED
    BY <1>1, <1>2, <1>3

\* A step that moves threads on without starting any.
LEMMA ThreadsMoveOn ==
    ASSUME PoolInv,
           UNCHANGED <<pending, retiring, home, lastThread>>,
           \A i \in Indexes : slots'[i] = slots[i] \/ slots'[i] = Null,
           \A w \in Workers : thread'[w] \in NotStarted => thread[w] \in NotStarted,
           \A w \in Workers : thread[w] = "unused" => thread'[w] = "unused"
    PROVE  ThreadsNumbered' /\ SlotsHoldOwnWorkers' /\ NewWorkersIdle'
  BY DEF PoolInv, TypeOK, ThreadsNumbered, SlotsHoldOwnWorkers, NewWorkersIdle

\* A new thread takes a number that no slot holds.
LEMMA CreateSlotKeeps ==
    ASSUME PoolInv, NEW i \in Indexes, NEW how \in NotStarted, CreateSlot(i, how),
           UNCHANGED <<slots, pending, retiring>>
    PROVE  ThreadsNumbered' /\ SlotsHoldOwnWorkers' /\ NewWorkersIdle'
  <1> DEFINE n == lastThread + 1
  <1>1. /\ n \in Workers /\ lastThread' = n /\ lastThread \in Nat
        /\ \A v \in Workers : v # n => thread'[v] = thread[v] /\ home'[v] = home[v]
        /\ thread[n] = "unused"
    BY DEF CreateSlot, PoolInv, TypeOK, ThreadsNumbered, Workers
  <1> HIDE DEF n
  <1>2. ThreadsNumbered'
    <2> SUFFICES ASSUME NEW v \in Workers, v > n PROVE thread'[v] = "unused"
      BY <1>1 DEF ThreadsNumbered
    <2>1. v # n /\ v > lastThread
      BY <1>1 DEF Workers, n
    <2> QED
      BY <1>1, <2>1 DEF PoolInv, ThreadsNumbered
  <1>3. SlotsHoldOwnWorkers'
    BY <1>1 DEF PoolInv, TypeOK, SlotsHoldOwnWorkers, NotStarted
  <1>4. NewWorkersIdle'
    <2> SUFFICES ASSUME NEW v \in Workers, thread'[v] \in NotStarted
                 PROVE  thread[v] \in NotStarted
      BY DEF PoolInv, NewWorkersIdle
    <2> QED
      BY <1>1 DEF NotStarted
  <1> QED
    BY <1>2, <1>3, <1>4

\* Every step of the pool preserves the invariant.
LEMMA PoolInvStep == PoolInv /\ [Next]_vars => PoolInv'
  <1> SUFFICES ASSUME PoolInv, [Next]_vars PROVE PoolInv'
    OBVIOUS
  <1>0. TypeOK /\ TypeOK'
    BY TypeStep DEF PoolInv
  <1> USE <1>0
  <1>1. CASE DispatchToSlot
    BY <1>1, DispatchToSlotStep
  <1>2. CASE DispatchToQueue
    BY <1>2, DispatchToQueueStep
  <1>3. CASE DispatchOverloaded
    BY <1>3, DispatchOverloadedStep
  <1>4. ASSUME NEW r \in Requests, TimeoutQueued(r) PROVE PoolInv'
    BY <1>4, TimeoutQueuedStep
  <1>5. ASSUME NEW r \in Requests, TimeoutSent(r) PROVE PoolInv'
    BY <1>5, TimeoutSentStep
  <1>6. ASSUME NEW w \in Workers, ResponseDrain(w) PROVE PoolInv'
    <2>1. /\ DrainQueue(w) /\ Settle(pending[w], "answered")
          /\ UNCHANGED <<nextId, retiring, slots, thread, home, lastThread>>
      BY <1>6 DEF ResponseDrain
    <2>2. pending[w] # Null
      <3>1. Head(outbox[w]) \in Messages /\ Head(outbox[w]).kind = "response"
        BY <1>6, HeadTailProperties DEF ResponseDrain, HasResponse, TypeOK
      <3>2. Head(outbox[w]).id \in Requests
        BY <3>1 DEF Messages
      <3> QED
        BY <1>6, <3>2, PoolFacts DEF ResponseDrain
    <2>3. thread[w] \notin NotStarted
      BY <2>2 DEF PoolInv, NewWorkersIdle
    <2>4. ThreadsNumbered' /\ SlotsHoldOwnWorkers'
      BY <2>1 DEF PoolInv, ThreadsNumbered, SlotsHoldOwnWorkers
    <2>5. \A r \in Requests :
             IF r = pending[w] THEN outcome'[r] # "none"
             ELSE outcome'[r] = outcome[r] /\ timer'[r] = timer[r]
      BY <2>1 DEF Settle, TypeOK
    <2> QED
      BY <2>1, <2>3, <2>4, <2>5, DrainStep
  <1>7. ASSUME NEW w \in Workers, ResponseRestart(w) PROVE PoolInv'
    <2>1. /\ RestartSlot(w) /\ Settle(pending[w], "answered")
          /\ pending' = [pending EXCEPT ![w] = Null]
          /\ UNCHANGED <<queue, nextId, retiring, home, lastThread>>
      BY <1>7 DEF ResponseRestart
    <2>2. \A r \in Requests :
             IF r = pending[w] THEN outcome'[r] # "none"
             ELSE outcome'[r] = outcome[r] /\ timer'[r] = timer[r]
      BY <2>1 DEF Settle, TypeOK
    <2> QED
      BY <2>1, <2>2, RestartStep
  <1>8. ASSUME NEW w \in Workers, HandleWorkerCrash(w) PROVE PoolInv'
    <2>1. /\ RestartSlot(w) /\ RejectPending(w)
          /\ pending' = [pending EXCEPT ![w] = Null]
          /\ UNCHANGED <<queue, nextId, retiring, home, lastThread>>
      BY <1>8 DEF HandleWorkerCrash
    <2>2. \A r \in Requests :
             IF r = pending[w] THEN outcome'[r] # "none"
             ELSE outcome'[r] = outcome[r] /\ timer'[r] = timer[r]
      BY <2>1, PoolFacts DEF RejectPending, Settle, callVars, TypeOK
    <2> QED
      BY <2>1, <2>2, RestartStep
  <1>9. ASSUME NEW w \in Workers, RestartTerminated(w) PROVE PoolInv'
    <2>1. UNCHANGED <<slots, queue, nextId, pending, retiring, timer, outcome>>
      BY <1>9 DEF RestartTerminated, poolVars, callVars
    <2>2. ThreadsNumbered' /\ SlotsHoldOwnWorkers' /\ NewWorkersIdle'
      <3>1. CASE closed
        BY <1>9, <2>1, <3>1 DEF RestartTerminated, PoolInv, ThreadsNumbered,
           SlotsHoldOwnWorkers, NewWorkersIdle
      <3>2. CASE ~closed
        <4>1. CreateSlot(home[w], "booting") /\ home[w] \in Indexes
              /\ "booting" \in NotStarted
          BY <1>9, <3>2 DEF RestartTerminated, NotStarted, TypeOK
        <4> QED
          BY <2>1, <4>1, CreateSlotKeeps
      <3> QED
        BY <3>1, <3>2
    <2> QED
      BY <2>1, <2>2, QuietStep
  <1>10. ASSUME NEW w \in Workers, Booted(w) PROVE PoolInv'
    <2>1. /\ DrainQueue(w) /\ thread[w] \in NotStarted
          /\ UNCHANGED <<nextId, retiring, home, lastThread, outcome, timer>>
          /\ slots' = [slots EXCEPT ![home[w]] = w]
          /\ thread' = [thread EXCEPT ![w] = "alive"]
          /\ thread[w] # "unused"
      BY <1>10 DEF Booted, NotStarted, callVars
    <2>2. pending[w] = Null /\ \A r \in Requests : r # pending[w]
      BY <2>1, PoolFacts DEF PoolInv, NewWorkersIdle
    <2>3. /\ thread'[w] \notin NotStarted
          /\ \A v \in Workers : thread'[v] \in NotStarted => thread[v] \in NotStarted
          /\ \A i \in Indexes : slots'[i] = slots[i] \/ slots'[i] = w
      BY <2>1 DEF NotStarted, TypeOK
    <2>4. ThreadsNumbered'
      BY <2>1 DEF PoolInv, ThreadsNumbered, TypeOK
    <2>5. SlotsHoldOwnWorkers'
      <3> SUFFICES ASSUME NEW i \in Indexes, slots'[i] # Null
                   PROVE  home[slots'[i]] = i /\ thread'[slots'[i]] \notin NotStarted
        BY <2>1 DEF SlotsHoldOwnWorkers
      <3>1. CASE i = home[w]
        BY <2>1, <2>3, <3>1 DEF TypeOK
      <3>2. CASE i # home[w]
        <4>1. slots'[i] = slots[i] /\ slots[i] \in Workers
          BY <2>1, <3>2 DEF TypeOK
        <4>2. home[slots[i]] = i /\ thread[slots[i]] \notin NotStarted
          BY <4>1 DEF PoolInv, SlotsHoldOwnWorkers
        <4> QED
          BY <2>3, <4>1, <4>2
      <3> QED
        BY <3>1, <3>2
    <2> QED
      BY <2>1, <2>2, <2>3, <2>4, <2>5, DrainStep
  <1>11. ASSUME NEW w \in Workers, BootFailed(w) PROVE PoolInv'
    <2>1. /\ UNCHANGED <<queue, nextId, pending, retiring, home, lastThread, timer, outcome>>
          /\ slots' = [slots EXCEPT ![home[w]] = Null]
          /\ thread' = [thread EXCEPT ![w] = "dead"]
          /\ thread[w] = "booting"
      BY <1>11 DEF BootFailed, callVars
    <2>2. \A i \in Indexes : slots'[i] = slots[i] \/ slots'[i] = Null
      BY <2>1 DEF TypeOK
    <2>3. ThreadsNumbered' /\ NewWorkersIdle' /\ SlotsHoldOwnWorkers'
      BY <2>1, <2>2, ThreadsMoveOn DEF NotStarted, TypeOK
    <2> QED
      BY <2>1, <2>2, <2>3, QuietStep
  <1>12. ASSUME NEW w \in Workers, RetryFailed(w) PROVE PoolInv'
    <2>1. /\ UNCHANGED <<slots, queue, nextId, pending, retiring, home, lastThread,
                         timer, outcome>>
          /\ thread' = [thread EXCEPT ![w] = "dead"] /\ thread[w] = "rebooting"
      BY <1>12 DEF RetryFailed, poolVars, callVars
    <2>2. ThreadsNumbered' /\ NewWorkersIdle' /\ SlotsHoldOwnWorkers'
      BY <2>1, ThreadsMoveOn DEF NotStarted, TypeOK
    <2> QED
      BY <2>1, <2>2, QuietStep
  <1>13. ASSUME NEW w \in Workers, NEW b \in BOOLEAN, Answer(w, b) PROVE PoolInv'
    <2>1. UNCHANGED <<slots, queue, nextId, pending, retiring, thread, home, lastThread,
                      timer, outcome>>
      BY <1>13 DEF Answer, poolVars, callVars
    <2>2. ThreadsNumbered' /\ NewWorkersIdle' /\ SlotsHoldOwnWorkers'
      BY <2>1, ThreadsMoveOn
    <2> QED
      BY <2>1, <2>2, QuietStep
  <1>14. ASSUME NEW w \in Workers, Crash(w) PROVE PoolInv'
    <2>1. /\ UNCHANGED <<slots, queue, nextId, pending, retiring, home, lastThread,
                         timer, outcome>>
          /\ thread[w] # "unused" /\ thread'[w] \notin NotStarted
          /\ \A v \in Workers : v # w => thread'[v] = thread[v]
      BY <1>14 DEF Crash, Running, poolVars, callVars, NotStarted, TypeOK
    <2>2. ThreadsNumbered' /\ NewWorkersIdle' /\ SlotsHoldOwnWorkers'
      BY <2>1, ThreadsMoveOn DEF NotStarted, TypeOK
    <2> QED
      BY <2>1, <2>2, QuietStep
  <1>15. ASSUME NEW w \in Workers, ThreadExit(w) PROVE PoolInv'
    <2>1. /\ UNCHANGED <<slots, queue, nextId, pending, retiring, home, lastThread,
                         timer, outcome>>
          /\ thread[w] # "unused" /\ thread'[w] \notin NotStarted
          /\ \A v \in Workers : v # w => thread'[v] = thread[v]
      BY <1>15 DEF ThreadExit, poolVars, callVars, NotStarted, TypeOK
    <2>2. ThreadsNumbered' /\ NewWorkersIdle' /\ SlotsHoldOwnWorkers'
      BY <2>1, ThreadsMoveOn DEF NotStarted, TypeOK
    <2> QED
      BY <2>1, <2>2, QuietStep
  <1>16. ASSUME NEW i \in Indexes, RetryTimer(i) PROVE PoolInv'
    <2>1. UNCHANGED <<slots, queue, nextId, pending, retiring, timer, outcome>>
      BY <1>16 DEF RetryTimer, poolVars, callVars
    <2>2. ThreadsNumbered' /\ SlotsHoldOwnWorkers' /\ NewWorkersIdle'
      <3>1. CASE closed
        BY <1>16, <2>1, <3>1 DEF RetryTimer, PoolInv, ThreadsNumbered,
           SlotsHoldOwnWorkers, NewWorkersIdle
      <3>2. CASE ~closed
        BY <1>16, <2>1, <3>2, CreateSlotKeeps DEF RetryTimer, NotStarted
      <3> QED
        BY <3>1, <3>2
    <2> QED
      BY <2>1, <2>2, QuietStep
  <1>17. CASE Close
    <2>1. /\ UNCHANGED <<slots, nextId, pending, retiring, home, lastThread>>
          /\ queue' = <<>>
          /\ \A w \in Workers : thread'[w] = thread[w] \/ thread'[w] = Terminate(thread[w])
          /\ \A r \in Requests : outcome'[r] = IF Queued(r) THEN "shutdown" ELSE outcome[r]
          /\ \A r \in Requests : timer'[r] = (timer[r] /\ ~Queued(r))
      BY <1>17 DEF Close, Queued
    <2>2. \A w \in Workers :
             /\ thread'[w] \in NotStarted => thread[w] \in NotStarted
             /\ thread[w] = "unused" => thread'[w] = "unused"
      BY <2>1 DEF Terminate, NotStarted
    <2>3. ThreadsNumbered' /\ NewWorkersIdle' /\ SlotsHoldOwnWorkers'
      BY <2>1, <2>2, ThreadsMoveOn
    <2>4. NewRequestsOpen'
      <3>1. \A r \in Requests : Queued(r) => r < nextId
        BY DEF PoolInv, Queued, QueueOrdered
      <3>2. \A r \in Requests : r >= nextId => ~Queued(r)
        BY <3>1, PoolFacts
      <3> QED
        BY <2>1, <3>2 DEF PoolInv, NewRequestsOpen
    <2>5. QueueOrdered' /\ WorkConserving' /\ PendingOrdered'
      BY <2>1 DEF PoolInv, QueueOrdered, WorkConserving, PendingOrdered
    <2>6. OpenRequestsTracked'
      BY <2>1 DEF PoolInv, OpenRequestsTracked, Sent
    <2> QED
      BY <2>3, <2>4, <2>5, <2>6 DEF PoolInv
  <1>18. CASE CloseDone
    <2>1. /\ UNCHANGED <<queue, nextId, pending, retiring, thread, home, lastThread,
                         timer, outcome>>
          /\ \A i \in Indexes : slots'[i] = Null
      BY <1>18 DEF CloseDone, threadVars, callVars
    <2>2. ThreadsNumbered' /\ NewWorkersIdle' /\ SlotsHoldOwnWorkers'
      BY <2>1, ThreadsMoveOn
    <2> QED
      BY <2>1, <2>2, QuietStep
  <1>19. CASE UNCHANGED vars
    <2>1. UNCHANGED <<slots, queue, nextId, pending, retiring, thread, home, lastThread,
                      timer, outcome>>
      BY <1>19 DEF vars, poolVars, threadVars, callVars
    <2>2. ThreadsNumbered' /\ NewWorkersIdle' /\ SlotsHoldOwnWorkers'
      BY <2>1, ThreadsMoveOn
    <2> QED
      BY <2>1, <2>2, QuietStep
  <1> QED
    BY <1>1, <1>2, <1>3, <1>4, <1>5, <1>6, <1>7, <1>8, <1>9, <1>10, <1>11, <1>12,
       <1>13, <1>14, <1>15, <1>16, <1>17, <1>18, <1>19
       DEF Next, Dispatch, Timeout, OnWorkerEvent, BootSettled

\* The invariant holds in every reachable state of the pool.
THEOREM PoolInvariant == Spec => []PoolInv
  BY PoolInvInit, PoolInvStep, PTL DEF Spec

\* No request waits while an installed worker is free, in any reachable state.
THEOREM PoolWorkConserving == Spec => []WorkConserving
  <1>1. PoolInv => WorkConserving
    BY DEF PoolInv
  <1> QED
    BY <1>1, PoolInvariant, PTL

\* A request never waits and runs at once, and never runs on two workers.
THEOREM PoolAtMostOnePlace == Spec => []AtMostOnePlace
  <1>1. PoolInv => AtMostOnePlace
    BY PoolFacts DEF PoolInv, AtMostOnePlace, Queued, Sent, QueueOrdered, PendingOrdered
  <1> QED
    BY <1>1, PoolInvariant, PTL

\* A request whose promise is open waits or runs, with its timer armed.
THEOREM PoolTracksOpenRequests == Spec => []OpenRequestsTracked
  <1>1. PoolInv => OpenRequestsTracked
    BY DEF PoolInv
  <1> QED
    BY <1>1, PoolInvariant, PTL

\* Both together: every request the pool has accepted is in one place, with its
\* timer armed, until it is settled.
THEOREM PoolAccountsRequests == Spec => []RequestsAccounted
  BY PoolAtMostOnePlace, PoolTracksOpenRequests, PTL DEF RequestsAccounted

\* The request a worker is given by a step.
Started(w) == pending'[w] # pending[w] /\ pending'[w] # Null

\* Workers are given requests by three handlers only: the oldest waiting
\* request, or a new one when none waits.
LEMMA WhatStarts ==
    ASSUME PoolInv, [Next]_vars, NEW w \in Workers, Started(w)
    PROVE  /\ ~retiring[w]
           /\ \/ queue # <<>> /\ pending'[w] = Head(queue)
              \/ queue = <<>> /\ pending'[w] = nextId /\ nextId \in Requests
  <1>0. TypeOK /\ TypeOK'
    BY TypeStep DEF PoolInv
  <1> USE DEF Started
  <1>1. CASE DispatchToSlot
    <2>1. PICK i \in Indexes : Free(i) /\ SendToSlot(slots[i], nextId)
      BY <1>1 DEF DispatchToSlot, FirstFree
    <2>2. queue = <<>> /\ nextId \in Requests
      BY <1>0, <1>1, <2>1 DEF PoolInv, WorkConserving, DispatchToSlot, TypeOK, Requests
    <2>3. w = slots[i]
      BY <1>0, <2>1 DEF SendToSlot, TypeOK
    <2> QED
      BY <1>0, <2>1, <2>2, <2>3 DEF SendToSlot, Free, TypeOK
  <1>2. ASSUME NEW v \in Workers, DrainQueue(v), ~retiring[v]
        PROVE  ~retiring[w] /\ queue # <<>> /\ pending'[w] = Head(queue)
    BY <1>0, <1>2 DEF DrainQueue, Shift, NextWaiting, SendToSlot, TypeOK
  <1>3. ASSUME NEW v \in Workers, ResponseDrain(v)
        PROVE  ~retiring[w] /\ queue # <<>> /\ pending'[w] = Head(queue)
    BY <1>2, <1>3 DEF ResponseDrain
  <1>4. ASSUME NEW v \in Workers, Booted(v)
        PROVE  ~retiring[w] /\ queue # <<>> /\ pending'[w] = Head(queue)
    <2>1. ~retiring[v]
      BY <1>4 DEF Booted, PoolInv, NewWorkersIdle, NotStarted
    <2> QED
      BY <1>2, <1>4, <2>1 DEF Booted
  <1>5. ASSUME NEW v \in Workers, ResponseRestart(v) \/ HandleWorkerCrash(v)
        PROVE  FALSE
    BY <1>0, <1>5 DEF ResponseRestart, HandleWorkerCrash, TypeOK
  <1>6. CASE UNCHANGED pending
    BY <1>6
  <1>7. \/ DispatchToSlot \/ UNCHANGED pending
        \/ \E v \in Workers : \/ ResponseDrain(v) \/ Booted(v)
                              \/ ResponseRestart(v) \/ HandleWorkerCrash(v)
    BY DEF Next, Dispatch, DispatchToQueue, DispatchOverloaded, Timeout, TimeoutQueued,
       TimeoutSent, KeepPending, OnWorkerEvent, BootSettled, RestartTerminated,
       BootFailed, RetryFailed, Answer, Crash, ThreadExit, RetryTimer, Close,
       CloseDone, poolVars, vars
  <1> QED
    BY <1>1, <1>3, <1>4, <1>5, <1>6, <1>7

\* Requests start in the order of dispatch(), once, and never after they were
\* settled or on a worker that let one time out.
THEOREM PoolStartsInOrder == Spec => StartedInOrder
  <1> DEFINE InOrder ==
        \A w \in Workers : Started(w)
            => /\ ~retiring[w] /\ outcome[pending'[w]] = "none"
               /\ \A k \in 1 .. Len(queue') : pending'[w] < queue'[k]
               /\ \A v \in Workers : pending[v] # Null => pending[v] < pending'[w]
  <1>1. PoolInv /\ [Next]_vars => InOrder
    <2> SUFFICES ASSUME PoolInv, [Next]_vars, NEW w \in Workers, Started(w)
                 PROVE  /\ ~retiring[w] /\ outcome[pending'[w]] = "none"
                        /\ \A k \in 1 .. Len(queue') : pending'[w] < queue'[k]
                        /\ \A v \in Workers : pending[v] # Null => pending[v] < pending'[w]
      OBVIOUS
    <2>1. PoolInv'
      BY PoolInvStep
    <2>2. \A k \in 1 .. Len(queue') : pending'[w] < queue'[k]
      BY <2>1 DEF PoolInv, PendingOrdered, Started
    <2>3. CASE queue # <<>> /\ pending'[w] = Head(queue)
      <3>1. 1 \in 1 .. Len(queue) /\ Head(queue) = queue[1]
        BY <2>3, PoolFacts
      <3> QED
        BY <2>2, <2>3, <3>1, WhatStarts DEF PoolInv, QueueOrdered, PendingOrdered
    <2>4. CASE pending'[w] = nextId /\ nextId \in Requests
      BY <2>2, <2>4, WhatStarts, PoolFacts DEF PoolInv, NewRequestsOpen, PendingOrdered
    <2> QED
      BY <2>3, <2>4, WhatStarts
  <1>2. [Next]_vars /\ PoolInv => [InOrder]_vars
    BY <1>1
  <1>3. Spec => [][InOrder]_vars
    BY <1>2, PoolInvariant, PTL DEF Spec
  <1> QED
    BY <1>3 DEF StartedInOrder, Started

-----------------------------------------------------------------------------
(***************************************************************************)
(* Answers reach the requests they are of.  The messages of a worker that  *)
(* the main thread has not handled are at most one response, which is      *)
(* first and of the pending request, and the 'error' event of a thread     *)
(* that has failed; while a thread works on a request there are none.      *)
(***************************************************************************)
Failed == {"crashed", "dying"}

MailInOrder(w) ==
    /\ job[w] # Null => job[w] = pending[w] /\ outbox[w] = <<>>
    /\ \A k \in 1 .. Len(outbox[w]) :
          IF outbox[w][k].kind = "response"
          THEN k = 1 /\ outbox[w][k].id = pending[w]
          ELSE thread[w] \in Failed

MailInv == \A w \in Workers : MailInOrder(w)

\* A thread that has not failed and has no request has left no message.
LEMMA NoMail ==
    ASSUME TypeOK, NEW w \in Workers, MailInOrder(w),
           pending[w] = Null, thread[w] \notin Failed
    PROVE  outbox[w] = <<>>
  <1>1. outbox[w] \in Seq(Messages)
    BY DEF TypeOK
  <1>2. \A k \in 1 .. Len(outbox[w]) : outbox[w][k] \in Messages
    BY <1>1, ElementOfSeq
  <1>3. \A m \in Messages : m.kind = "response" => m.id \in Requests
    BY DEF Messages
  <1>4. 1 \notin 1 .. Len(outbox[w])
    BY <1>2, <1>3 DEF MailInOrder, Null, Requests
  <1> QED
    BY <1>1, <1>4, EmptySeq, LenProperties

\* A step that leaves a worker and its mail alone, but may make its thread fail.
LEMMA MailKept ==
    ASSUME NEW w \in Workers, MailInOrder(w),
           job'[w] = job[w], outbox'[w] = outbox[w], pending'[w] = pending[w],
           thread[w] \in Failed => thread'[w] \in Failed
    PROVE  MailInOrder(w)'
  BY DEF MailInOrder

\* What is left of a worker's mail without its first message.
LEMMA MailHandled ==
    ASSUME TypeOK, NEW w \in Workers, MailInOrder(w), outbox[w] # <<>>,
           thread[w] \in Failed => thread'[w] \in Failed,
           outbox'[w] = Tail(outbox[w]),
           outbox'[w] = <<>> \/ job'[w] = Null,
           job'[w] # Null => job'[w] = pending'[w]
    PROVE  MailInOrder(w)'
  <1>1. /\ outbox[w] \in Seq(Messages) /\ Len(outbox'[w]) = Len(outbox[w]) - 1
        /\ \A k \in 1 .. Len(outbox'[w]) : outbox'[w][k] = outbox[w][k + 1]
        /\ Len(outbox[w]) \in Nat
    BY HeadTailProperties, LenProperties DEF TypeOK
  <1>2. \A k \in 1 .. Len(outbox'[w]) :
           /\ k + 1 \in 1 .. Len(outbox[w]) /\ k + 1 # 1
           /\ outbox'[w][k] = outbox[w][k + 1]
    BY <1>1
  <1>3. \A k \in 1 .. Len(outbox'[w]) :
           outbox'[w][k].kind # "response" /\ thread'[w] \in Failed
    BY <1>2 DEF MailInOrder
  <1> QED
    BY <1>3 DEF MailInOrder

\* What a worker is given becomes its job, unless its thread has failed.
LEMMA MailSent ==
    ASSUME TypeOK, NEW w \in Workers, NEW r \in Requests, SendToSlot(w, r),
           MailInOrder(w), pending[w] = Null, UNCHANGED <<outbox, thread>>
    PROVE  MailInOrder(w)'
  <1>1. job[w] = Null
    BY DEF MailInOrder
  <1>2. pending'[w] = r /\ job'[w] \in {r, Null}
        /\ (thread[w] \in Failed => job'[w] = Null)
    BY <1>1 DEF SendToSlot, TypeOK, Failed
  <1>3. CASE thread[w] \in Failed
    <2>1. \A k \in 1 .. Len(outbox[w]) : outbox[w][k].kind # "response"
      <3>1. outbox[w] \in Seq(Messages)
        BY DEF TypeOK
      <3>2. \A k \in 1 .. Len(outbox[w]) : outbox[w][k] \in Messages
        BY <3>1, ElementOfSeq
      <3>3. \A m \in Messages : m.kind = "response" => m.id # Null
        BY DEF Messages, Requests, Null
      <3> QED
        BY <3>2, <3>3 DEF MailInOrder
    <2> QED
      BY <1>2, <1>3, <2>1 DEF MailInOrder
  <1>4. CASE thread[w] \notin Failed
    <2>1. outbox'[w] = <<>>
      BY <1>4, NoMail
    <2> QED
      BY <1>2, <2>1 DEF MailInOrder
  <1> QED
    BY <1>3, <1>4

\* Every step keeps the mail of every worker in order.
LEMMA MailInvStep == PoolInv /\ MailInv /\ [Next]_vars => MailInv'
  <1> SUFFICES ASSUME PoolInv, MailInv, [Next]_vars, NEW v \in Workers
               PROVE  MailInOrder(v)'
    BY DEF MailInv
  <1>0. TypeOK /\ MailInOrder(v) /\ Null \notin Requests
    BY DEF PoolInv, MailInv, Null, Requests
  <1>1. CASE DispatchToSlot
    <2>1. PICK i \in Indexes : Free(i) /\ SendToSlot(slots[i], nextId)
      BY <1>1 DEF DispatchToSlot, FirstFree
    <2>2. /\ slots[i] \in Workers /\ pending[slots[i]] = Null /\ nextId \in Requests
          /\ UNCHANGED <<outbox, thread>>
      BY <1>0, <1>1, <2>1 DEF DispatchToSlot, Free, TypeOK, Requests
    <2>3. CASE v = slots[i]
      BY <1>0, <2>1, <2>2, <2>3, MailSent
    <2>4. CASE v # slots[i]
      <3>1. job'[v] = job[v] /\ pending'[v] = pending[v]
        BY <1>0, <2>1, <2>2, <2>4 DEF SendToSlot, TypeOK
      <3> QED
        BY <1>0, <2>2, <3>1, MailKept
    <2> QED
      BY <2>3, <2>4
  <1>2. ASSUME NEW w \in Workers, ResponseDrain(w) PROVE MailInOrder(v)'
    <2>1. /\ DrainQueue(w) /\ thread' = thread /\ outbox[w] # <<>>
          /\ outbox' = [outbox EXCEPT ![w] = Tail(@)]
      BY <1>2 DEF ResponseDrain, HasResponse
    <2>2. CASE v # w
      <3>1. job'[v] = job[v] /\ pending'[v] = pending[v] /\ outbox'[v] = outbox[v]
        BY <1>0, <2>1, <2>2 DEF DrainQueue, SendToSlot, TypeOK
      <3> QED
        BY <1>0, <2>1, <3>1, MailKept
    <2>3. CASE v = w
      <3>1. job[w] = Null /\ outbox'[w] = Tail(outbox[w])
        BY <1>0, <2>1, <2>3 DEF MailInOrder, TypeOK
      <3>2. \/ job'[w] = Null
            \/ job'[w] = pending'[w] /\ thread[w] \in {"alive", "booting", "rebooting"}
        BY <1>0, <2>1, <3>1 DEF DrainQueue, SendToSlot, TypeOK
      <3>3. CASE thread[w] \in Failed
        BY <1>0, <2>1, <2>3, <3>1, <3>2, <3>3, MailHandled DEF Failed
      <3>4. CASE thread[w] \notin Failed
        <4>1. /\ outbox[w] \in Seq(Messages) /\ Len(outbox'[w]) = Len(outbox[w]) - 1
              /\ Len(outbox[w]) \in Nat /\ outbox'[w] \in Seq(Messages)
          BY <1>0, <2>1, <3>1, HeadTailProperties, LenProperties DEF TypeOK
        <4>2. 2 \notin 1 .. Len(outbox[w])
          BY <1>0, <2>3, <3>4 DEF MailInOrder
        <4>3. Len(outbox[w]) # 0
          BY <2>1, <4>1, EmptySeq
        <4>4. outbox'[w] = <<>>
          BY <4>1, <4>2, <4>3, EmptySeq
        <4> QED
          BY <1>0, <2>1, <2>3, <3>1, <3>2, <4>4, MailHandled
      <3> QED
        BY <3>3, <3>4
    <2> QED
      BY <2>2, <2>3
  <1>3. ASSUME NEW w \in Workers, ResponseRestart(w) \/ HandleWorkerCrash(w)
        PROVE  MailInOrder(v)'
    <2>1. /\ RestartSlot(w) /\ job' = job /\ outbox[w] # <<>>
          /\ outbox' = [outbox EXCEPT ![w] = Tail(@)]
          /\ pending' = [pending EXCEPT ![w] = Null]
      BY <1>3 DEF ResponseRestart, HandleWorkerCrash, HasResponse
    <2>2. thread[v] \in Failed => thread'[v] \in Failed
      BY <1>0, <2>1 DEF RestartSlot, Terminate, Failed, TypeOK
    <2>3. CASE v # w
      <3>1. pending'[v] = pending[v] /\ outbox'[v] = outbox[v]
        BY <1>0, <2>1, <2>3 DEF TypeOK
      <3> QED
        BY <1>0, <2>1, <2>2, <3>1, MailKept
    <2>4. CASE v = w
      <3>1. job'[w] = Null /\ outbox'[w] = Tail(outbox[w])
        BY <1>0, <2>1, <2>4 DEF MailInOrder, TypeOK
      <3> QED
        BY <1>0, <2>1, <2>2, <2>4, <3>1, MailHandled
    <2> QED
      BY <2>3, <2>4
  <1>4. ASSUME NEW w \in Workers, Booted(w) PROVE MailInOrder(v)'
    <2>1. /\ DrainQueue(w) /\ outbox' = outbox /\ thread[w] \in {"booting", "rebooting"}
          /\ thread' = [thread EXCEPT ![w] = "alive"]
      BY <1>4 DEF Booted
    <2>2. CASE v # w
      <3>1. job'[v] = job[v] /\ pending'[v] = pending[v] /\ thread'[v] = thread[v]
        BY <1>0, <2>1, <2>2 DEF DrainQueue, SendToSlot, TypeOK
      <3> QED
        BY <1>0, <2>1, <3>1, MailKept
    <2>3. CASE v = w
      <3>1. pending[w] = Null /\ thread[w] \notin Failed
        BY <2>1 DEF PoolInv, NewWorkersIdle, NotStarted, Failed
      <3>2. outbox'[w] = <<>> /\ job[w] = Null
        BY <1>0, <2>1, <2>3, <3>1, NoMail DEF MailInOrder
      <3>3. job'[w] = Null \/ job'[w] = pending'[w]
        BY <1>0, <2>1, <3>2 DEF DrainQueue, SendToSlot, TypeOK
      <3> QED
        BY <2>3, <3>2, <3>3 DEF MailInOrder
    <2> QED
      BY <2>2, <2>3
  <1>5. ASSUME NEW w \in Workers, NEW b \in BOOLEAN, Answer(w, b) PROVE MailInOrder(v)'
    <2>1. /\ job[w] # Null /\ job' = [job EXCEPT ![w] = Null]
          /\ outbox' = [outbox EXCEPT ![w] =
                           Append(@, [kind |-> "response", id |-> job[w],
                                      needsRestart |-> b])]
          /\ UNCHANGED <<pending, thread>>
      BY <1>5 DEF Answer, poolVars
    <2>2. CASE v # w
      <3>1. job'[v] = job[v] /\ outbox'[v] = outbox[v]
        BY <1>0, <2>1, <2>2 DEF TypeOK
      <3> QED
        BY <1>0, <2>1, <3>1, MailKept
    <2>3. CASE v = w
      <3>1. outbox[w] = <<>> /\ job[w] = pending[w]
        BY <1>0, <2>1, <2>3 DEF MailInOrder
      <3>2. job'[w] = Null /\ pending'[w] = pending[w]
            /\ outbox'[w] = <<[kind |-> "response", id |-> pending[w], needsRestart |-> b]>>
        BY <1>0, <2>1, <3>1 DEF TypeOK
      <3> QED
        BY <2>3, <3>2 DEF MailInOrder
    <2> QED
      BY <2>2, <2>3
  <1>6. ASSUME NEW w \in Workers, Crash(w) PROVE MailInOrder(v)'
    <2>1. /\ thread'[w] \in Failed
          /\ \A u \in Workers : u # w => thread'[u] = thread[u]
          /\ job' = [job EXCEPT ![w] = Null] /\ pending' = pending
          /\ outbox' = [outbox EXCEPT ![w] = Append(@, [kind |-> "error"])]
      BY <1>0, <1>6 DEF Crash, poolVars, Failed, TypeOK
    <2>2. CASE v # w
      <3>1. job'[v] = job[v] /\ outbox'[v] = outbox[v] /\ thread'[v] = thread[v]
        BY <1>0, <2>1, <2>2 DEF TypeOK
      <3> QED
        BY <1>0, <2>1, <3>1, MailKept
    <2>3. CASE v = w
      <3>1. /\ job'[w] = Null /\ outbox'[w] = Append(outbox[w], [kind |-> "error"])
            /\ outbox[w] \in Seq(Messages) /\ [kind |-> "error"] \in Messages
        BY <1>0, <2>1 DEF TypeOK, Messages
      <3>2. /\ Len(outbox'[w]) = Len(outbox[w]) + 1 /\ Len(outbox[w]) \in Nat
            /\ \A k \in 1 .. Len(outbox[w]) : outbox'[w][k] = outbox[w][k]
            /\ outbox'[w][Len(outbox[w]) + 1].kind = "error"
        BY <3>1, AppendProperties, LenProperties
      <3> QED
        BY <1>0, <2>1, <2>3, <3>1, <3>2 DEF MailInOrder
    <2> QED
      BY <2>2, <2>3
  <1>7. ASSUME NEW w \in Workers, ThreadExit(w) PROVE MailInOrder(v)'
    <2>1. /\ outbox[w] = <<>> /\ UNCHANGED <<outbox, pending>>
          /\ \A u \in Workers : u # w => thread'[u] = thread[u]
          /\ job' = [job EXCEPT ![w] = Null]
      BY <1>0, <1>7 DEF ThreadExit, poolVars, TypeOK
    <2>2. CASE v # w
      <3>1. job'[v] = job[v]
        BY <1>0, <2>1, <2>2 DEF TypeOK
      <3> QED
        BY <1>0, <2>1, <2>2, <3>1, MailKept
    <2>3. CASE v = w
      BY <1>0, <2>1, <2>3 DEF MailInOrder, TypeOK
    <2> QED
      BY <2>2, <2>3
  <1>8. ASSUME UNCHANGED <<job, outbox, pending>>,
               thread[v] \in Failed => thread'[v] \in Failed
        PROVE  MailInOrder(v)'
    BY <1>0, <1>8, MailKept
  <1>9. CASE UNCHANGED <<job, outbox, pending, thread>>
    BY <1>8, <1>9
  <1>10. ASSUME NEW i \in Indexes, NEW how \in NotStarted, CreateSlot(i, how)
         PROVE  thread[v] \in Failed => thread'[v] \in Failed
    <2>1. lastThread + 1 \in Workers /\ lastThread + 1 > lastThread
      BY <1>0, <1>10 DEF CreateSlot, TypeOK, Workers
    <2>2. thread[lastThread + 1] = "unused"
      BY <2>1 DEF PoolInv, ThreadsNumbered
    <2> QED
      BY <1>0, <1>10, <2>1, <2>2 DEF CreateSlot, TypeOK, Failed
  <1>11. ASSUME NEW w \in Workers, RestartTerminated(w) PROVE MailInOrder(v)'
    BY <1>0, <1>8, <1>10, <1>11 DEF RestartTerminated, poolVars, NotStarted, TypeOK
  <1>12. ASSUME NEW i \in Indexes, RetryTimer(i) PROVE MailInOrder(v)'
    BY <1>8, <1>10, <1>12 DEF RetryTimer, poolVars, NotStarted
  <1>13. ASSUME NEW w \in Workers, BootFailed(w) \/ RetryFailed(w) PROVE MailInOrder(v)'
    BY <1>0, <1>8, <1>13 DEF BootFailed, RetryFailed, poolVars, Failed, TypeOK
  <1>14. CASE Close
    BY <1>0, <1>8, <1>14 DEF Close, Terminate, Failed, TypeOK
  <1>15. \/ DispatchToSlot \/ Close \/ UNCHANGED <<job, outbox, pending, thread>>
         \/ \E w \in Workers :
               \/ ResponseDrain(w) \/ ResponseRestart(w) \/ HandleWorkerCrash(w)
               \/ Booted(w) \/ BootFailed(w) \/ RetryFailed(w) \/ RestartTerminated(w)
               \/ (\E b \in BOOLEAN : Answer(w, b)) \/ Crash(w) \/ ThreadExit(w)
         \/ \E i \in Indexes : RetryTimer(i)
    BY DEF Next, Dispatch, DispatchToQueue, DispatchOverloaded, Timeout, TimeoutQueued,
       TimeoutSent, KeepPending, OnWorkerEvent, BootSettled, CloseDone, threadVars,
       poolVars, vars
  <1> QED
    BY <1>1, <1>2, <1>3, <1>4, <1>5, <1>6, <1>7, <1>9, <1>11, <1>12, <1>13, <1>14, <1>15

(***************************************************************************)
(* A worker retires if and only if it let its request time out: the timer  *)
(* of a request that is settled is off, so that no timeout retires the     *)
(* worker of a request that was answered.                                  *)
(***************************************************************************)
TimersOpen == \A r \in Requests : timer[r] => outcome[r] = "none"

RetiresLate(w) == pending[w] # Null => (retiring[w] <=> outcome[pending[w]] = "timeout")

LateInv ==
    /\ TimersOpen
    /\ \A i \in Indexes, w \in Workers : slots[i] = w => RetiresLate(w)

\* A step that settles the request of worker w, which then has another one or none.
LEMMA LateSettled ==
    ASSUME PoolInv, LateInv, TypeOK', NEW w \in Workers, retiring' = retiring,
           \A i \in Indexes : slots'[i] \in {slots[i], w, Null},
           \A v \in Workers : v # w => pending'[v] = pending[v],
           pending'[w] # Null => ~retiring[w] /\ outcome'[pending'[w]] # "timeout",
           \A r \in Requests :
               IF r = pending[w] THEN ~timer'[r]
               ELSE outcome'[r] = outcome[r] /\ timer'[r] = timer[r]
    PROVE  LateInv'
  <1>1. TimersOpen'
    BY DEF LateInv, TimersOpen
  <1>2. ASSUME NEW i \in Indexes, NEW v \in Workers, slots'[i] = v PROVE RetiresLate(v)'
    <2>1. CASE v = w
      <3>1. pending'[w] # Null => pending'[w] \in Requests
        BY DEF TypeOK
      <3> QED
        BY <2>1, <3>1 DEF RetiresLate
    <2>2. CASE v # w
      <3>1. RetiresLate(v) /\ pending'[v] = pending[v]
        BY <1>2, <2>2 DEF LateInv, Null, Workers
      <3>2. pending[v] # Null => pending[v] \in Requests /\ pending[v] # pending[w]
        BY <2>2 DEF PoolInv, PendingOrdered, TypeOK
      <3> QED
        BY <3>1, <3>2 DEF RetiresLate
    <2> QED
      BY <2>1, <2>2
  <1> QED
    BY <1>1, <1>2 DEF LateInv

\* drainQueue() gives the worker a request that is open.
LEMMA DrainOpen ==
    ASSUME PoolInv, NEW w \in Workers, DrainQueue(w)
    PROVE  /\ \A v \in Workers : v # w => pending'[v] = pending[v]
           /\ pending'[w] # Null => /\ pending'[w] \in Requests
                                    /\ outcome[pending'[w]] = "none"
                                    /\ pending'[w] # pending[w]
  <1>1. CASE queue = <<>>
    BY <1>1 DEF DrainQueue, PoolInv, TypeOK
  <1>2. CASE queue # <<>>
    <2>1. 1 \in 1 .. Len(queue) /\ Head(queue) = queue[1]
      BY <1>2, PoolFacts
    <2>2. pending' = [pending EXCEPT ![w] = queue[1]]
      BY <1>2, <2>1 DEF DrainQueue, NextWaiting, SendToSlot
    <2> QED
      BY <2>1, <2>2, PoolFacts DEF PoolInv, QueueOrdered, TypeOK
  <1> QED
    BY <1>1, <1>2

\* Every step keeps the timers and the retiring workers in line with the outcomes.
LEMMA LateInvStep == PoolInv /\ LateInv /\ [Next]_vars => LateInv'
  <1> SUFFICES ASSUME PoolInv, LateInv, [Next]_vars PROVE LateInv'
    OBVIOUS
  <1>0. TypeOK /\ TypeOK' /\ Null \notin Requests
    BY TypeStep DEF PoolInv, Null, Requests
  <1>1. CASE DispatchToSlot
    <2>1. PICK i \in Indexes : Free(i) /\ SendToSlot(slots[i], nextId)
      BY <1>1 DEF DispatchToSlot, FirstFree
    <2>2. /\ slots[i] \in Workers /\ ~retiring[slots[i]] /\ nextId \in Requests
          /\ pending' = [pending EXCEPT ![slots[i]] = nextId]
          /\ timer' = [timer EXCEPT ![nextId] = TRUE]
          /\ UNCHANGED <<outcome, retiring, slots>>
      <3>1. slots[i] \in Workers /\ ~retiring[slots[i]] /\ nextId \in Requests
        BY <1>0, <1>1, <2>1 DEF DispatchToSlot, Free, TypeOK, Requests
      <3> QED
        BY <1>1, <2>1, <3>1 DEF DispatchToSlot, ArmTimer, SendToSlot
    <2>5. outcome[nextId] = "none"
      BY <2>2, PoolFacts DEF PoolInv, NewRequestsOpen
    <2>3. TimersOpen'
      BY <1>0, <2>2, <2>5 DEF LateInv, TimersOpen, TypeOK
    <2>4. ASSUME NEW j \in Indexes, NEW v \in Workers, slots[j] = v PROVE RetiresLate(v)'
      BY <1>0, <2>2, <2>4, <2>5 DEF LateInv, RetiresLate, TypeOK
    <2> QED
      BY <2>2, <2>3, <2>4 DEF LateInv
  <1>2. CASE DispatchToQueue
    <2>1. /\ nextId \in Requests /\ outcome[nextId] = "none"
          /\ timer' = [timer EXCEPT ![nextId] = TRUE]
          /\ UNCHANGED <<outcome, retiring, slots, pending>>
      BY <1>0, <1>2, PoolFacts
         DEF DispatchToQueue, ArmTimer, TypeOK, Requests, PoolInv, NewRequestsOpen
    <2> QED
      BY <1>0, <2>1 DEF LateInv, TimersOpen, RetiresLate, TypeOK
  <1>3. CASE DispatchOverloaded
    <2>1. /\ nextId \in Requests /\ ~timer[nextId]
          /\ outcome' = [outcome EXCEPT ![nextId] = "overloaded"]
          /\ UNCHANGED <<timer, retiring, slots, pending>>
      BY <1>0, <1>3, PoolFacts
         DEF DispatchOverloaded, TypeOK, Requests, PoolInv, NewRequestsOpen
    <2>2. TimersOpen'
      BY <1>0, <2>1 DEF LateInv, TimersOpen, TypeOK
    <2>3. ASSUME NEW i \in Indexes, NEW v \in Workers, slots[i] = v PROVE RetiresLate(v)'
      <3>1. pending[v] # nextId
        BY <1>0, <2>1, <2>3, PoolFacts DEF TypeOK
      <3> QED
        BY <1>0, <2>1, <2>3, <3>1 DEF LateInv, RetiresLate, TypeOK
    <2> QED
      BY <2>1, <2>2, <2>3 DEF LateInv
  <1>4. ASSUME NEW r \in Requests, TimeoutQueued(r) PROVE LateInv'
    <2>1. /\ timer' = [timer EXCEPT ![r] = FALSE]
          /\ \A q \in Requests : q # r => outcome'[q] = outcome[q]
          /\ UNCHANGED <<retiring, slots, pending>>
      BY <1>0, <1>4 DEF TimeoutQueued, Settle, TypeOK
    <2>2. \A w \in Workers : pending[w] # r
      BY <1>4, PoolFacts DEF TimeoutQueued
    <2>3. TimersOpen'
      BY <1>0, <2>1 DEF LateInv, TimersOpen, TypeOK
    <2>4. ASSUME NEW i \in Indexes, NEW v \in Workers, slots[i] = v PROVE RetiresLate(v)'
      <3>1. pending[v] # Null => outcome'[pending[v]] = outcome[pending[v]]
        BY <1>0, <2>1, <2>2 DEF TypeOK
      <3> QED
        BY <2>1, <2>4, <3>1 DEF LateInv, RetiresLate
    <2> QED
      BY <2>1, <2>3, <2>4 DEF LateInv
  <1>5. ASSUME NEW r \in Requests, TimeoutSent(r) PROVE LateInv'
    <2>1. /\ timer' = [timer EXCEPT ![r] = FALSE] /\ outcome[r] = "none"
          /\ outcome' = [outcome EXCEPT ![r] = "timeout"]
          /\ UNCHANGED <<slots, pending>>
      BY <1>0, <1>5 DEF TimeoutSent, TimerDue, KeepPending, Settle, LateInv, TimersOpen,
         TypeOK
    <2>2. TimersOpen'
      BY <1>0, <2>1 DEF LateInv, TimersOpen, TypeOK
    <2>3. ASSUME NEW i \in Indexes, NEW v \in Workers, slots[i] = v PROVE RetiresLate(v)'
      <3>1. RetiresLate(v)
        BY <2>3 DEF LateInv
      <3>2. retiring'[v] <=> retiring[v] \/ pending[v] = r
        BY <1>5, <2>3 DEF TimeoutSent, Retire
      <3> QED
        BY <1>0, <2>1, <3>1, <3>2 DEF RetiresLate, TypeOK
    <2> QED
      BY <2>1, <2>2, <2>3 DEF LateInv
  <1>6. ASSUME NEW w \in Workers, ResponseDrain(w) PROVE LateInv'
    <2>1. /\ DrainQueue(w) /\ Settle(pending[w], "answered") /\ ~retiring[w]
          /\ UNCHANGED <<retiring, slots>>
      BY <1>6 DEF ResponseDrain
    <2>2. \A r \in Requests :
             IF r = pending[w] THEN ~timer'[r]
             ELSE outcome'[r] = outcome[r] /\ timer'[r] = timer[r]
      BY <1>0, <2>1 DEF Settle, TypeOK
    <2> QED
      BY <1>0, <2>1, <2>2, DrainOpen, LateSettled
  <1>7. ASSUME NEW w \in Workers, ResponseRestart(w) \/ HandleWorkerCrash(w)
        PROVE  LateInv'
    <2>1. /\ RestartSlot(w) /\ pending' = [pending EXCEPT ![w] = Null]
          /\ Settle(pending[w], "answered") \/ RejectPending(w)
          /\ retiring' = retiring
      BY <1>7 DEF ResponseRestart, HandleWorkerCrash
    <2>2. \A r \in Requests :
             IF r = pending[w] THEN ~timer'[r]
             ELSE outcome'[r] = outcome[r] /\ timer'[r] = timer[r]
      <3>1. CASE Settle(pending[w], "answered") \/ Settle(pending[w], "crashed")
        BY <1>0, <3>1 DEF Settle, TypeOK
      <3>2. CASE pending[w] = Null /\ UNCHANGED <<timer, outcome>>
        BY <1>0, <3>2
      <3> QED
        BY <2>1, <3>1, <3>2 DEF RejectPending, callVars
    <2>3. \A i \in Indexes : slots'[i] \in {slots[i], Null}
      BY <1>0, <2>1 DEF RestartSlot, TypeOK
    <2>4. pending'[w] = Null /\ \A v \in Workers : v # w => pending'[v] = pending[v]
      BY <1>0, <2>1 DEF TypeOK
    <2> QED
      BY <1>0, <2>1, <2>2, <2>3, <2>4, LateSettled
  <1>8. ASSUME NEW w \in Workers, Booted(w) PROVE LateInv'
    <2>1. /\ DrainQueue(w) /\ slots' = [slots EXCEPT ![home[w]] = w]
          /\ thread[w] \in NotStarted
          /\ UNCHANGED <<retiring, outcome, timer>>
      BY <1>8 DEF Booted, callVars, NotStarted
    <2>2. ~retiring[w] /\ pending[w] = Null
      BY <2>1 DEF PoolInv, NewWorkersIdle
    <2>3. \A i \in Indexes : slots'[i] \in {slots[i], w}
      BY <1>0, <2>1 DEF TypeOK
    <2> QED
      BY <1>0, <2>1, <2>2, <2>3, DrainOpen, LateSettled
  <1>9. CASE Close
    <2>1. /\ UNCHANGED <<slots, pending, retiring>>
          /\ \A r \in Requests : outcome'[r] = IF Queued(r) THEN "shutdown" ELSE outcome[r]
          /\ \A r \in Requests : timer'[r] = (timer[r] /\ ~Queued(r))
      BY <1>9 DEF Close, Queued
    <2>2. \A w \in Workers : ~Queued(pending[w])
      BY PoolFacts DEF Queued
    <2>3. TimersOpen'
      BY <2>1 DEF LateInv, TimersOpen
    <2>4. ASSUME NEW i \in Indexes, NEW v \in Workers, slots[i] = v PROVE RetiresLate(v)'
      <3>1. pending[v] # Null => outcome'[pending[v]] = outcome[pending[v]]
        BY <1>0, <2>1, <2>2 DEF TypeOK
      <3> QED
        BY <2>1, <2>4, <3>1 DEF LateInv, RetiresLate
    <2> QED
      BY <2>1, <2>3, <2>4 DEF LateInv
  <1>10. ASSUME UNCHANGED <<pending, retiring, outcome, timer>>,
                \A i \in Indexes : slots'[i] = slots[i] \/ slots'[i] = Null
         PROVE  LateInv'
    <2>1. TimersOpen'
      BY <1>10 DEF LateInv, TimersOpen
    <2>2. \A i \in Indexes, w \in Workers : slots'[i] = w => slots[i] = w
      BY <1>10 DEF Null, Workers
    <2> QED
      BY <1>10, <2>1, <2>2 DEF LateInv, RetiresLate
  <1>11. ASSUME NEW w \in Workers, BootFailed(w) PROVE LateInv'
    BY <1>0, <1>10, <1>11 DEF BootFailed, callVars, TypeOK
  <1>12. CASE CloseDone
    BY <1>10, <1>12 DEF CloseDone, callVars
  <1>13. CASE UNCHANGED <<pending, retiring, outcome, timer, slots>>
    BY <1>10, <1>13
  <1>14. \/ DispatchToSlot \/ DispatchToQueue \/ DispatchOverloaded \/ Close \/ CloseDone
         \/ UNCHANGED <<pending, retiring, outcome, timer, slots>>
         \/ \E r \in Requests : TimeoutQueued(r) \/ TimeoutSent(r)
         \/ \E w \in Workers :
               \/ ResponseDrain(w) \/ ResponseRestart(w) \/ HandleWorkerCrash(w)
               \/ Booted(w) \/ BootFailed(w)
    BY DEF Next, Dispatch, Timeout, OnWorkerEvent, BootSettled, RetryFailed,
       RestartTerminated, Answer, Crash, ThreadExit, RetryTimer, poolVars, callVars, vars
  <1> QED
    BY <1>1, <1>2, <1>3, <1>4, <1>5, <1>6, <1>7, <1>8, <1>9, <1>11, <1>12, <1>13, <1>14

\* An answer is never dropped: the one on its way is of the request its worker is
\* given for.  And a worker is retiring if and only if its request has timed out, so
\* that it is given no other one.
THEOREM PoolAnswersReach == Spec => []AnswersReachRequests
  <1> DEFINE Inv == PoolInv /\ MailInv /\ LateInv
  <1>1. Init => Inv
    <2> SUFFICES ASSUME Init PROVE MailInv /\ LateInv
      BY PoolInvInit
    <2>1. MailInv
      BY DEF Init, MailInv, MailInOrder
    <2>2. LateInv
      BY DEF Init, LateInv, TimersOpen, RetiresLate, Indexes, Workers
    <2> QED
      BY <2>1, <2>2
  <1>2. Inv /\ [Next]_vars => Inv'
    BY PoolInvStep, MailInvStep, LateInvStep
  <1>3. Inv => AnswersReachRequests
    <2>1. MailInv => AnswersMatch
      BY DEF MailInv, MailInOrder, AnswersMatch
    <2>2. PoolInv /\ LateInv => LateWorkersRetire
      BY DEF PoolInv, TypeOK, LateInv, RetiresLate, LateWorkersRetire
    <2> QED
      BY <2>1, <2>2 DEF AnswersReachRequests
  <1> QED
    BY <1>1, <1>2, <1>3, PTL DEF Spec

-----------------------------------------------------------------------------
(***************************************************************************)
(* The pool keeps its capacity: what an index has lost is being replaced.  *)
(* A thread that was never started has no restart under way, so that       *)
(* giving it an index adds to that index the new thread alone.             *)
(***************************************************************************)
Staffed == {"booting", "rebooting", "alive", "crashed"}

CapacityInv ==
    ~closed =>
        /\ \A w \in Workers : thread[w] = "unused" => restarts[w] = 0
        /\ \A i \in Indexes : IsFiniteSet(RestartCalls(i))
        /\ CapacityConserved

LEMMA RestartCallsAre ==
    ASSUME NEW i \in Indexes
    PROVE  \A c : c \in RestartCalls(i) <=>
              \E w \in Workers : home[w] = i /\ \E n \in 1 .. restarts[w] : c = <<w, n>>
  BY DEF RestartCalls

\* What becomes of the calls for index i when the number of worker w changes.
LEMMA RestartCallsChange ==
    ASSUME TypeOK, TypeOK', NEW i \in Indexes, NEW w \in Workers,
           \A v \in Workers : v # w => restarts'[v] = restarts[v],
           \A v \in Workers : home'[v] = home[v] \/ (restarts[v] = 0 /\ restarts'[v] = 0)
    PROVE  /\ restarts'[w] = restarts[w] => RestartCalls(i)' = RestartCalls(i)
           /\ home[w] # i /\ home'[w] = home[w] => RestartCalls(i)' = RestartCalls(i)
           /\ restarts'[w] = restarts[w] + 1 /\ home[w] = i =>
                 /\ RestartCalls(i)' = RestartCalls(i) \cup {<<w, restarts[w] + 1>>}
                 /\ <<w, restarts[w] + 1>> \notin RestartCalls(i)
           /\ restarts'[w] = restarts[w] - 1 /\ home[w] = i =>
                 /\ RestartCalls(i)' = RestartCalls(i) \ {<<w, restarts[w]>>}
                 /\ <<w, restarts[w]>> \in RestartCalls(i)
  <1>1. /\ \A v \in Workers : restarts[v] \in Nat /\ restarts'[v] \in Nat
        /\ home[w] \in Indexes
    BY DEF TypeOK
  <1>2. \A c : c \in RestartCalls(i) <=>
           \E v \in Workers : home[v] = i /\ \E n \in 1 .. restarts[v] : c = <<v, n>>
    BY RestartCallsAre
  <1>3. \A c : c \in RestartCalls(i)' <=>
           \E v \in Workers : home'[v] = i /\ \E n \in 1 .. restarts'[v] : c = <<v, n>>
    BY DEF RestartCalls
  <1>4. \A v \in Workers : \A n \in 1 .. restarts[v] : home'[v] = home[v]
    BY <1>1
  <1>5. \A v \in Workers : \A n \in 1 .. restarts'[v] : home'[v] = home[v]
    BY <1>1
  <1>6. ASSUME restarts'[w] = restarts[w] PROVE RestartCalls(i)' = RestartCalls(i)
    <2>1. \A v \in Workers : restarts'[v] = restarts[v]
      BY <1>6
    <2> QED
      BY <1>2, <1>3, <1>4, <1>5, <2>1
  <1>7. ASSUME home[w] # i, home'[w] = home[w] PROVE RestartCalls(i)' = RestartCalls(i)
    BY <1>2, <1>3, <1>4, <1>5, <1>7
  <1>8. ASSUME restarts'[w] = restarts[w] + 1, home[w] = i
        PROVE  /\ RestartCalls(i)' = RestartCalls(i) \cup {<<w, restarts[w] + 1>>}
               /\ <<w, restarts[w] + 1>> \notin RestartCalls(i)
    <2>1. \A n : n \in 1 .. restarts'[w] <=>
             n \in 1 .. restarts[w] \/ n = restarts[w] + 1
      BY <1>1, <1>8
    <2>2. home'[w] = i
      BY <1>1, <1>8, <2>1
    <2>3. restarts[w] + 1 \notin 1 .. restarts[w]
      BY <1>1
    <2> QED
      BY <1>2, <1>3, <1>4, <1>5, <1>8, <2>1, <2>2, <2>3
  <1>9. ASSUME restarts'[w] = restarts[w] - 1, home[w] = i
        PROVE  /\ RestartCalls(i)' = RestartCalls(i) \ {<<w, restarts[w]>>}
               /\ <<w, restarts[w]>> \in RestartCalls(i)
    <2>1. \A n : n \in 1 .. restarts'[w] <=>
             n \in 1 .. restarts[w] /\ n # restarts[w]
      BY <1>1, <1>9
    <2>2. restarts[w] \in 1 .. restarts[w]
      BY <1>1, <1>9
    <2> QED
      BY <1>2, <1>3, <1>4, <1>5, <1>9, <2>1, <2>2
  <1> QED
    BY <1>6, <1>7, <1>8, <1>9

\* How many calls that are, when the calls of worker w, of index i or not, change.
LEMMA RestartsCounted ==
    ASSUME TypeOK, TypeOK', NEW i \in Indexes, NEW w \in Workers,
           IsFiniteSet(RestartCalls(i)),
           \A v \in Workers : v # w => restarts'[v] = restarts[v],
           \A v \in Workers : home'[v] = home[v] \/ (restarts[v] = 0 /\ restarts'[v] = 0)
    PROVE  LET before == Cardinality(RestartCalls(i))
               after == Cardinality(RestartCalls(i)')
           IN  /\ before \in Nat
               /\ restarts'[w] = restarts[w] \/ (home[w] # i /\ home'[w] = home[w])
                     => IsFiniteSet(RestartCalls(i)') /\ after = before
               /\ restarts'[w] = restarts[w] + 1 /\ home[w] = i
                     => IsFiniteSet(RestartCalls(i)') /\ after = before + 1
               /\ restarts'[w] = restarts[w] - 1 /\ home[w] = i
                     => IsFiniteSet(RestartCalls(i)') /\ after = before - 1
  <1>1. Cardinality(RestartCalls(i)) \in Nat
    BY FS_CardinalityType
  <1>0. restarts[w] \in Nat
    BY DEF TypeOK
  <1>2. CASE restarts'[w] = restarts[w] \/ (home[w] # i /\ home'[w] = home[w])
    <2>1. RestartCalls(i)' = RestartCalls(i)
      BY <1>2, RestartCallsChange
    <2>2. home[w] = i => restarts'[w] # restarts[w] + 1 /\ restarts'[w] # restarts[w] - 1
      BY <1>0, <1>2
    <2> QED
      BY <1>1, <2>1, <2>2
  <1>3. CASE restarts'[w] = restarts[w] + 1 /\ home[w] = i
    <2> DEFINE c == <<w, restarts[w] + 1>>
    <2>1. RestartCalls(i)' = RestartCalls(i) \cup {c} /\ c \notin RestartCalls(i)
      BY <1>3, RestartCallsChange
    <2>2. restarts'[w] # restarts[w] /\ restarts'[w] # restarts[w] - 1
      BY <1>0, <1>3
    <2> HIDE DEF c
    <2>3. /\ IsFiniteSet(RestartCalls(i) \cup {c})
          /\ Cardinality(RestartCalls(i) \cup {c}) = Cardinality(RestartCalls(i)) + 1
      BY <2>1, FS_AddElement
    <2> QED
      BY <1>1, <1>3, <2>1, <2>2, <2>3
  <1>4. CASE restarts'[w] = restarts[w] - 1 /\ home[w] = i
    <2> DEFINE c == <<w, restarts[w]>>
    <2>1. RestartCalls(i)' = RestartCalls(i) \ {c} /\ c \in RestartCalls(i)
      BY <1>4, RestartCallsChange
    <2>2. restarts'[w] # restarts[w] /\ restarts'[w] # restarts[w] + 1
      BY <1>0, <1>4
    <2> HIDE DEF c
    <2>3. /\ IsFiniteSet(RestartCalls(i) \ {c})
          /\ Cardinality(RestartCalls(i) \ {c}) = Cardinality(RestartCalls(i)) - 1
      BY <2>1, FS_RemoveElement
    <2> QED
      BY <1>1, <1>4, <2>1, <2>2, <2>3
  <1>5. CASE ~(restarts'[w] = restarts[w] \/ (home[w] # i /\ home'[w] = home[w]))
             /\ ~(restarts'[w] = restarts[w] + 1 /\ home[w] = i)
             /\ ~(restarts'[w] = restarts[w] - 1 /\ home[w] = i)
    BY <1>1, <1>5
  <1> QED
    BY <1>2, <1>3, <1>4, <1>5

\* How many workers an index has, when worker w alone comes or goes.
LEMMA StaffCounted ==
    ASSUME NEW i \in Indexes, NEW w \in Workers,
           \A v \in Workers : v # w =>
               home'[v] = home[v] /\ (thread'[v] \in Staffed <=> thread[v] \in Staffed)
    PROVE  LET before == Cardinality(Staffing(i))
               after == Cardinality(Staffing(i)')
               was == home[w] = i /\ thread[w] \in Staffed
               is == home'[w] = i /\ thread'[w] \in Staffed
           IN  /\ before \in Nat
               /\ (was <=> is) => after = before
               /\ ~was /\ is => after = before + 1
               /\ was /\ ~is => after = before - 1
  <1>1. IsFiniteSet(Staffing(i))
    <2>1. IsFiniteSet(Workers)
      BY FS_Interval DEF Workers
    <2> QED
      BY <2>1, FS_Subset DEF Staffing
  <1>2. Cardinality(Staffing(i)) \in Nat
    BY <1>1, FS_CardinalityType
  <1>3. /\ \A v : v \in Staffing(i) <=> v \in Workers /\ home[v] = i /\ thread[v] \in Staffed
        /\ \A v : v \in Staffing(i)' <=>
              v \in Workers /\ home'[v] = i /\ thread'[v] \in Staffed
    BY DEF Staffing, Staffed
  <1>4. CASE w \in Staffing(i) <=> w \in Staffing(i)'
    <2>1. Staffing(i)' = Staffing(i)
      BY <1>3, <1>4
    <2> QED
      BY <1>2, <1>3, <1>4, <2>1
  <1>5. CASE w \notin Staffing(i) /\ w \in Staffing(i)'
    <2>1. Staffing(i)' = Staffing(i) \cup {w}
      BY <1>3, <1>5
    <2>2. Cardinality(Staffing(i) \cup {w}) = Cardinality(Staffing(i)) + 1
      BY <1>1, <1>5, FS_AddElement
    <2> QED
      BY <1>2, <1>3, <1>5, <2>1, <2>2
  <1>6. CASE w \in Staffing(i) /\ w \notin Staffing(i)'
    <2>1. Staffing(i)' = Staffing(i) \ {w}
      BY <1>3, <1>6
    <2>2. Cardinality(Staffing(i) \ {w}) = Cardinality(Staffing(i)) - 1
      BY <1>1, <1>6, FS_RemoveElement
    <2> QED
      BY <1>2, <1>3, <1>6, <2>1, <2>2
  <1> QED
    BY <1>4, <1>5, <1>6

\* The count of index i, over a step that leaves the pool open.
Staff(i) == Cardinality(Staffing(i)) + Cardinality(RestartCalls(i)) + backoff[i] + lost[i]

\* A step that restarts nothing and neither starts nor loses a worker.
LEMMA CapacityQuiet ==
    ASSUME TypeOK, TypeOK', CapacityInv, ~closed, ~closed',
           UNCHANGED <<home, restarts, backoff, lost, extra>>,
           \A w \in Workers : thread'[w] \in Staffed <=> thread[w] \in Staffed,
           \A w \in Workers : thread'[w] = "unused" => thread[w] = "unused"
    PROVE  CapacityInv'
  <1>1. ASSUME NEW i \in Indexes
        PROVE  RestartCalls(i)' = RestartCalls(i) /\ Staffing(i)' = Staffing(i)
    BY DEF RestartCalls, Staffing, Staffed
  <1> QED
    BY <1>1 DEF CapacityInv, CapacityConserved

\* A step that restarts worker w.
LEMMA CapacityRestart ==
    ASSUME TypeOK, TypeOK', CapacityInv, ~closed, ~closed', NEW w \in Workers,
           thread[w] # "unused", RestartSlot(w), UNCHANGED <<home, backoff, lost>>
    PROVE  CapacityInv'
  <1>1. /\ \A v \in Workers : restarts'[v] = IF v = w THEN restarts[w] + 1 ELSE restarts[v]
        /\ \A v \in Workers : thread'[v] = IF v = w THEN Terminate(thread[w]) ELSE thread[v]
        /\ \A i \in Indexes : extra'[i] =
              IF i # home[w] \/ thread[w] \in {"alive", "crashed"} THEN extra[i]
              ELSE extra[i] + 1
        /\ home[w] \in Indexes
    BY DEF RestartSlot, TypeOK
  <1>2. /\ thread'[w] \in Staffed <=> thread[w] \in Staffed \ {"alive", "crashed"}
        /\ thread'[w] # "unused"
    BY <1>1 DEF Terminate, Staffed, TypeOK, ThreadStates
  <1>3. ASSUME NEW i \in Indexes
        PROVE  IsFiniteSet(RestartCalls(i)') /\ Staff(i)' = 1 + extra'[i]
    <2>1. /\ Staff(i) = 1 + extra[i] /\ IsFiniteSet(RestartCalls(i))
          /\ backoff[i] \in Nat /\ lost[i] \in Nat /\ extra[i] \in Nat
      BY DEF CapacityInv, CapacityConserved, Staff, TypeOK
    <2>2. /\ Cardinality(RestartCalls(i)) \in Nat /\ IsFiniteSet(RestartCalls(i)')
          /\ Cardinality(RestartCalls(i)') =
                Cardinality(RestartCalls(i)) + IF i = home[w] THEN 1 ELSE 0
      BY <1>1, <2>1, RestartsCounted
    <2>3. /\ Cardinality(Staffing(i)) \in Nat
          /\ Cardinality(Staffing(i)') = Cardinality(Staffing(i)) -
                IF i = home[w] /\ thread[w] \in {"alive", "crashed"} THEN 1 ELSE 0
      BY <1>1, <1>2, StaffCounted DEF Staffed
    <2> QED
      BY <1>1, <2>1, <2>2, <2>3 DEF Staff
  <1>4. \A v \in Workers : thread'[v] = "unused" => restarts'[v] = 0
    BY <1>1, <1>2 DEF CapacityInv
  <1> QED
    BY <1>3, <1>4 DEF CapacityInv, CapacityConserved, Staff

\* A step that starts a replacement: a restart goes on, or the pause before a retry
\* is over.
LEMMA CapacityCreate ==
    ASSUME PoolInv, TypeOK', CapacityInv, ~closed, ~closed', NEW j \in Indexes,
           NEW how \in {"booting", "rebooting"}, CreateSlot(j, how),
           UNCHANGED <<lost, extra>>,
           \/ /\ backoff' = backoff
              /\ \E w \in Workers : /\ thread[w] = "dead" /\ home[w] = j
                                    /\ restarts' = [restarts EXCEPT ![w] = @ - 1]
           \/ restarts' = restarts /\ backoff' = [backoff EXCEPT ![j] = @ - 1]
    PROVE  CapacityInv'
  <1> DEFINE n == lastThread + 1
  <1>1. /\ n \in Workers /\ thread[n] = "unused" /\ thread'[n] = how /\ home'[n] = j
        /\ \A v \in Workers : v # n => thread'[v] = thread[v] /\ home'[v] = home[v]
        /\ restarts[n] = 0
    BY DEF CreateSlot, PoolInv, TypeOK, ThreadsNumbered, Workers, CapacityInv
  <1> HIDE DEF n
  <1>2. TypeOK /\ how \in Staffed /\ "unused" \notin Staffed
    BY DEF PoolInv, Staffed
  <1>3. PICK w \in Workers :
           \/ /\ backoff' = backoff /\ w # n /\ home[w] = j /\ home'[w] = home[w]
              /\ restarts' = [restarts EXCEPT ![w] = @ - 1]
           \/ /\ restarts' = restarts /\ w = n
              /\ backoff' = [backoff EXCEPT ![j] = @ - 1]
    BY <1>1
  <1>4. /\ \A v \in Workers : v # w => restarts'[v] = restarts[v]
        /\ \A v \in Workers : home'[v] = home[v] \/ (restarts[v] = 0 /\ restarts'[v] = 0)
        /\ restarts'[n] = 0
    <2>1. CASE restarts' = restarts
      BY <1>1, <2>1
    <2>2. CASE w # n /\ restarts' = [restarts EXCEPT ![w] = @ - 1]
      <3>1. \A v \in Workers : v # w => restarts'[v] = restarts[v]
        BY <1>2, <2>2 DEF TypeOK
      <3> QED
        BY <1>1, <2>2, <3>1
    <2> QED
      BY <1>3, <2>1, <2>2
  <1>5. ASSUME NEW i \in Indexes
        PROVE  IsFiniteSet(RestartCalls(i)') /\ Staff(i)' = 1 + extra'[i]
    <2>1. /\ Staff(i) = 1 + extra[i] /\ IsFiniteSet(RestartCalls(i))
          /\ backoff[i] \in Nat /\ lost[i] \in Nat /\ extra[i] \in Nat
      BY <1>2 DEF CapacityInv, CapacityConserved, Staff, TypeOK
    <2>2. /\ Cardinality(Staffing(i)) \in Nat
          /\ Cardinality(Staffing(i)') = Cardinality(Staffing(i)) + IF i = j THEN 1 ELSE 0
      BY <1>1, <1>2, StaffCounted
    <2>3. CASE restarts' = restarts /\ backoff' = [backoff EXCEPT ![j] = @ - 1]
      <3>0. restarts'[w] = restarts[w]
        BY <2>3
      <3>1. /\ Cardinality(RestartCalls(i)) \in Nat /\ IsFiniteSet(RestartCalls(i)')
            /\ Cardinality(RestartCalls(i)') = Cardinality(RestartCalls(i))
        BY <1>2, <1>4, <2>1, <3>0, RestartsCounted
      <3>2. backoff'[i] = IF i = j THEN backoff[i] - 1 ELSE backoff[i]
        BY <1>2, <2>3 DEF TypeOK
      <3> QED
        BY <2>1, <2>2, <3>1, <3>2 DEF Staff
    <2>4. CASE /\ backoff' = backoff /\ home[w] = j /\ home'[w] = home[w]
               /\ restarts' = [restarts EXCEPT ![w] = @ - 1]
      <3>1. restarts'[w] = restarts[w] - 1
        BY <1>2, <2>4 DEF TypeOK
      <3>2. /\ Cardinality(RestartCalls(i)) \in Nat /\ IsFiniteSet(RestartCalls(i)')
            /\ Cardinality(RestartCalls(i)') =
                  Cardinality(RestartCalls(i)) - IF i = j THEN 1 ELSE 0
        BY <1>2, <1>4, <2>1, <2>4, <3>1, RestartsCounted
      <3> QED
        BY <2>1, <2>2, <2>4, <3>2 DEF Staff
    <2> QED
      BY <1>3, <2>3, <2>4
  <1>6. \A v \in Workers : thread'[v] = "unused" => restarts'[v] = 0
    <2>1. ASSUME NEW v \in Workers, v # n, thread'[v] = "unused" PROVE restarts'[v] = 0
      <3>1. thread[v] = "unused" /\ restarts[v] = 0 /\ restarts'[v] \in Nat
        BY <1>1, <2>1 DEF CapacityInv, TypeOK
      <3> QED
        BY <1>2, <1>3, <1>4, <3>1 DEF TypeOK
    <2> QED
      BY <1>4, <2>1
  <1> QED
    BY <1>5, <1>6 DEF CapacityInv, CapacityConserved, Staff

\* A step in which a thread fails to boot: the index pauses, or has lost its worker.
LEMMA CapacityBootFails ==
    ASSUME TypeOK, TypeOK', CapacityInv, ~closed, ~closed', NEW w \in Workers,
           thread[w] \in {"booting", "rebooting"}, thread' = [thread EXCEPT ![w] = "dead"],
           UNCHANGED <<home, restarts, extra>>,
           \/ lost' = lost /\ backoff' = [backoff EXCEPT ![home[w]] = @ + 1]
           \/ backoff' = backoff /\ lost' = [lost EXCEPT ![home[w]] = @ + 1]
    PROVE  CapacityInv'
  <1>1. /\ thread'[w] = "dead" /\ home[w] \in Indexes
        /\ \A v \in Workers : v # w => thread'[v] = thread[v]
    BY DEF TypeOK
  <1>2. ASSUME NEW i \in Indexes
        PROVE  RestartCalls(i)' = RestartCalls(i) /\ Staff(i)' = 1 + extra'[i]
    <2>1. /\ Staff(i) = 1 + extra[i] /\ IsFiniteSet(RestartCalls(i))
          /\ backoff[i] \in Nat /\ lost[i] \in Nat /\ extra[i] \in Nat
      BY DEF CapacityInv, CapacityConserved, Staff, TypeOK
    <2>2. /\ Cardinality(Staffing(i)) \in Nat
          /\ Cardinality(Staffing(i)') =
                Cardinality(Staffing(i)) - IF i = home[w] THEN 1 ELSE 0
      BY <1>1, StaffCounted DEF Staffed
    <2>3. RestartCalls(i)' = RestartCalls(i) /\ Cardinality(RestartCalls(i)) \in Nat
      BY <2>1, FS_CardinalityType DEF RestartCalls
    <2>4. backoff'[i] + lost'[i] = backoff[i] + lost[i] + IF i = home[w] THEN 1 ELSE 0
      <3>1. CASE lost' = lost /\ backoff' = [backoff EXCEPT ![home[w]] = @ + 1]
        <4>1. backoff'[i] = IF i = home[w] THEN backoff[i] + 1 ELSE backoff[i]
          BY <3>1 DEF TypeOK
        <4> QED
          BY <2>1, <3>1, <4>1
      <3>2. CASE backoff' = backoff /\ lost' = [lost EXCEPT ![home[w]] = @ + 1]
        <4>1. lost'[i] = IF i = home[w] THEN lost[i] + 1 ELSE lost[i]
          BY <3>2 DEF TypeOK
        <4> QED
          BY <2>1, <3>2, <4>1
      <3> QED
        BY <3>1, <3>2
    <2>5. backoff'[i] \in Nat /\ lost'[i] \in Nat
      BY DEF TypeOK
    <2> QED
      BY <2>1, <2>2, <2>3, <2>4, <2>5 DEF Staff
  <1>3. \A v \in Workers : thread'[v] = "unused" => restarts'[v] = 0
    BY <1>1 DEF CapacityInv
  <1> QED
    BY <1>2, <1>3 DEF CapacityInv, CapacityConserved, Staff

\* A worker with mail to handle is one that was started.
LEMMA MailOfStarted ==
    ASSUME PoolInv, MailInv, NEW w \in Workers, outbox[w] # <<>>
    PROVE  thread[w] # "unused"
  BY NoMail DEF PoolInv, NewWorkersIdle, NotStarted, MailInv, Failed

LEMMA CapacityStep == PoolInv /\ MailInv /\ CapacityInv /\ [Next]_vars => CapacityInv'
  <1> SUFFICES ASSUME PoolInv, MailInv, CapacityInv, [Next]_vars, ~closed'
               PROVE  CapacityInv'
    BY DEF CapacityInv
  <1>0. TypeOK /\ TypeOK'
    BY TypeStep DEF PoolInv
  <1>1. closed' \/ ~closed
    BY DEF Next, Dispatch, DispatchToSlot, DispatchToQueue, DispatchOverloaded, Timeout,
       TimeoutQueued, TimeoutSent, OnWorkerEvent, ResponseDrain, ResponseRestart,
       HandleWorkerCrash, RestartTerminated, BootSettled, Booted, BootFailed, RetryFailed,
       Answer, Crash, ThreadExit, RetryTimer, Close, CloseDone, poolVars, vars
  <1>2. ASSUME NEW w \in Workers, ResponseRestart(w) \/ HandleWorkerCrash(w)
        PROVE  CapacityInv'
    <2>1. RestartSlot(w) /\ UNCHANGED <<home, backoff, lost>> /\ outbox[w] # <<>>
      BY <1>2 DEF ResponseRestart, HandleWorkerCrash, HasResponse
    <2> QED
      BY <1>0, <1>1, <2>1, MailOfStarted, CapacityRestart
  <1>3. ASSUME NEW w \in Workers, RestartTerminated(w) PROVE CapacityInv'
    <2>1. /\ CreateSlot(home[w], "booting") /\ home[w] \in Indexes
          /\ thread[w] = "dead" /\ restarts' = [restarts EXCEPT ![w] = @ - 1]
          /\ UNCHANGED <<backoff, lost, extra>>
      BY <1>0, <1>1, <1>3 DEF RestartTerminated, TypeOK
    <2> QED
      BY <1>0, <1>1, <2>1, CapacityCreate
  <1>4. ASSUME NEW i \in Indexes, RetryTimer(i) PROVE CapacityInv'
    <2>1. /\ CreateSlot(i, "rebooting") /\ backoff' = [backoff EXCEPT ![i] = @ - 1]
          /\ UNCHANGED <<restarts, lost, extra>>
      BY <1>1, <1>4 DEF RetryTimer
    <2> QED
      BY <1>0, <1>1, <2>1, CapacityCreate
  <1>5. ASSUME NEW w \in Workers, BootFailed(w) PROVE CapacityInv'
    <2>1. /\ thread[w] = "booting" /\ thread' = [thread EXCEPT ![w] = "dead"]
          /\ UNCHANGED <<home, restarts, extra, lost>>
          /\ backoff' = [backoff EXCEPT ![home[w]] = IF closed THEN @ ELSE @ + 1]
      BY <1>5 DEF BootFailed, ArmRetry
    <2>2. backoff' = [backoff EXCEPT ![home[w]] = @ + 1]
      BY <1>1, <2>1
    <2> QED
      BY <1>0, <1>1, <2>1, <2>2, CapacityBootFails
  <1>6. ASSUME NEW w \in Workers, RetryFailed(w) PROVE CapacityInv'
    <2>1. /\ thread[w] = "rebooting" /\ thread' = [thread EXCEPT ![w] = "dead"]
          /\ UNCHANGED <<home, restarts, extra, backoff>>
          /\ lost' = [lost EXCEPT ![home[w]] = @ + 1]
      BY <1>6 DEF RetryFailed
    <2> QED
      BY <1>0, <1>1, <2>1, CapacityBootFails
  <1>7. ASSUME UNCHANGED <<home, chainVars>>, NEW w \in Workers,
               thread'[w] \in Staffed <=> thread[w] \in Staffed,
               thread'[w] = "unused" => thread[w] = "unused",
               \A v \in Workers : v # w => thread'[v] = thread[v]
        PROVE  CapacityInv'
    BY <1>0, <1>1, <1>7, CapacityQuiet DEF chainVars
  <1>8. ASSUME NEW w \in Workers, Booted(w) \/ Crash(w) \/ ThreadExit(w)
        PROVE  CapacityInv'
    <2>1. /\ UNCHANGED <<home, chainVars>>
          /\ \A v \in Workers : v # w => thread'[v] = thread[v]
          /\ \/ thread[w] \in Staffed /\ thread'[w] \in {"alive", "crashed"}
             \/ thread[w] \in {"terminating", "dying"} /\ thread'[w] \in {"dying", "dead"}
      <3>1. UNCHANGED <<home, chainVars>>
        BY <1>8 DEF Booted, Crash, ThreadExit
      <3>2. CASE Booted(w)
        BY <1>0, <3>1, <3>2 DEF Booted, Staffed, TypeOK
      <3>3. CASE Crash(w)
        BY <1>0, <3>1, <3>3 DEF Crash, Running, Staffed, TypeOK
      <3>4. CASE ThreadExit(w)
        BY <1>0, <3>1, <3>4 DEF ThreadExit, TypeOK
      <3> QED
        BY <1>8, <3>2, <3>3, <3>4
    <2> QED
      BY <1>7, <2>1 DEF Staffed
  <1>9. CASE UNCHANGED <<home, chainVars, thread>>
    BY <1>0, <1>1, <1>9, CapacityQuiet DEF chainVars
  <1>10. \/ UNCHANGED <<home, chainVars, thread>>
         \/ \E w \in Workers :
               \/ ResponseRestart(w) \/ HandleWorkerCrash(w) \/ RestartTerminated(w)
               \/ Booted(w) \/ BootFailed(w) \/ RetryFailed(w) \/ Crash(w) \/ ThreadExit(w)
         \/ \E i \in Indexes : RetryTimer(i)
    BY DEF Next, Dispatch, DispatchToSlot, DispatchToQueue, DispatchOverloaded, Timeout,
       TimeoutQueued, TimeoutSent, OnWorkerEvent, ResponseDrain, BootSettled, Answer,
       Close, CloseDone, threadVars, chainVars, vars
  <1> QED
    BY <1>2, <1>3, <1>4, <1>5, <1>6, <1>8, <1>9, <1>10

LEMMA CapacityInit == Init => CapacityInv
  <1> SUFFICES ASSUME Init PROVE CapacityInv
    OBVIOUS
  <1>1. ASSUME NEW i \in Indexes
        PROVE  /\ RestartCalls(i) = {} /\ Staffing(i) = {i + 1}
               /\ lost[i] = 0 /\ backoff[i] = 0 /\ extra[i] = 0
    <2>1. RestartCalls(i) = {}
      BY RestartCallsAre DEF Init
    <2>2. \A w \in Workers :
             home[w] = i /\ thread[w] \in {"booting", "rebooting", "alive", "crashed"}
                <=> w = i + 1
      BY DEF Init, Indexes, Workers
    <2>3. i + 1 \in Workers
      BY DEF Indexes, Workers
    <2> QED
      BY <2>1, <2>2, <2>3 DEF Init, Staffing
  <1>2. /\ IsFiniteSet({}) /\ Cardinality({}) = 0
        /\ \A i \in Indexes : Cardinality({i + 1}) = 1
    BY FS_EmptySet, FS_Singleton
  <1>3. \A w \in Workers : restarts[w] = 0
    BY DEF Init
  <1>4. ASSUME NEW i \in Indexes
        PROVE  /\ Cardinality(Staffing(i)) = 1 /\ Cardinality(RestartCalls(i)) = 0
               /\ IsFiniteSet(RestartCalls(i))
    BY <1>1, <1>2
  <1>5. CapacityConserved
    BY <1>1, <1>4 DEF CapacityConserved
  <1> QED
    BY <1>3, <1>4, <1>5 DEF CapacityInv

\* While the pool is open, each index has one worker, or one replacement of it under
\* way, or has lost it to a failed retry; a restart of what is being restarted adds
\* one more.
THEOREM PoolCapacity == Spec => []CapacityConserved
  <1> DEFINE Inv == PoolInv /\ MailInv /\ CapacityInv
  <1>1. Init => Inv
    <2>1. Init => MailInv
      BY DEF Init, MailInv, MailInOrder
    <2> QED
      BY <2>1, PoolInvInit, CapacityInit
  <1>2. Inv /\ [Next]_vars => Inv'
    BY PoolInvStep, MailInvStep, CapacityStep
  <1>3. Inv => CapacityConserved
    BY DEF CapacityInv, CapacityConserved
  <1> QED
    BY <1>1, <1>2, <1>3, PTL DEF Spec

-----------------------------------------------------------------------------
(* The pool implements the dispatch contract *)

R == RunningForCaller

\* A step in which worker w lets go of what it held, settled as how, and takes
\* nothing or the oldest waiting request: Finish, Take or a stutter.
LEMMA HandOver ==
    ASSUME PoolInv, PoolInv', NEW w \in Workers,
           NEW how \in {"answered", "crashed", "timeout"},
           UNCHANGED <<nextId, closed>>,
           outcome' = IF pending[w] # Null /\ outcome[pending[w]] = "none"
                      THEN [outcome EXCEPT ![pending[w]] = how] ELSE outcome,
           \/ pending' = [pending EXCEPT ![w] = Null] /\ queue' = queue
           \/ /\ queue # <<>> /\ queue' = Tail(queue)
              /\ pending' = [pending EXCEPT ![w] = Head(queue)]
    PROVE  [Contract!Next]_(Contract!vars)
  <1> DEFINE p == pending[w]
             done == IF p # Null /\ outcome[p] = "none" THEN {p} ELSE {}
  <1>0. TypeOK /\ TypeOK'
    BY DEF PoolInv
  <1>1. p \in Requests \cup {Null} /\ Null \notin Requests
    BY PoolFacts
  <1>2. done \subseteq R
    BY <1>1 DEF R, RunningForCaller, Sent
  <1>3. outcome' = [r \in Requests |-> IF r \in done THEN how ELSE outcome[r]]
    BY <1>0, <1>1 DEF TypeOK
  <1>4. \A v \in Workers : v # w /\ pending[v] # Null => pending[v] # p
    BY DEF PoolInv, PendingOrdered
  <1>5. CASE pending' = [pending EXCEPT ![w] = Null] /\ queue' = queue
    <2>1. R' = R \ done
      <3> SUFFICES ASSUME NEW r \in Requests PROVE r \in R' <=> r \in R /\ r \notin done
        BY DEF R, RunningForCaller
      <3>1. Sent(r)' <=> \E v \in Workers : v # w /\ pending[v] = r
        BY <1>0, <1>1, <1>5 DEF Sent, TypeOK
      <3>2. Sent(r) <=> r = p \/ \E v \in Workers : v # w /\ pending[v] = r
        BY DEF Sent
      <3>3. r = p => ~\E v \in Workers : v # w /\ pending[v] = r
        BY <1>1, <1>4
      <3>4. outcome'[r] = "none" <=> r \notin done /\ outcome[r] = "none"
        BY <1>3
      <3> QED
        BY <1>1, <3>1, <3>2, <3>3, <3>4 DEF R, RunningForCaller
    <2>2. CASE done = {}
      BY <1>0, <1>3, <1>5, <2>1, <2>2 DEF Contract!vars, R, TypeOK
    <2>3. CASE done # {}
      <3>1. p \in R /\ done = {p}
        BY <1>2, <2>3
      <3>2. Contract!SettleStarted({p}) /\ R' = R \ {p}
        BY <1>3, <2>1, <3>1 DEF Contract!SettleStarted, R
      <3> HIDE DEF p, done
      <3>3. Contract!Finish
        BY <1>5, <3>1, <3>2 DEF Contract!Finish, R
      <3> QED
        BY <3>3 DEF Contract!Next
    <2> QED
      BY <2>2, <2>3
  <1>6. CASE /\ queue # <<>> /\ queue' = Tail(queue)
             /\ pending' = [pending EXCEPT ![w] = Head(queue)]
    <2> DEFINE h == Head(queue)
    <2>1. h = queue[1] /\ 1 \in 1 .. Len(queue) /\ h \in Requests
      BY <1>6, PoolFacts
    <2>2. outcome[h] = "none" /\ \A v \in Workers : pending[v] # h
      BY <2>1, PoolFacts DEF PoolInv, QueueOrdered
    <2>3. h \notin done
      BY <2>2
    <2>4. R' = (R \ done) \cup {h}
      <3> SUFFICES ASSUME NEW r \in Requests
                   PROVE  r \in R' <=> (r \in R /\ r \notin done) \/ r = h
        BY <2>1 DEF R, RunningForCaller
      <3>1. Sent(r)' <=> r = h \/ \E v \in Workers : v # w /\ pending[v] = r
        BY <1>0, <1>6 DEF Sent, TypeOK
      <3>2. Sent(r) <=> r = p \/ \E v \in Workers : v # w /\ pending[v] = r
        BY DEF Sent
      <3>3. r = p => ~\E v \in Workers : v # w /\ pending[v] = r
        BY <1>1, <1>4
      <3>4. outcome'[r] = "none" <=> r \notin done /\ outcome[r] = "none"
        BY <1>3
      <3>5. r = h => outcome'[r] = "none"
        BY <2>2, <2>3, <3>4
      <3> QED
        BY <1>1, <3>1, <3>2, <3>3, <3>4, <3>5 DEF R, RunningForCaller
    <2>5. done \in {{}} \cup {{r} : r \in R}
      BY <1>2
    <2>6. Contract!SettleStarted(done)
      BY <1>2, <1>3 DEF Contract!SettleStarted, R
    <2> HIDE DEF done, p
    <2>7. Contract!Take
      BY <1>6, <2>4, <2>5, <2>6 DEF Contract!Take, R
    <2> QED
      BY <2>7 DEF Contract!Next
  <1> QED
    BY <1>5, <1>6

\* Settling what a worker holds, when it holds nothing or it was settled.
LEMMA SettlePending ==
    ASSUME PoolInv, NEW w \in Workers, NEW how,
           outcome' = [outcome EXCEPT ![pending[w]] = IF @ = "none" THEN how ELSE @]
    PROVE  outcome' = IF pending[w] # Null /\ outcome[pending[w]] = "none"
                      THEN [outcome EXCEPT ![pending[w]] = how] ELSE outcome
  <1>1. outcome \in [Requests -> Outcomes]
    BY DEF PoolInv, TypeOK
  <1>2. CASE pending[w] \in Requests /\ outcome[pending[w]] = "none"
    BY <1>1, <1>2, PoolFacts
  <1>3. CASE pending[w] \in Requests /\ outcome[pending[w]] # "none"
    <2>1. outcome' = [r \in Requests |-> outcome[r]]
      BY <1>1, <1>3
    <2> QED
      BY <1>1, <1>3, <2>1
  <1>4. CASE pending[w] = Null
    <2>1. outcome' = [r \in Requests |-> outcome[r]]
      BY <1>1, <1>4, PoolFacts
    <2> QED
      BY <1>1, <1>4, <2>1
  <1> QED
    BY <1>2, <1>3, <1>4, PoolFacts

\* A step that touches no request of the contract.
LEMMA ContractStutter ==
    ASSUME PoolInv, UNCHANGED <<nextId, queue, pending, outcome, closed>>
    PROVE  [Contract!Next]_(Contract!vars)
  BY DEF Contract!vars, RunningForCaller, Sent

\* Every step of the pool is a step of the dispatch contract or a stutter.
LEMMA ContractStep ==
    ASSUME PoolInv, PoolInv', [Next]_vars PROVE [Contract!Next]_(Contract!vars)
  <1>0. TypeOK /\ TypeOK'
    BY DEF PoolInv
  <1>1. CASE DispatchToSlot
    <2>1. PICK i \in Indexes : Free(i) /\ SendToSlot(slots[i], nextId)
      BY <1>1 DEF DispatchToSlot, FirstFree
    <2> DEFINE w == slots[i]
    <2>2. w \in Workers /\ pending[w] = Null /\ nextId \in Requests /\ queue = <<>>
      <3>1. w \in Workers /\ pending[w] = Null
        BY <1>0, <2>1 DEF Free, TypeOK
      <3>2. nextId \in Requests
        BY <1>0, <1>1 DEF DispatchToSlot, TypeOK, Requests
      <3>3. queue = <<>>
        BY <2>1 DEF PoolInv, WorkConserving
      <3> QED
        BY <3>1, <3>2, <3>3
    <2>3. /\ pending' = [pending EXCEPT ![w] = nextId]
          /\ UNCHANGED <<queue, outcome, closed>> /\ nextId' = nextId + 1 /\ ~closed
      BY <1>1, <2>1 DEF DispatchToSlot, SendToSlot
    <2>4. outcome[nextId] = "none"
      BY <2>2, PoolFacts DEF PoolInv, NewRequestsOpen
    <2> HIDE DEF w
    <2>5. R' = R \cup {nextId}
      <3> SUFFICES ASSUME NEW r \in Requests PROVE r \in R' <=> r \in R \/ r = nextId
        BY <2>2 DEF R, RunningForCaller
      <3>1. Sent(r)' <=> r = nextId \/ \E v \in Workers : v # w /\ pending[v] = r
        BY <1>0, <2>2, <2>3 DEF Sent, TypeOK
      <3>2. Sent(r) <=> \E v \in Workers : v # w /\ pending[v] = r
        BY <2>2, PoolFacts DEF Sent
      <3> QED
        BY <2>3, <2>4, <3>1, <3>2 DEF R, RunningForCaller
    <2>6. Contract!StartAtOnce
      BY <2>2, <2>3, <2>5 DEF Contract!StartAtOnce, R
    <2> QED
      BY <2>6 DEF Contract!Next
  <1>2. CASE DispatchToQueue
    <2>1. nextId \in Requests /\ R' = R
      BY <1>0, <1>2 DEF DispatchToQueue, Requests, TypeOK, R, RunningForCaller, Sent
    <2>2. Contract!Wait
      BY <1>0, <1>2, <2>1, PoolFacts DEF DispatchToQueue, Full, Contract!Wait, R
    <2> QED
      BY <2>2 DEF Contract!Next
  <1>3. CASE DispatchOverloaded
    <2>1. nextId \in Requests /\ ~Sent(nextId)
      BY <1>0, <1>3, PoolFacts DEF DispatchOverloaded, Requests, TypeOK, Sent
    <2>2. R' = R
      BY <1>0, <1>3, <2>1 DEF DispatchOverloaded, R, RunningForCaller, Sent, TypeOK
    <2>3. Contract!Refuse
      BY <1>3, <2>1, <2>2 DEF DispatchOverloaded, Full, Contract!Refuse, R
    <2> QED
      BY <2>3 DEF Contract!Next
  <1>4. ASSUME NEW r \in Requests, TimeoutQueued(r)
        PROVE  [Contract!Next]_(Contract!vars)
    <2>1. PICK k \in 1 .. Len(queue) : queue[k] = r /\ queue' = RemoveAt(queue, k)
      BY <1>4 DEF TimeoutQueued
    <2>2. outcome[r] = "none" /\ ~Sent(r)
      BY <2>1, PoolFacts DEF PoolInv, QueueOrdered, Sent
    <2>3. outcome' = [outcome EXCEPT ![r] = "timeout"]
          /\ UNCHANGED <<nextId, closed, pending>>
      BY <1>4, <2>2 DEF TimeoutQueued, Settle
    <2>4. R' = R
      BY <1>0, <2>2, <2>3 DEF R, RunningForCaller, Sent, TypeOK
    <2>5. outcome' = [outcome EXCEPT ![queue[k]] = "timeout"]
      BY <2>1, <2>3
    <2>6. Contract!TimeoutWaiting
      BY <2>1, <2>3, <2>4, <2>5
         DEF Contract!TimeoutWaiting, R, RemoveAt, Contract!RemoveAt
    <2> QED
      BY <2>6 DEF Contract!Next
  <1>5. ASSUME NEW r \in Requests, TimeoutSent(r)
        PROVE  [Contract!Next]_(Contract!vars)
    <2>1. /\ UNCHANGED <<nextId, closed, pending, queue>> /\ timer[r] /\ ~Queued(r)
          /\ outcome' = IF outcome[r] = "none"
                        THEN [outcome EXCEPT ![r] = "timeout"] ELSE outcome
      BY <1>0, <1>5 DEF TimeoutSent, TimerDue, KeepPending, Settle, Queued, TypeOK
    <2>2. CASE outcome[r] # "none"
      BY <2>1, <2>2, ContractStutter
    <2>3. CASE outcome[r] = "none"
      <3>1. r < nextId
        <4>1. ~(r >= nextId)
          BY <2>1 DEF PoolInv, NewRequestsOpen
        <4> QED
          BY <4>1, PoolFacts
      <3>2. r \in R
        BY <2>1, <2>3, <3>1 DEF PoolInv, OpenRequestsTracked, R, RunningForCaller
      <3>3. R' = R \ {r}
        BY <1>0, <2>1, <2>3 DEF R, RunningForCaller, Sent, TypeOK
      <3>4. outcome' = [q \in Requests |-> IF q \in {r} THEN "timeout" ELSE outcome[q]]
        BY <1>0, <2>1, <2>3 DEF TypeOK
      <3>5. Contract!SettleStarted({r})
        BY <3>2, <3>4 DEF Contract!SettleStarted, R
      <3>6. Contract!Finish
        BY <2>1, <3>2, <3>3, <3>5 DEF Contract!Finish, R
      <3> QED
        BY <3>6 DEF Contract!Next
    <2> QED
      BY <2>2, <2>3
  <1>6. ASSUME NEW w \in Workers, ResponseDrain(w)
        PROVE  [Contract!Next]_(Contract!vars)
    <2>1. /\ UNCHANGED <<nextId, closed>> /\ DrainQueue(w)
          /\ outcome' = [outcome EXCEPT ![pending[w]] = IF @ = "none" THEN "answered" ELSE @]
      BY <1>6 DEF ResponseDrain, Settle
    <2>2. outcome' = IF pending[w] # Null /\ outcome[pending[w]] = "none"
                     THEN [outcome EXCEPT ![pending[w]] = "answered"] ELSE outcome
      BY <2>1, SettlePending
    <2>3. \/ pending' = [pending EXCEPT ![w] = Null] /\ queue' = queue
          \/ /\ queue # <<>> /\ queue' = Tail(queue)
             /\ pending' = [pending EXCEPT ![w] = Head(queue)]
      BY <2>1 DEF DrainQueue, Shift, NextWaiting, SendToSlot
    <2> QED
      BY <2>1, <2>2, <2>3, HandOver
  <1>7. ASSUME NEW w \in Workers, ResponseRestart(w)
        PROVE  [Contract!Next]_(Contract!vars)
    <2>1. /\ UNCHANGED <<nextId, closed, queue>>
          /\ pending' = [pending EXCEPT ![w] = Null]
          /\ outcome' = [outcome EXCEPT ![pending[w]] = IF @ = "none" THEN "answered" ELSE @]
      BY <1>7 DEF ResponseRestart, Settle
    <2>2. outcome' = IF pending[w] # Null /\ outcome[pending[w]] = "none"
                     THEN [outcome EXCEPT ![pending[w]] = "answered"] ELSE outcome
      BY <2>1, SettlePending
    <2> QED
      BY <2>1, <2>2, HandOver
  <1>8. ASSUME NEW w \in Workers, HandleWorkerCrash(w)
        PROVE  [Contract!Next]_(Contract!vars)
    <2>1. /\ UNCHANGED <<nextId, closed, queue>>
          /\ pending' = [pending EXCEPT ![w] = Null]
          /\ RejectPending(w)
      BY <1>8 DEF HandleWorkerCrash
    <2>2. outcome' = IF pending[w] # Null /\ outcome[pending[w]] = "none"
                     THEN [outcome EXCEPT ![pending[w]] = "crashed"] ELSE outcome
      BY <1>0, <2>1, PoolFacts DEF TypeOK, RejectPending, Settle, callVars
    <2> QED
      BY <2>1, <2>2, HandOver
  <1>9. ASSUME NEW w \in Workers, Booted(w)
        PROVE  [Contract!Next]_(Contract!vars)
    <2>1. /\ UNCHANGED <<nextId, closed, outcome>> /\ DrainQueue(w)
          /\ thread[w] \in NotStarted
      BY <1>9 DEF Booted, callVars, NotStarted
    <2>2. pending[w] = Null
      BY <2>1 DEF PoolInv, NewWorkersIdle
    <2>3. \/ pending' = [pending EXCEPT ![w] = Null] /\ queue' = queue
          \/ /\ queue # <<>> /\ queue' = Tail(queue)
             /\ pending' = [pending EXCEPT ![w] = Head(queue)]
      BY <2>1 DEF DrainQueue, Shift, NextWaiting, SendToSlot
    <2>4. "answered" \in {"answered", "crashed", "timeout"}
      OBVIOUS
    <2> QED
      BY <2>1, <2>2, <2>3, <2>4, HandOver
  <1>10. CASE Close
    <2>1. /\ ~closed /\ closed' /\ queue' = <<>> /\ UNCHANGED <<nextId, pending>>
          /\ outcome' = [r \in Requests |-> IF Queued(r) THEN "shutdown" ELSE outcome[r]]
      BY <1>10 DEF Close, Queued
    <2>2. \A r \in Requests : ~(Queued(r) /\ Sent(r))
      BY PoolFacts DEF Queued, Sent
    <2>3. R' = R
      BY <2>1, <2>2 DEF R, RunningForCaller, Sent
    <2>4. Contract!Close
      BY <2>1, <2>3 DEF Contract!Close, R, Queued
    <2> QED
      BY <2>4 DEF Contract!Next
  <1>11. CASE UNCHANGED <<nextId, queue, pending, outcome, closed>>
    BY <1>11, ContractStutter
  <1>12. \/ DispatchToSlot \/ DispatchToQueue \/ DispatchOverloaded \/ Close
         \/ \E r \in Requests : TimeoutQueued(r) \/ TimeoutSent(r)
         \/ \E w \in Workers : \/ ResponseDrain(w) \/ Booted(w)
                               \/ ResponseRestart(w) \/ HandleWorkerCrash(w)
         \/ UNCHANGED <<nextId, queue, pending, outcome, closed>>
    BY DEF Next, Dispatch, Timeout, OnWorkerEvent, BootSettled, RestartTerminated,
       BootFailed, RetryFailed, Answer, Crash, ThreadExit, RetryTimer,
       CloseDone, poolVars, callVars, vars
  <1> QED
    BY <1>1, <1>2, <1>3, <1>4, <1>5, <1>6, <1>7, <1>8, <1>9, <1>10, <1>11, <1>12

\* The pool implements the dispatch contract, for any number of slots,
\* requests and faults.
THEOREM PoolImplementsContract == Spec => ImplementsContract
  <1>1. Init => Contract!Init
    BY DEF Init, Contract!Init, RunningForCaller, Sent, Requests, Null, Workers
  <1>2. PoolInv /\ PoolInv' /\ [Next]_vars => [Contract!Next]_(Contract!vars)
    BY ContractStep
  <1> QED
    BY <1>1, <1>2, PoolInvariant, PTL DEF Spec, ImplementsContract, Contract!Spec
=============================================================================
