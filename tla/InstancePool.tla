---------------------------- MODULE InstancePool ----------------------------
(***************************************************************************)
(* The pool of WASM instances inside one thread, wasm/pool.ts.  acquire()  *)
(* waits only for an instance it has to make; release() is synchronous and *)
(* replaces an instance that has served its number of requests, or grown   *)
(* too much, by one made in the background.  Instances are named in the    *)
(* order in which they are asked for.                                      *)
(***************************************************************************)
EXTENDS Naturals, Sequences, SequencesExt

CONSTANTS
    PoolSize,      \* poolSize
    MaxInstances,  \* instances ever asked for
    MaxUses        \* MAX_REQUEST_COUNT

VARIABLES
    available,   \* the instances ready to be acquired, the last one first
    inUse,       \* inUse
    entryMap,    \* the instances the pool knows
    requestCount,
    making,      \* spawn() calls under way: for initialize, acquire or release
    made,        \* those of initialize that are done; all are needed at once
    lost,        \* ... that stay unused because another one failed
    holders,     \* instances the callers of acquire() have and will release
    used,        \* instances with the context and response of a request
    last,        \* instances asked for so far
    closed,      \* close() was called
    raced        \* ... while an instance was being made

poolState == <<available, inUse, entryMap, requestCount>>
vars == <<poolState, making, made, lost, holders, used, last, closed, raced>>

Instances == 1 .. MaxInstances

Init ==
    /\ available = <<>> /\ inUse = {} /\ entryMap = {}
    /\ requestCount = [i \in Instances |-> 0]
    /\ making = [i \in Instances |-> IF i <= PoolSize THEN "initialize" ELSE "no"]
    /\ made = {} /\ lost = {} /\ holders = {} /\ used = {} /\ last = PoolSize
    /\ closed = FALSE /\ raced = FALSE

\* createInstance() is done and the instance has an entry.
spawn(i) ==
    /\ entryMap' = entryMap \cup {i}
    /\ making' = [making EXCEPT ![i] = "no"]
    /\ raced' = (raced \/ closed)

\* initialize() goes on when all of its instances are there.
initialize(i) ==
    /\ making[i] = "initialize" /\ spawn(i)
    /\ IF lost # {} \/ \E j \in Instances \ {i} : making[j] = "initialize"
       THEN made' = made \cup {i} /\ UNCHANGED available
       ELSE /\ available' = [j \in 1 .. PoolSize |-> j]
            /\ made' = {}
    /\ UNCHANGED <<inUse, requestCount, lost, holders, used, last, closed>>

\* The promise of initialize() rejects: the others are made all the same, but
\* nobody adds them to the pool.
InitializeFails(i) ==
    /\ making[i] = "initialize"
    /\ making' = [making EXCEPT ![i] = "no"]
    /\ lost' = lost \cup {i}
    /\ UNCHANGED <<poolState, made, holders, used, last, closed, raced>>

Initialized == \A i \in Instances : making[i] # "initialize"

-----------------------------------------------------------------------------
Take(i) ==
    /\ inUse' = inUse \cup {i}
    /\ requestCount' = [requestCount EXCEPT ![i] = @ + 1]
    /\ holders' = holders \cup {i} /\ used' = used \cup {i}

acquire ==
    /\ available # <<>> /\ Take(Last(available))
    /\ available' = Front(available)
    /\ UNCHANGED <<entryMap, making, made, lost, last, closed, raced>>

Ask(why) ==
    /\ last < MaxInstances /\ last' = last + 1
    /\ making' = [making EXCEPT ![last + 1] = why]

acquireSpawns ==
    /\ Initialized /\ available = <<>> /\ Ask("acquire")
    /\ UNCHANGED <<poolState, made, lost, holders, used, closed, raced>>

Acquired(i) ==
    /\ making[i] = "acquire" /\ spawn(i) /\ Take(i)
    /\ UNCHANGED <<available, made, lost, last, closed>>

\* acquire() rejects, or the instance that was to replace another is not made
\* (which is only logged).
SpawnFails(i) ==
    /\ making[i] \in {"acquire", "release"}
    /\ making' = [making EXCEPT ![i] = "no"]
    /\ UNCHANGED <<poolState, made, lost, holders, used, last, closed, raced>>

\* reset(): the context, the response and the HTTP client of the request go.
reset(i) == used \ {i}

\* seeded fault: the limit is passed before it is noticed
RotateLate(i, grown) == requestCount[i] > MaxUses \/ grown
\* grown: the heap or the memory has grown by more than MAX_HEAP_GROWTH_BYTES.
shouldRotate(i, grown) == requestCount[i] >= MaxUses \/ grown

\* An instance to be replaced leaves the map; one the pool no longer knows is
\* dropped.  A caller releases what it acquired, once.
release(i) ==
    /\ i \in holders /\ holders' = holders \ {i}
    /\ inUse' = inUse \ {i}
    /\ IF i \notin entryMap
       THEN /\ used' = used \ {i}
            /\ UNCHANGED <<available, entryMap, requestCount, making, last>>
       ELSE \E grown \in BOOLEAN :
            IF shouldRotate(i, grown)
            THEN /\ entryMap' = entryMap \ {i} /\ used' = used \ {i}
                 /\ Ask("release")
                 /\ UNCHANGED <<available, requestCount>>
            ELSE /\ used' = reset(i)
                 /\ available' = Append(available, i)
                 /\ UNCHANGED <<entryMap, requestCount, making, last>>
    /\ UNCHANGED <<made, lost, closed, raced>>

Replaced(i) ==
    /\ making[i] = "release" /\ spawn(i)
    /\ available' = Append(available, i)
    /\ UNCHANGED <<inUse, requestCount, made, lost, holders, used, last, closed>>

close ==
    /\ ~closed /\ closed' = TRUE
    /\ available' = <<>> /\ inUse' = {} /\ entryMap' = {}
    /\ UNCHANGED <<requestCount, making, made, lost, holders, used, last, raced>>

Next ==
    \/ acquire \/ acquireSpawns \/ close
    \/ \E i \in Instances :
          initialize(i) \/ InitializeFails(i) \/ Acquired(i) \/ SpawnFails(i)
          \/ release(i) \/ Replaced(i)

Spec == Init /\ [][Next]_vars

-----------------------------------------------------------------------------
TypeOK ==
    /\ available \in Seq(Instances) /\ inUse \subseteq Instances
    /\ entryMap \subseteq Instances /\ holders \subseteq Instances
    /\ requestCount \in [Instances -> 0 .. MaxUses] /\ last \in 0 .. MaxInstances
    /\ making \in [Instances -> {"no", "initialize", "acquire", "release"}]

\* Every instance the pool knows is ready, in use, or part of an initialize()
\* that has not gone through; none is in two places, none is handed to two
\* callers, and what a caller gets has no state of another request and has
\* served fewer than MaxUses.  (An instance that was being made while close()
\* ran joins the closed pool, see raced.)
InstancesConserved ==
    /\ IsInjective(available)
    /\ ToSet(available) \cap (inUse \cup holders) = {}
    /\ \A i \in ToSet(available) : i \notin used /\ requestCount[i] < MaxUses
    /\ ~closed => inUse = holders
    /\ ~closed /\ lost = {} => entryMap = ToSet(available) \cup inUse \cup made
    /\ closed /\ ~raced => available = <<>> /\ inUse = {} /\ entryMap = {}
=============================================================================
