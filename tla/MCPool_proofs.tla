---------------------------- MODULE MCPool_proofs ----------------------------
(***************************************************************************)
(* Theorems about the parts of MCPool beside the pool of threads, of which *)
(* RequestPool_proofs treats: the instances a thread keeps (InstancePool), *)
(* the memory and the limits of the thread that runs a request             *)
(* (RequestWorker), whom a request acts for (AccessControl), the route it  *)
(* has found (Routing), what its queries are told and which pages they get *)
(* (DatabaseBridge), and the texts and numbers it is answered in           *)
(* (LocaleTexts); for any numbers of instances, threads, clients, routes,  *)
(* rows and calls, and any sizes of memory.                                *)
(***************************************************************************)
EXTENDS MCPool, RequestPool_proofs

-----------------------------------------------------------------------------
(***************************************************************************)
(* Instances.  An instance that is asked for and not there yet has been    *)
(* touched by nobody; one that is ready is nobody's; and until initialize  *)
(* has gone through the pool has handed out nothing, so that filling it    *)
(* with all instances at once loses none.                                  *)
(***************************************************************************)
Ready == Instance!ToSet(available)

Untouched(i) ==
    i \notin Ready /\ i \notin holders /\ i \notin inUse /\ requestCount[i] = 0

Initializing == {i \in Instance!Instances : making[i] = "initialize"}

InstanceTypes ==
    /\ Instance!TypeOK
    /\ PoolSize <= last /\ used = holders
    /\ \A i \in Instance!Instances : i > last => making[i] = "no"

NobodysInstances ==
    /\ Instance!IsInjective(available)
    /\ \A i \in Instance!Instances : making[i] # "no" \/ i > last => Untouched(i)
    /\ \A i \in Ready : i \notin inUse /\ i \notin holders /\ requestCount[i] < MaxUses

BeforeInitialized ==
    Initializing # {} =>
        /\ available = <<>> /\ holders = {} /\ inUse = {} /\ last = PoolSize
        /\ \A i \in Instance!Instances :
              requestCount[i] = 0 /\ making[i] \in {"no", "initialize"}
        /\ 1 .. PoolSize = made \cup instancesLost \cup Initializing

InstancesKnown ==
    /\ Initializing = {} /\ instancesLost = {} => made = {}
    /\ ~instancesClosed => inUse = holders
    /\ ~instancesClosed /\ instancesLost = {} => entryMap = Ready \cup inUse \cup made
    /\ instancesClosed /\ ~raced => available = <<>> /\ inUse = {} /\ entryMap = {}

InstanceInv ==
    InstanceTypes /\ NobodysInstances /\ BeforeInitialized /\ InstancesKnown

LEMMA ReadyPopped ==
    ASSUME NEW S, available \in Seq(S), available # <<>>,
           Instance!IsInjective(available), available' = Instance!Front(available)
    PROVE  /\ available' \in Seq(S) /\ Instance!IsInjective(available')
           /\ Instance!Last(available) \in Ready
           /\ Ready' = Ready \ {Instance!Last(available)}
  <1>1. Len(available) \in Nat \ {0} /\ DOMAIN available = 1 .. Len(available)
    BY EmptySeq, LenProperties
  <1>2. /\ available' = SubSeq(available, 1, Len(available) - 1)
        /\ available' \in Seq(S) /\ Len(available') = Len(available) - 1
        /\ \A k \in 1 .. Len(available) - 1 : available'[k] = available[k]
    <2>1. \A k \in 1 .. Len(available) - 1 : available[k] \in S
      BY <1>1, ElementOfSeq
    <2> QED
      BY <1>1, <2>1, SubSeqProperties DEF Instance!Front
  <1>3. DOMAIN available' = 1 .. Len(available) - 1
    BY <1>2, LenProperties
  <1>4. \A k \in 1 .. Len(available) - 1 : available[k] # available[Len(available)]
    BY <1>1 DEF Instance!IsInjective
  <1>5. Instance!IsInjective(available')
    BY <1>1, <1>2, <1>3 DEF Instance!IsInjective
  <1>6. Ready = {available[k] : k \in 1 .. Len(available)}
        /\ Ready' = {available[k] : k \in 1 .. Len(available) - 1}
    BY <1>1, <1>2, <1>3 DEF Ready, Instance!ToSet
  <1>7. \A k : k \in 1 .. Len(available)
           <=> k \in 1 .. Len(available) - 1 \/ k = Len(available)
    BY <1>1
  <1> QED
    BY <1>2, <1>4, <1>5, <1>6, <1>7 DEF Instance!Last

LEMMA ReadyPushed ==
    ASSUME NEW S, NEW i \in S, available \in Seq(S), i \notin Ready,
           Instance!IsInjective(available), available' = Append(available, i)
    PROVE  /\ available' \in Seq(S) /\ Instance!IsInjective(available')
           /\ Ready' = Ready \cup {i}
  <1>1. /\ Len(available) \in Nat /\ DOMAIN available = 1 .. Len(available)
        /\ available' \in Seq(S) /\ Len(available') = Len(available) + 1
        /\ \A k \in 1 .. Len(available) : available'[k] = available[k]
        /\ available'[Len(available) + 1] = i
    BY LenProperties, AppendProperties
  <1>2. DOMAIN available' = 1 .. Len(available) + 1
    BY <1>1, LenProperties
  <1>3. Ready = {available[k] : k \in 1 .. Len(available)}
        /\ Ready' = {available'[k] : k \in 1 .. Len(available) + 1}
    BY <1>1, <1>2 DEF Ready, Instance!ToSet
  <1>4. \A k : k \in 1 .. Len(available) + 1
           <=> k \in 1 .. Len(available) \/ k = Len(available) + 1
    BY <1>1
  <1>5. Ready' = Ready \cup {i}
    BY <1>1, <1>3, <1>4
  <1>6. \A k \in 1 .. Len(available) : available[k] # i
    BY <1>3
  <1>7. Instance!IsInjective(available')
    BY <1>1, <1>2, <1>4, <1>6 DEF Instance!IsInjective
  <1> QED
    BY <1>1, <1>5, <1>7

LEMMA InstanceInvInit == Instance!Init => InstanceInv
  <1> SUFFICES ASSUME Instance!Init PROVE InstanceInv
    OBVIOUS
  <1> USE InstanceAssumption
  <1>1. /\ available = <<>> /\ inUse = {} /\ entryMap = {} /\ holders = {} /\ used = {}
        /\ \A i \in Instance!Instances : requestCount[i] = 0
        /\ \A i \in Instance!Instances :
              making[i] = IF i <= PoolSize THEN "initialize" ELSE "no"
        /\ made = {} /\ instancesLost = {} /\ last = PoolSize
        /\ ~instancesClosed /\ ~raced
    BY DEF Instance!Init
  <1>2. Initializing = 1 .. PoolSize /\ Ready = {}
    BY <1>1 DEF Initializing, Ready, Instance!ToSet, Instance!Instances
  <1>3. InstanceTypes
    BY <1>1 DEF InstanceTypes, Instance!TypeOK, Instance!Init, Instance!Instances
  <1>4. NobodysInstances
    BY <1>1, <1>2 DEF NobodysInstances, Untouched, Instance!IsInjective
  <1>5. BeforeInitialized /\ InstancesKnown
    BY <1>1, <1>2 DEF BeforeInitialized, InstancesKnown
  <1> QED
    BY <1>3, <1>4, <1>5 DEF InstanceInv

\* What a step does to an instance that was asked for: it is made, or that failed.
LEMMA MadeTypes ==
    ASSUME InstanceInv, NEW i \in Instance!Instances, making' = [making EXCEPT ![i] = "no"],
           UNCHANGED last
    PROVE  /\ making' \in [Instance!Instances -> {"no", "initialize", "acquire", "release"}]
           /\ \A j \in Instance!Instances : j > last' => making'[j] = "no"
           /\ \A j \in Instance!Instances :
                 making'[j] # "no" => j # i /\ making'[j] = making[j]
           /\ Initializing' = Initializing \ {i}
  BY DEF InstanceInv, InstanceTypes, Instance!TypeOK, Initializing

LEMMA InitializeStep ==
    ASSUME InstanceInv, NEW i \in Instance!Instances, Instance!initialize(i)
    PROVE  InstanceInv'
  <1> USE InstanceAssumption
  <1>1. /\ making[i] = "initialize" /\ making' = [making EXCEPT ![i] = "no"]
        /\ entryMap' = entryMap \cup {i} /\ raced' = (raced \/ instancesClosed)
        /\ UNCHANGED <<inUse, requestCount, instancesLost, holders, used, last,
                       instancesClosed>>
    BY DEF Instance!initialize, Instance!spawn
  <1>2. /\ i \in Initializing /\ Initializing' = Initializing \ {i}
        /\ \A j \in Instance!Instances :
              making'[j] # "no" => j # i /\ making'[j] = making[j]
        /\ making' \in [Instance!Instances -> {"no", "initialize", "acquire", "release"}]
        /\ \A j \in Instance!Instances : j > last' => making'[j] = "no"
    BY <1>1, MadeTypes DEF Initializing
  <1>3. /\ available = <<>> /\ Ready = {} /\ holders = {} /\ inUse = {} /\ last = PoolSize
        /\ \A j \in Instance!Instances :
              requestCount[j] = 0 /\ making[j] \in {"no", "initialize"}
        /\ 1 .. PoolSize = made \cup instancesLost \cup Initializing
    BY <1>2 DEF InstanceInv, BeforeInitialized, Ready, Instance!ToSet
  <1>4. CASE instancesLost # {} \/ Initializing' # {}
    <2>1. made' = made \cup {i} /\ available' = <<>> /\ Ready' = {}
      BY <1>1, <1>2, <1>3, <1>4
         DEF Instance!initialize, Initializing, Ready, Instance!ToSet
    <2>2. InstanceTypes'
      BY <1>1, <1>2, <2>1 DEF InstanceInv, InstanceTypes, Instance!TypeOK
    <2>3. NobodysInstances'
      BY <1>1, <1>3, <2>1 DEF NobodysInstances, Untouched, Instance!IsInjective
    <2>4. BeforeInitialized'
      BY <1>1, <1>2, <1>3, <2>1 DEF BeforeInitialized
    <2>5. InstancesKnown'
      BY <1>1, <1>2, <1>3, <1>4, <2>1 DEF InstanceInv, InstancesKnown
    <2> QED
      BY <2>2, <2>3, <2>4, <2>5 DEF InstanceInv
  <1>5. CASE instancesLost = {} /\ Initializing' = {}
    <2>1. made' = {} /\ available' = [j \in 1 .. PoolSize |-> j]
      BY <1>1, <1>2, <1>5 DEF Instance!initialize, Initializing
    <2>2. /\ available' \in Seq(Instance!Instances) /\ Ready' = 1 .. PoolSize
          /\ Instance!IsInjective(available')
      <3>1. available' \in [1 .. PoolSize -> Instance!Instances]
        BY <2>1 DEF Instance!Instances
      <3>2. available' \in Seq(Instance!Instances)
        BY <3>1, SeqDef
      <3>3. Ready' = 1 .. PoolSize
        BY <2>1 DEF Ready, Instance!ToSet
      <3> QED
        BY <2>1, <3>2, <3>3 DEF Instance!IsInjective
    <2>3. InstanceTypes'
      BY <1>1, <1>2, <2>2 DEF InstanceInv, InstanceTypes, Instance!TypeOK
    <2>4. \A j \in Instance!Instances : making'[j] = "no"
      BY <1>2, <1>3, <1>5 DEF Initializing
    <2>5. NobodysInstances'
      <3>1. /\ \A j \in Instance!Instances : j > last => j \notin 1 .. PoolSize
            /\ 1 .. PoolSize \subseteq Instance!Instances
        BY <1>3 DEF Instance!Instances
      <3> QED
        BY <1>1, <1>3, <2>2, <2>4, <3>1 DEF NobodysInstances, Untouched
    <2>6. BeforeInitialized'
      BY <1>5 DEF BeforeInitialized
    <2>7. InstancesKnown'
      <3>1. Initializing = {i} /\ made \cup {i} = 1 .. PoolSize
        BY <1>2, <1>3, <1>5
      <3>2. ~instancesClosed => entryMap' = 1 .. PoolSize
        BY <1>1, <1>3, <1>5, <3>1 DEF InstanceInv, InstancesKnown
      <3> QED
        BY <1>1, <1>3, <1>5, <2>1, <2>2, <3>2 DEF InstanceInv, InstancesKnown
    <2> QED
      BY <2>3, <2>5, <2>6, <2>7 DEF InstanceInv
  <1> QED
    BY <1>4, <1>5

\* A spawn() that fails.
LEMMA SpawnFailsStep ==
    ASSUME InstanceInv, NEW i \in Instance!Instances,
           Instance!InitializeFails(i) \/ Instance!SpawnFails(i)
    PROVE  InstanceInv'
  <1>1. /\ making' = [making EXCEPT ![i] = "no"]
        /\ UNCHANGED <<available, inUse, entryMap, requestCount, made, holders, used, last,
                       instancesClosed, raced>>
    BY DEF Instance!InitializeFails, Instance!SpawnFails, Instance!poolState
  <1>2. /\ Initializing' = Initializing \ {i} /\ Ready' = Ready
        /\ \A j \in Instance!Instances :
              making'[j] # "no" => j # i /\ making'[j] = making[j]
    BY <1>1, MadeTypes DEF Ready
  <1>3. InstanceTypes'
    BY <1>1, MadeTypes DEF InstanceInv, InstanceTypes, Instance!TypeOK
  <1>4. NobodysInstances'
    BY <1>1, <1>2 DEF InstanceInv, NobodysInstances, Untouched
  <1>5. \/ i \in Initializing /\ instancesLost' = instancesLost \cup {i}
        \/ Initializing' = Initializing /\ instancesLost' = instancesLost
    BY <1>1, <1>2 DEF Instance!InitializeFails, Instance!SpawnFails, Initializing
  <1>6. BeforeInitialized' /\ InstancesKnown'
    BY <1>1, <1>2, <1>5 DEF InstanceInv, BeforeInitialized, InstancesKnown
  <1> QED
    BY <1>3, <1>4, <1>6 DEF InstanceInv

\* A caller takes an instance, one that was ready or one made for it.
LEMMA AcquireStep ==
    ASSUME InstanceInv, Instance!acquire PROVE InstanceInv'
  <1> DEFINE i == Instance!Last(available)
  <1>1. /\ available # <<>> /\ available' = Instance!Front(available)
        /\ inUse' = inUse \cup {i} /\ holders' = holders \cup {i} /\ used' = used \cup {i}
        /\ requestCount' = [requestCount EXCEPT ![i] = @ + 1]
        /\ UNCHANGED <<entryMap, making, made, instancesLost, last, instancesClosed, raced>>
    BY DEF Instance!acquire, Instance!Take
  <1> HIDE DEF i
  <1>2. /\ available' \in Seq(Instance!Instances) /\ Instance!IsInjective(available')
        /\ i \in Ready /\ Ready' = Ready \ {i}
    BY <1>1, ReadyPopped
       DEF InstanceInv, InstanceTypes, NobodysInstances, Instance!TypeOK, i
  <1>3. i \in Instance!Instances
    BY <1>2, LenProperties
       DEF InstanceInv, InstanceTypes, Instance!TypeOK, Ready, Instance!ToSet
  <1>4. /\ requestCount[i] \in Nat /\ requestCount[i] < MaxUses
        /\ requestCount'[i] = requestCount[i] + 1
        /\ \A j \in Instance!Instances : j # i => requestCount'[j] = requestCount[j]
        /\ requestCount' \in [Instance!Instances -> 0 .. MaxUses]
    <2>1. requestCount[i] < MaxUses
      BY <1>2 DEF InstanceInv, NobodysInstances
    <2> QED
      BY <1>1, <1>3, <2>1, InstanceAssumption
         DEF InstanceInv, InstanceTypes, Instance!TypeOK
  <1>5. InstanceTypes'
    BY <1>1, <1>2, <1>3, <1>4 DEF InstanceInv, InstanceTypes, Instance!TypeOK
  <1>6. NobodysInstances'
    <2>1. making[i] = "no" /\ ~(i > last)
      BY <1>2, <1>3 DEF InstanceInv, NobodysInstances, Untouched
    <2>2. Ready \subseteq Instance!Instances
      BY LenProperties, ElementOfSeq
         DEF InstanceInv, InstanceTypes, Instance!TypeOK, Ready, Instance!ToSet
    <2> QED
      BY <1>1, <1>2, <1>4, <2>1, <2>2 DEF InstanceInv, NobodysInstances, Untouched
  <1>7. Initializing = {} /\ Initializing' = {}
    BY <1>1 DEF InstanceInv, BeforeInitialized, Initializing
  <1>8. BeforeInitialized' /\ InstancesKnown'
    BY <1>1, <1>2, <1>7 DEF InstanceInv, BeforeInitialized, InstancesKnown
  <1> QED
    BY <1>5, <1>6, <1>8 DEF InstanceInv

\* The facts about an instance that is being made for one call, and is made.
LEMMA SpawnedFacts ==
    ASSUME InstanceInv, NEW i \in Instance!Instances, making[i] \in {"acquire", "release"},
           making' = [making EXCEPT ![i] = "no"]
    PROVE  /\ Untouched(i) /\ ~(i > last)
           /\ \A j \in Instance!Instances :
                 making'[j] # "no" => j # i /\ making'[j] = making[j]
           /\ making' \in [Instance!Instances -> {"no", "initialize", "acquire", "release"}]
           /\ \A j \in Instance!Instances : j > last => making'[j] = "no"
           /\ Initializing = {} /\ Initializing' = {}
  <1>1. Initializing = {}
    BY DEF InstanceInv, BeforeInitialized
  <1>2. Initializing' = {}
    BY <1>1 DEF Initializing, InstanceInv, InstanceTypes, Instance!TypeOK
  <1> QED
    BY <1>1, <1>2
       DEF InstanceInv, InstanceTypes, NobodysInstances, Instance!TypeOK

LEMMA AcquiredStep ==
    ASSUME InstanceInv, NEW i \in Instance!Instances, Instance!Acquired(i)
    PROVE  InstanceInv'
  <1>1. /\ making[i] \in {"acquire", "release"} /\ making' = [making EXCEPT ![i] = "no"]
        /\ entryMap' = entryMap \cup {i} /\ raced' = (raced \/ instancesClosed)
        /\ inUse' = inUse \cup {i} /\ holders' = holders \cup {i} /\ used' = used \cup {i}
        /\ requestCount' = [requestCount EXCEPT ![i] = @ + 1]
        /\ UNCHANGED <<available, made, instancesLost, last, instancesClosed>>
    BY DEF Instance!Acquired, Instance!spawn, Instance!Take
  <1>2. /\ requestCount'[i] = 1
        /\ \A j \in Instance!Instances : j # i => requestCount'[j] = requestCount[j]
        /\ requestCount' \in [Instance!Instances -> 0 .. MaxUses]
    <2>1. requestCount[i] = 0
      BY <1>1, SpawnedFacts DEF Untouched
    <2> QED
      BY <1>1, <2>1, InstanceAssumption DEF InstanceInv, InstanceTypes, Instance!TypeOK
  <1>3. InstanceTypes'
    BY <1>1, <1>2, SpawnedFacts DEF InstanceInv, InstanceTypes, Instance!TypeOK
  <1>4. NobodysInstances'
    <2>1. Ready \subseteq Instance!Instances /\ Ready' = Ready
      BY <1>1, LenProperties, ElementOfSeq
         DEF InstanceInv, InstanceTypes, Instance!TypeOK, Ready, Instance!ToSet
    <2> QED
      BY <1>1, <1>2, <2>1, SpawnedFacts DEF InstanceInv, NobodysInstances, Untouched
  <1>5. BeforeInitialized' /\ InstancesKnown'
    BY <1>1, SpawnedFacts DEF InstanceInv, BeforeInitialized, InstancesKnown, Ready
  <1> QED
    BY <1>3, <1>4, <1>5 DEF InstanceInv

LEMMA ReplacedStep ==
    ASSUME InstanceInv, NEW i \in Instance!Instances, Instance!Replaced(i)
    PROVE  InstanceInv'
  <1>1. /\ making[i] \in {"acquire", "release"} /\ making' = [making EXCEPT ![i] = "no"]
        /\ entryMap' = entryMap \cup {i} /\ raced' = (raced \/ instancesClosed)
        /\ available' = Append(available, i)
        /\ UNCHANGED <<inUse, requestCount, made, instancesLost, holders, used, last,
                       instancesClosed>>
    BY DEF Instance!Replaced, Instance!spawn
  <1>2. Untouched(i)
    BY <1>1, SpawnedFacts
  <1>3. /\ available' \in Seq(Instance!Instances) /\ Instance!IsInjective(available')
        /\ Ready' = Ready \cup {i}
    BY <1>1, <1>2, ReadyPushed
       DEF InstanceInv, InstanceTypes, NobodysInstances, Instance!TypeOK, Untouched
  <1>4. InstanceTypes'
    BY <1>1, <1>3, SpawnedFacts DEF InstanceInv, InstanceTypes, Instance!TypeOK
  <1>5. NobodysInstances'
    <2>1. \A j \in Instance!Instances : (making'[j] # "no" \/ j > last)
             => j # i /\ (making[j] # "no" \/ j > last)
      BY <1>1, SpawnedFacts
    <2>2. \A j \in Instance!Instances : (making'[j] # "no" \/ j > last) => Untouched(j)'
      BY <1>1, <1>3, <2>1 DEF InstanceInv, NobodysInstances, Untouched
    <2>3. \A j \in Ready' : j \notin inUse /\ j \notin holders /\ requestCount[j] < MaxUses
      BY <1>2, <1>3, InstanceAssumption DEF InstanceInv, NobodysInstances, Untouched
    <2> QED
      BY <1>1, <1>3, <2>2, <2>3 DEF NobodysInstances
  <1>6. BeforeInitialized' /\ InstancesKnown'
    BY <1>1, <1>3, SpawnedFacts DEF InstanceInv, BeforeInitialized, InstancesKnown
  <1> QED
    BY <1>4, <1>5, <1>6 DEF InstanceInv

\* An instance is asked for, to acquire it or to replace one.
LEMMA AskFacts ==
    ASSUME InstanceInv, NEW why \in {"acquire", "release"}, Instance!Ask(why),
           Initializing = {}
    PROVE  /\ last' = last + 1 /\ last' \in 0 .. MaxInstances /\ PoolSize <= last'
           /\ last' \in Instance!Instances
           /\ making' \in [Instance!Instances -> {"no", "initialize", "acquire", "release"}]
           /\ \A j \in Instance!Instances :
                 making'[j] # "no" => making[j] # "no" \/ j > last
           /\ \A j \in Instance!Instances : j > last' => j > last /\ making'[j] = "no"
           /\ Initializing' = {}
  <1> USE InstanceAssumption
  <1>1. last \in 0 .. MaxInstances /\ PoolSize <= last
        /\ making \in [Instance!Instances -> {"no", "initialize", "acquire", "release"}]
        /\ \A j \in Instance!Instances : j > last => making[j] = "no"
    BY DEF InstanceInv, InstanceTypes, Instance!TypeOK
  <1>2. last < MaxInstances /\ last' = last + 1
        /\ making' = [making EXCEPT ![last + 1] = why]
    BY DEF Instance!Ask
  <1>3. last' \in 0 .. MaxInstances /\ PoolSize <= last' /\ last' \in Instance!Instances
    BY <1>1, <1>2 DEF Instance!Instances
  <1>4. \A j \in Instance!Instances :
           making'[j] = IF j = last' THEN why ELSE making[j]
    BY <1>1, <1>2, <1>3
  <1>5. \A j \in Instance!Instances : (j > last' => j > last /\ j # last')
                                      /\ (j = last' => j > last)
    BY <1>1, <1>2 DEF Instance!Instances
  <1>6. making' \in [Instance!Instances -> {"no", "initialize", "acquire", "release"}]
    BY <1>1, <1>2, <1>3
  <1>7. Initializing' = {}
    BY <1>4 DEF Initializing
  <1> QED
    BY <1>1, <1>2, <1>3, <1>4, <1>5, <1>6, <1>7

LEMMA SpawnStep ==
    ASSUME InstanceInv, Instance!acquireSpawns PROVE InstanceInv'
  <1>1. /\ Instance!Ask("acquire") /\ Initializing = {}
        /\ UNCHANGED <<available, inUse, entryMap, requestCount, made, instancesLost,
                       holders, used, instancesClosed, raced>>
    BY DEF Instance!acquireSpawns, Instance!Initialized, Initializing, Instance!poolState
  <1>2. InstanceTypes'
    BY <1>1, AskFacts DEF InstanceInv, InstanceTypes, Instance!TypeOK
  <1>3. NobodysInstances'
    BY <1>1, AskFacts DEF InstanceInv, NobodysInstances, Untouched, Ready
  <1>4. BeforeInitialized' /\ InstancesKnown'
    BY <1>1, AskFacts DEF InstanceInv, BeforeInitialized, InstancesKnown, Ready
  <1> QED
    BY <1>2, <1>3, <1>4 DEF InstanceInv

LEMMA ReleaseStep ==
    ASSUME InstanceInv, NEW i \in Instance!Instances, Instance!release(i)
    PROVE  InstanceInv'
  <1>1. /\ i \in holders /\ holders' = holders \ {i} /\ inUse' = inUse \ {i}
        /\ used' = used \ {i} /\ requestCount' = requestCount
        /\ UNCHANGED <<made, instancesLost, instancesClosed, raced>>
    BY DEF Instance!release, Instance!reset
  <1>2. /\ Initializing = {} /\ making[i] = "no" /\ ~(i > last) /\ i \notin Ready
    BY <1>1 DEF InstanceInv, NobodysInstances, BeforeInitialized, Untouched
  <1>3. CASE i \notin entryMap
    <2>1. UNCHANGED <<available, entryMap, making, last>>
      BY <1>3 DEF Instance!release
    <2>2. InstanceTypes'
      BY <1>1, <2>1 DEF InstanceInv, InstanceTypes, Instance!TypeOK
    <2>3. NobodysInstances'
      BY <1>1, <2>1 DEF InstanceInv, NobodysInstances, Untouched, Ready
    <2>4. BeforeInitialized' /\ InstancesKnown'
      BY <1>1, <1>2, <1>3, <2>1
         DEF InstanceInv, BeforeInitialized, InstancesKnown, Ready, Initializing
    <2> QED
      BY <2>2, <2>3, <2>4 DEF InstanceInv
  <1>4. CASE Instance!Ask("release") /\ entryMap' = entryMap \ {i} /\ available' = available
    <2>1. InstanceTypes'
      BY <1>1, <1>2, <1>4, AskFacts DEF InstanceInv, InstanceTypes, Instance!TypeOK
    <2>2. NobodysInstances'
      BY <1>1, <1>2, <1>4, AskFacts DEF InstanceInv, NobodysInstances, Untouched, Ready
    <2>3. BeforeInitialized' /\ InstancesKnown'
      BY <1>1, <1>2, <1>4, AskFacts
         DEF InstanceInv, BeforeInitialized, InstancesKnown, Ready
    <2> QED
      BY <2>1, <2>2, <2>3 DEF InstanceInv
  <1>5. CASE /\ available' = Append(available, i) /\ requestCount[i] < MaxUses
             /\ i \in entryMap /\ UNCHANGED <<entryMap, making, last>>
    <2>1. /\ available' \in Seq(Instance!Instances) /\ Instance!IsInjective(available')
          /\ Ready' = Ready \cup {i}
      BY <1>2, <1>5, ReadyPushed
         DEF InstanceInv, InstanceTypes, NobodysInstances, Instance!TypeOK
    <2>2. InstanceTypes'
      BY <1>1, <1>5, <2>1 DEF InstanceInv, InstanceTypes, Instance!TypeOK
    <2>3. NobodysInstances'
      BY <1>1, <1>2, <1>5, <2>1 DEF InstanceInv, NobodysInstances, Untouched
    <2>4. BeforeInitialized' /\ InstancesKnown'
      BY <1>1, <1>2, <1>5, <2>1
         DEF InstanceInv, BeforeInitialized, InstancesKnown, Initializing
    <2> QED
      BY <2>2, <2>3, <2>4 DEF InstanceInv
  <1>6. CASE i \in entryMap
    <2>1. PICK grown \in BOOLEAN :
             IF Instance!shouldRotate(i, grown)
             THEN Instance!Ask("release") /\ entryMap' = entryMap \ {i}
                  /\ available' = available
             ELSE available' = Append(available, i)
                  /\ UNCHANGED <<entryMap, making, last>>
      BY <1>6 DEF Instance!release
    <2>2. ~Instance!shouldRotate(i, grown) => requestCount[i] < MaxUses
      <3>1. requestCount[i] \in 0 .. MaxUses
        BY DEF InstanceInv, InstanceTypes, Instance!TypeOK
      <3> QED
        BY <3>1, InstanceAssumption DEF Instance!shouldRotate
    <2> QED
      BY <1>4, <1>5, <1>6, <2>1, <2>2
  <1> QED
    BY <1>3, <1>6

LEMMA CloseStep ==
    ASSUME InstanceInv, Instance!close PROVE InstanceInv'
  <1>1. /\ instancesClosed' /\ available' = <<>> /\ inUse' = {} /\ entryMap' = {}
        /\ UNCHANGED <<requestCount, making, made, instancesLost, holders, used, last, raced>>
    BY DEF Instance!close
  <1>2. Ready' = {} /\ Initializing' = Initializing
    BY <1>1 DEF Ready, Instance!ToSet, Initializing
  <1>3. InstanceTypes'
    BY <1>1 DEF InstanceInv, InstanceTypes, Instance!TypeOK
  <1>4. NobodysInstances'
    BY <1>1, <1>2 DEF InstanceInv, NobodysInstances, Untouched, Instance!IsInjective
  <1>5. BeforeInitialized' /\ InstancesKnown'
    BY <1>1, <1>2 DEF InstanceInv, BeforeInitialized, InstancesKnown
  <1> QED
    BY <1>3, <1>4, <1>5 DEF InstanceInv

LEMMA InstanceInvStep == InstanceInv /\ [Instance!Next]_(Instance!vars) => InstanceInv'
  <1> SUFFICES ASSUME InstanceInv, [Instance!Next]_(Instance!vars) PROVE InstanceInv'
    OBVIOUS
  <1>1. CASE UNCHANGED Instance!vars
    BY <1>1 DEF Instance!vars, Instance!poolState, InstanceInv, InstanceTypes,
       NobodysInstances, BeforeInitialized, InstancesKnown, Untouched, Ready, Initializing,
       Instance!TypeOK
  <1> QED
    BY <1>1, AcquireStep, SpawnStep, CloseStep, InitializeStep, SpawnFailsStep,
       AcquiredStep, ReleaseStep, ReplacedStep DEF Instance!Next

\* Neither pool loses or gains a place: every instance the pool of a thread knows is
\* ready or in use, none is handed out twice or with the state of another request, and
\* the pool of threads is as PoolCapacity says.
THEOREM PoolsAreConserved == MCSpec => []PoolsKeepCapacity
  <1>1. MCInit => InstanceInv
    BY InstanceInvInit DEF MCInit
  <1>2. InstanceInv /\ [MCNext]_allVars => InstanceInv'
    <2>1. [MCNext]_allVars => [Instance!Next]_(Instance!vars)
      BY DEF MCNext, allVars, instanceVars, ServerIdle, Instance!vars, Instance!poolState
    <2> QED
      BY <2>1, InstanceInvStep
  <1>3. InstanceInv => Instance!InstancesConserved
    BY DEF InstanceInv, InstanceTypes, NobodysInstances, InstancesKnown, Ready,
       Instance!InstancesConserved
  <1>4. [MCNext]_allVars => [Next]_vars
    BY DEF MCNext, allVars, ServerIdle
  <1>5. MCSpec => Spec
    BY <1>4, PTL DEF MCSpec, MCInit, Spec
  <1> QED
    BY <1>1, <1>2, <1>3, <1>5, PoolCapacity, PTL DEF MCSpec, PoolsKeepCapacity

-----------------------------------------------------------------------------
(***************************************************************************)
(* The thread and its memory.  An allocation lies below __heap_ptr, which  *)
(* only moves up while a request runs, so that the next one is clear of    *)
(* it, and its address has never been seen by the scopes and counts: each  *)
(* address is in one scope at most.  Between requests all of that is       *)
(* empty, and the heap is where the worker was ready unless a scope could  *)
(* not be popped.                                                          *)
(***************************************************************************)
\* An address is in one of the lists, and no address is in two places of them.
Listed(lists, a) == \E i \in 1 .. Len(lists) : \E j \in 1 .. Len(lists[i]) : lists[i][j] = a
EachOnce(lists) ==
    \A i, k \in 1 .. Len(lists) : \A j \in 1 .. Len(lists[i]), l \in 1 .. Len(lists[k]) :
        lists[i][j] = lists[k][l] => i = k /\ j = l

InScope(a) == Listed(scopes, a)
Blocks == [at : Nat, size : Nat \ {0}]
Entries == [id : Nat, status : {"own", "500"}]
Answers ==
    [id : 0 .. MaxCount, ok : BOOLEAN, needsRestart : BOOLEAN,
     response : [Worker!Response -> 0 .. MaxCount]]

WorkerTypes ==
    /\ phase \in {"starting", "idle", "running", "rotating", "fatal"}
    /\ scoped \in BOOLEAN /\ limit \in Limits /\ trapped \in BOOLEAN
    /\ heap \in HeapStart .. MaxSize + 1 /\ buffer \in InitialSize .. MaxSize
    /\ base \in [heap : HeapStart .. MaxSize + 1, buffer : InitialSize .. MaxSize]
    /\ snapshot \in 0 .. MaxSize + 1
    /\ blocks \in Seq(Blocks) /\ scopes \in Seq(Seq(Worker!Addresses))
    /\ refs \in [Worker!Addresses -> Nat] /\ held \in [Worker!Addresses -> 0 .. 1]
    /\ freed \subseteq Worker!Addresses
    /\ fields \in [Worker!Fields -> 0 .. MaxCount] /\ count \in 0 .. MaxCount
    /\ answer \in Answers
    /\ log \in Seq(Entries) /\ Len(log) <= LogSize

\* What a thread that runs no request keeps of the last one.
Settled ==
    phase # "running" =>
        /\ blocks = <<>> /\ scopes = <<>> /\ freed = {}
        /\ refs = Worker!Nothing /\ held = Worker!Nothing

Retained ==
    /\ base.heap <= heap /\ base.buffer <= buffer
    /\ phase = "starting" => count = 0 /\ \A f \in Worker!Fields : fields[f] = 0
    /\ phase = "running" =>
          /\ count < MaxCount
          /\ scoped => /\ base.heap <= snapshot /\ snapshot <= heap
                       /\ ~trapped => snapshot = base.heap
    /\ phase # "running" /\ scoped /\ ~trapped => heap = base.heap
    /\ Worker!RotatesInTime /\ Worker!LogsEach /\ Worker!OwnState

\* Blocks one after the other, below h and within b words of memory.
Stacked(s, h, b) ==
    /\ s \in Seq(Blocks)
    /\ \A i \in 1 .. Len(s) : s[i].at + s[i].size <= h /\ s[i].at + s[i].size <= b
    /\ \A i, j \in 1 .. Len(s) : i < j => s[i].at + s[i].size <= s[j].at

Allocated == Stacked(blocks, heap, buffer)

Counted ==
    /\ \A a \in Worker!Addresses : a >= heap =>
          refs[a] = 0 /\ held[a] = 0 /\ a \notin freed /\ ~InScope(a)
    /\ \A a \in Worker!Addresses : refs[a] = held[a] + (IF InScope(a) THEN 1 ELSE 0)
    /\ \A a \in freed : held[a] = 0 /\ ~InScope(a)
    /\ EachOnce(scopes)

WorkerInv == WorkerTypes /\ Settled /\ Retained /\ Allocated /\ Counted

LEMMA WorkerArith ==
    \A n \in Nat : Worker!Aligned(n) \in Nat /\ n <= Worker!Aligned(n) /\ Worker!Aligned(n) <= n + 1
  <1> SUFFICES ASSUME NEW n \in Nat
               PROVE  /\ Worker!Aligned(n) \in Nat
                      /\ n <= Worker!Aligned(n) /\ Worker!Aligned(n) <= n + 1
    OBVIOUS
  <1>1. n % 2 \in 0 .. 1
    OBVIOUS
  <1> QED
    BY <1>1 DEF Worker!Aligned

LEMMA WorkerLarger ==
    \A m, n \in Nat : /\ Worker!Larger(m, n) \in {m, n}
                      /\ m <= Worker!Larger(m, n) /\ n <= Worker!Larger(m, n)
  BY DEF Worker!Larger

\* What the assumption says of the numbers, in the form the steps need.
LEMMA WorkerNumbers ==
    /\ HeapStart \in Nat /\ InitialSize \in Nat /\ MaxSize \in Nat /\ MaxCount \in Nat
    /\ MaxCount > 0 /\ MaxGrowth \in Nat /\ LogSize \in Nat /\ LogSize > 0
    /\ HeapStart <= InitialSize /\ InitialSize <= MaxSize
  BY WorkerAssumption

LEMMA NothingCounted ==
    /\ Worker!Nothing \in [Worker!Addresses -> Nat]
    /\ Worker!Nothing \in [Worker!Addresses -> 0 .. 1]
    /\ \A a \in Worker!Addresses : Worker!Nothing[a] = 0
  BY DEF Worker!Nothing

LEMMA WorkerInvInit == MCInit => WorkerInv
  <1> SUFFICES ASSUME Worker!Init PROVE WorkerInv
    BY DEF MCInit
  <1>1. /\ phase = "starting" /\ scoped \in BOOLEAN /\ limit \in Limits
        /\ heap = HeapStart /\ buffer = InitialSize
        /\ base = [heap |-> HeapStart, buffer |-> InitialSize] /\ snapshot = 0
        /\ blocks = <<>> /\ scopes = <<>> /\ freed = {}
        /\ refs = Worker!Nothing /\ held = Worker!Nothing
        /\ fields = [f \in Worker!Fields |-> 0]
        /\ count = 0 /\ trapped = FALSE /\ answer = Worker!NoAnswer /\ log = <<>>
    BY DEF Worker!Init
  <1>2. /\ heap \in HeapStart .. MaxSize + 1 /\ buffer \in InitialSize .. MaxSize
        /\ base \in [heap : HeapStart .. MaxSize + 1, buffer : InitialSize .. MaxSize]
        /\ snapshot \in 0 .. MaxSize + 1 /\ count \in 0 .. MaxCount
    BY <1>1, WorkerNumbers
  <1>3. answer \in Answers /\ \A f \in Worker!Response : answer.response[f] = 0
    BY <1>1, WorkerNumbers DEF Worker!NoAnswer, Worker!createDefaultResponse, Answers
  <1>4. /\ blocks \in Seq(Blocks) /\ scopes \in Seq(Seq(Worker!Addresses))
        /\ log \in Seq(Entries) /\ Len(log) = 0 /\ Len(blocks) = 0 /\ Len(scopes) = 0
    BY <1>1
  <1>5. fields \in [Worker!Fields -> 0 .. MaxCount]
    BY <1>1, WorkerNumbers
  <1>6. WorkerTypes
    <2>1. Len(log) <= LogSize
      BY <1>4, WorkerNumbers
    <2>2. /\ phase \in {"starting", "idle", "running", "rotating", "fatal"}
          /\ trapped \in BOOLEAN /\ freed \subseteq Worker!Addresses
          /\ refs \in [Worker!Addresses -> Nat] /\ held \in [Worker!Addresses -> 0 .. 1]
      BY <1>1, NothingCounted
    <2> QED
      BY <1>1, <1>2, <1>3, <1>4, <1>5, <2>1, <2>2, Zenon DEF WorkerTypes
  <1>7. Settled /\ Allocated
    BY <1>1, <1>4 DEF Settled, Allocated, Stacked
  <1>8. Retained
    BY <1>1, <1>2, <1>3, <1>4, WorkerNumbers DEF Retained, Worker!RotatesInTime,
       Worker!LogsEach, Worker!OwnState
  <1>9. Counted
    BY <1>1, <1>4, NothingCounted DEF Counted, InScope, Listed, EachOnce
  <1> QED
    BY <1>6, <1>7, <1>8, <1>9 DEF WorkerInv

-----------------------------------------------------------------------------
\* The parts of the state a request writes carry its number.
OwnFields ==
    /\ fields' \in [Worker!Fields -> 0 .. MaxCount]
    /\ \A f \in Worker!Fields : fields'[f] \in {0, Worker!current}

LEMMA OwnFieldsFacts ==
    ASSUME WorkerInv, phase = "running"
    PROVE  /\ UNCHANGED fields => OwnFields
           /\ \A parts : fields' = Worker!Written(parts) => OwnFields
  <1>1. count \in Nat /\ count < MaxCount /\ Worker!current = count + 1
    BY WorkerNumbers DEF WorkerInv, WorkerTypes, Retained, Worker!current
  <1>2. /\ Worker!current \in 0 .. MaxCount
        /\ fields \in [Worker!Fields -> 0 .. MaxCount]
        /\ \A f \in Worker!Fields : fields[f] \in {0, Worker!current}
    BY <1>1, WorkerNumbers DEF WorkerInv, WorkerTypes, Retained, Worker!OwnState
  <1> QED
    BY <1>2 DEF OwnFields, Worker!Written

\* The end of a request: everything it kept is gone, the heap goes back unless the scope
\* cannot be popped, and the thread goes on only within its limits.
LEMMA FinishStep ==
    ASSUME WorkerInv, phase = "running", OwnFields,
           NEW ok \in BOOLEAN, NEW h \in heap .. MaxSize + 1, NEW b \in buffer .. MaxSize,
           Worker!Finish(ok, h, b)
    PROVE  WorkerInv'
  <1>1. PICK popped \in BOOLEAN :
           /\ popped => scoped
           /\ heap' = (IF popped THEN snapshot ELSE h) /\ buffer' = b
           /\ trapped' = (trapped \/ (scoped /\ ~popped))
           /\ phase' = (IF Worker!shouldRotate(Worker!current,
                            Worker!computeRetainedGrowth(heap', b)) THEN "rotating" ELSE "idle")
    BY DEF Worker!Finish
  <1>2. /\ scopes' = <<>> /\ refs' = Worker!Nothing /\ count' = Worker!current
        /\ blocks' = <<>> /\ held' = Worker!Nothing /\ freed' = {}
        /\ UNCHANGED <<scoped, limit, base, snapshot>>
        /\ log' = Worker!recordRequest(Worker!current, IF ok THEN "own" ELSE "500")
    BY DEF Worker!Finish, Worker!resetMemoryRuntime, Worker!settings
  <1>3. /\ answer'.id = Worker!current /\ answer' \in Answers
        /\ \A f \in Worker!Response : answer'.response[f] \in {0, Worker!current}
    <2>1. PICK restart \in BOOLEAN :
             answer' = [id |-> Worker!current, ok |-> ok, needsRestart |-> restart,
                        response |-> IF ok THEN [f \in Worker!Response |-> fields'[f]]
                                     ELSE Worker!createDefaultResponse]
      BY DEF Worker!Finish, Worker!shouldRotate
    <2>2. Worker!current \in 0 .. MaxCount
      BY WorkerNumbers DEF WorkerInv, WorkerTypes, Retained, Worker!current
    <2>3. \A f \in Worker!Response : f \in Worker!Fields
      BY DEF Worker!Fields
    <2>4. /\ answer'.response \in [Worker!Response -> 0 .. MaxCount]
          /\ \A f \in Worker!Response : answer'.response[f] \in {0, Worker!current}
      BY <2>1, <2>2, <2>3, WorkerNumbers DEF OwnFields, Worker!createDefaultResponse
    <2> QED
      BY <2>1, <2>2, <2>4 DEF Answers
  <1>4. /\ count \in Nat /\ count < MaxCount /\ Worker!current = count + 1
        /\ heap \in Nat /\ base.heap \in Nat /\ snapshot \in Nat /\ buffer \in Nat
        /\ base.buffer \in Nat /\ HeapStart <= base.heap
        /\ base.heap <= heap /\ base.buffer <= buffer /\ InitialSize <= buffer
        /\ heap <= MaxSize + 1 /\ HeapStart <= heap
    BY WorkerNumbers DEF WorkerInv, WorkerTypes, Retained, Worker!current
  <1>5. /\ scoped => base.heap <= snapshot /\ snapshot <= heap
        /\ scoped /\ ~trapped => snapshot = base.heap
        /\ scoped \in BOOLEAN /\ trapped \in BOOLEAN
    BY DEF WorkerInv, WorkerTypes, Retained
  <1>6. /\ base.heap <= heap' /\ heap' \in HeapStart .. MaxSize + 1
        /\ base.buffer <= buffer' /\ buffer' \in InitialSize .. MaxSize
    <2>1. CASE popped
      BY <1>1, <1>4, <1>5, <2>1, WorkerNumbers
    <2>2. CASE ~popped
      BY <1>1, <1>4, <2>2, WorkerNumbers
    <2> QED
      BY <2>1, <2>2
  <1>7. scoped /\ ~trapped' => heap' = base.heap
    BY <1>1, <1>5
  <1>8. log' \in Seq(Entries) /\ Len(log') <= LogSize /\ Worker!LogsEach'
    <2> DEFINE kept == IF Len(log) = LogSize THEN Tail(log) ELSE log
               entry == [id |-> Worker!current, status |-> IF ok THEN "own" ELSE "500"]
    <2>1. /\ log \in Seq(Entries) /\ Len(log) \in Nat /\ Len(log) <= LogSize
          /\ \A i \in 1 .. Len(log) : log[i].id = count - Len(log) + i
      BY DEF WorkerInv, WorkerTypes, Retained, Worker!LogsEach
    <2>2. log' = Append(kept, entry)
      BY <1>2 DEF Worker!recordRequest
    <2>3. entry \in Entries /\ entry.id = count + 1
      BY <1>4 DEF Entries
    <2>4. /\ kept \in Seq(Entries) /\ Len(kept) \in Nat /\ Len(kept) < LogSize
          /\ \A i \in 1 .. Len(kept) : kept[i].id = count - Len(kept) + i
      <3>1. CASE Len(log) = LogSize
        <4>1. /\ kept = Tail(log) /\ log # <<>>
              /\ kept \in Seq(Entries) /\ Len(kept) = Len(log) - 1
              /\ \A i \in 1 .. Len(kept) : kept[i] = log[i + 1]
          BY <2>1, <3>1, WorkerNumbers
        <4>2. \A i \in 1 .. Len(kept) : i + 1 \in 1 .. Len(log)
          BY <2>1, <4>1
        <4> HIDE DEF kept
        <4>3. \A i \in 1 .. Len(kept) : kept[i].id = count - Len(log) + (i + 1)
          BY <2>1, <4>1, <4>2
        <4>4. Len(kept) \in Nat /\ Len(kept) < LogSize
          BY <2>1, <3>1, <4>1, WorkerNumbers
        <4> QED
          BY <1>4, <2>1, <4>1, <4>3, <4>4
      <3>2. CASE Len(log) # LogSize
        BY <2>1, <3>2, WorkerNumbers
      <3> QED
        BY <3>1, <3>2
    <2> HIDE DEF kept, entry
    <2>5. /\ log' \in Seq(Entries) /\ Len(log') = Len(kept) + 1 /\ log'[Len(kept) + 1] = entry
          /\ \A i \in 1 .. Len(kept) : log'[i] = kept[i]
      BY <2>2, <2>3, <2>4
    <2>6. Len(log') <= LogSize
      BY <2>4, <2>5, WorkerNumbers
    <2>7. ASSUME NEW i \in 1 .. Len(log') PROVE log'[i].id = count' - Len(log') + i
      <3>1. CASE i = Len(kept) + 1
        <4>1. log'[i].id = count + 1 /\ count' = count + 1 /\ Len(log') = i
          BY <1>2, <1>4, <2>3, <2>5, <3>1
        <4> QED
          BY <1>4, <4>1
      <3>2. CASE i \in 1 .. Len(kept)
        <4>1. log'[i] = kept[i]
          BY <2>5, <3>2
        <4>2. log'[i].id = count - Len(kept) + i
          BY <2>4, <3>2, <4>1
        <4>3. /\ count \in Nat /\ Len(kept) \in Nat /\ i \in Nat
              /\ count' = count + 1 /\ Len(log') = Len(kept) + 1
          BY <1>2, <1>4, <2>4, <2>5, <3>2
        <4> QED
          BY <4>2, <4>3
      <3> QED
        BY <2>4, <2>5, <3>1, <3>2
    <2> QED
      BY <2>5, <2>6, <2>7 DEF Worker!LogsEach
  <1>9. Worker!RotatesInTime'
    <2> SUFFICES ASSUME phase' = "idle"
                 PROVE  /\ count' < MaxCount
                        /\ heap' - base.heap <= MaxGrowth /\ buffer' - base.buffer <= MaxGrowth
      BY <1>2 DEF Worker!RotatesInTime
    <2>1. ~Worker!shouldRotate(Worker!current, Worker!computeRetainedGrowth(heap', b))
      BY <1>1
    <2>2. /\ ~(Worker!current >= MaxCount)
          /\ ~(Worker!computeRetainedGrowth(heap', b) > MaxGrowth)
      BY <2>1 DEF Worker!shouldRotate
    <2>3. count' < MaxCount
      BY <1>2, <1>4, <2>2, WorkerNumbers
    <2>4. heap' \in Nat /\ b \in Nat /\ buffer' = b
      BY <1>1, <1>4, <1>6, WorkerNumbers
    <2>5. Worker!computeRetainedGrowth(heap', b)
             = Worker!Larger(IF heap' > base.heap THEN heap' - base.heap ELSE 0,
                             IF b > base.buffer THEN b - base.buffer ELSE 0)
      BY DEF Worker!computeRetainedGrowth
    <2>6. PICK g1 \in Nat, g2 \in Nat :
             /\ g1 = (IF heap' > base.heap THEN heap' - base.heap ELSE 0)
             /\ g2 = (IF b > base.buffer THEN b - base.buffer ELSE 0)
      BY <1>4, <2>4
    <2>7. ~(Worker!Larger(g1, g2) > MaxGrowth)
      BY <2>2, <2>5, <2>6
    <2>8. g1 <= MaxGrowth /\ g2 <= MaxGrowth
      BY <2>6, <2>7, WorkerLarger, WorkerNumbers DEF Worker!Larger
    <2>9. heap' - base.heap <= MaxGrowth /\ b - base.buffer <= MaxGrowth
      BY <1>4, <2>4, <2>6, <2>8, WorkerNumbers
    <2> QED
      BY <2>3, <2>4, <2>9
  <1>10. phase' \in {"rotating", "idle"}
    BY <1>1
  <1>11. WorkerTypes'
    <2>1. count' \in 0 .. MaxCount
      BY <1>2, <1>4, WorkerNumbers
    <2>2. trapped' \in BOOLEAN
      BY <1>1
    <2>3. /\ blocks' \in Seq(Blocks) /\ scopes' \in Seq(Seq(Worker!Addresses))
          /\ freed' \subseteq Worker!Addresses
      BY <1>2
    <2> QED
      BY <1>2, <1>3, <1>6, <1>8, <1>10, <2>1, <2>2, <2>3, NothingCounted
      DEF WorkerInv, WorkerTypes, OwnFields
  <1>12. Worker!OwnState'
    BY <1>3, <1>10 DEF Worker!OwnState
  <1>13. Retained'
    BY <1>2, <1>6, <1>7, <1>8, <1>9, <1>10, <1>12 DEF Retained
  <1>14. Settled' /\ Allocated'
    BY <1>2 DEF Settled, Allocated, Stacked
  <1>15. Counted'
    BY <1>2, NothingCounted DEF Counted, InScope, Listed, EachOnce
  <1> QED
    BY <1>11, <1>13, <1>14, <1>15 DEF WorkerInv

-----------------------------------------------------------------------------
\* While a request runs its settings stay; and what it allocates or writes by itself
\* leaves the counts as they are.
LEMMA RunningStep ==
    ASSUME WorkerInv, phase = "running", OwnFields,
           heap' \in heap .. MaxSize + 1, buffer' \in buffer .. MaxSize,
           blocks' \in Seq(Blocks), Allocated',
           scopes' \in Seq(Seq(Worker!Addresses)), freed' \subseteq Worker!Addresses,
           refs' \in [Worker!Addresses -> Nat], held' \in [Worker!Addresses -> 0 .. 1],
           Counted',
           UNCHANGED <<phase, scoped, limit, base, snapshot, count, trapped, answer, log>>
    PROVE  WorkerInv'
  <1>1. /\ heap \in HeapStart .. MaxSize + 1 /\ buffer \in InitialSize .. MaxSize
        /\ base \in [heap : HeapStart .. MaxSize + 1, buffer : InitialSize .. MaxSize]
        /\ snapshot \in 0 .. MaxSize + 1
        /\ base.heap <= heap /\ base.buffer <= buffer
    BY DEF WorkerInv, WorkerTypes, Retained
  <1>2. /\ heap' \in HeapStart .. MaxSize + 1 /\ buffer' \in InitialSize .. MaxSize
        /\ base.heap <= heap' /\ base.buffer <= buffer' /\ heap <= heap'
        /\ \A n \in Nat : n <= heap => n <= heap'
    BY <1>1, WorkerNumbers
  <1>3. WorkerTypes'
    BY <1>2 DEF WorkerInv, WorkerTypes, OwnFields
  <1>4. Settled'
    BY DEF Settled
  <1>5. Retained'
    <2>1. Worker!RotatesInTime' /\ Worker!LogsEach'
      BY DEF WorkerInv, Retained, Worker!RotatesInTime, Worker!LogsEach
    <2>2. Worker!OwnState'
      BY DEF WorkerInv, Retained, Worker!OwnState, OwnFields, Worker!current
    <2>3. /\ count < MaxCount
          /\ scoped => base.heap <= snapshot /\ snapshot <= heap
          /\ scoped /\ ~trapped => snapshot = base.heap
      BY DEF WorkerInv, Retained
    <2>4. scoped => snapshot <= heap'
      BY <1>1, <1>2, <2>3
    <2> QED
      BY <1>2, <2>1, <2>2, <2>3, <2>4 DEF Retained
  <1> QED
    BY <1>3, <1>4, <1>5 DEF WorkerInv

LEMMA AllocStep ==
    ASSUME WorkerInv, phase = "running", OwnFields,
           heap' \in heap .. MaxSize + 1, buffer' \in buffer .. MaxSize,
           blocks' \in Seq(Blocks), Allocated',
           UNCHANGED <<phase, scopes, refs, held, freed, scoped, limit, base, snapshot,
                       count, trapped, answer, log>>
    PROVE  WorkerInv'
  <1>1. \A a \in Worker!Addresses : a >= heap' => a >= heap
    BY WorkerNumbers DEF WorkerInv, WorkerTypes, Worker!Addresses
  <1>2. Counted'
    BY <1>1 DEF WorkerInv, Counted, InScope
  <1>3. /\ scopes' \in Seq(Seq(Worker!Addresses)) /\ freed' \subseteq Worker!Addresses
        /\ refs' \in [Worker!Addresses -> Nat] /\ held' \in [Worker!Addresses -> 0 .. 1]
    BY DEF WorkerInv, WorkerTypes
  <1> QED
    BY <1>2, <1>3, RunningStep

\* A bridge function writes a part of the state.
LEMMA WritesStep ==
    ASSUME WorkerInv, NEW parts, Worker!Writes(parts)
    PROVE  WorkerInv'
  <1>1. /\ phase = "running" /\ fields' = Worker!Written(parts)
        /\ UNCHANGED <<phase, heap, buffer, blocks, scopes, refs, held, freed, scoped, limit,
                       base, snapshot, count, trapped, answer, log>>
    BY DEF Worker!Writes, Worker!memory, Worker!counting, Worker!settings
  <1>2. OwnFields
    BY <1>1, OwnFieldsFacts
  <1>3. /\ heap' \in heap .. MaxSize + 1 /\ buffer' \in buffer .. MaxSize
        /\ blocks' \in Seq(Blocks) /\ Allocated'
    BY <1>1, WorkerNumbers DEF WorkerInv, WorkerTypes, Allocated, Stacked
  <1> QED
    BY <1>1, <1>2, <1>3, AllocStep

\* One allocation at __heap_ptr is clear of all earlier ones.
LEMMA BlockAdded ==
    ASSUME NEW s, NEW h0 \in Nat, NEW b0 \in Nat, Stacked(s, h0, b0),
           NEW size \in Nat \ {0}, NEW at \in Nat, at >= h0,
           NEW h \in Nat, NEW b \in Nat, at + size <= h, at + size <= b
    PROVE  Stacked(Append(s, [at |-> at, size |-> size]), h, b)
  <1> DEFINE t == Append(s, [at |-> at, size |-> size])
  <1>1. [at |-> at, size |-> size] \in Blocks
    BY DEF Blocks
  <1>2. /\ t \in Seq(Blocks) /\ Len(t) = Len(s) + 1 /\ Len(s) \in Nat
        /\ t[Len(s) + 1] = [at |-> at, size |-> size]
        /\ \A i \in 1 .. Len(s) : t[i] = s[i]
    BY <1>1 DEF Stacked
  <1> HIDE DEF t
  <1>3. ASSUME NEW i \in 1 .. Len(s)
        PROVE  /\ s[i].at + s[i].size <= at
               /\ s[i].at + s[i].size <= h /\ s[i].at + s[i].size <= b
    <2>1. s[i] \in Blocks /\ s[i].at + s[i].size <= h0
      BY DEF Stacked
    <2>2. s[i].at \in Nat /\ s[i].size \in Nat
      BY <2>1 DEF Blocks
    <2> QED
      BY <2>1, <2>2
  <1>4. ASSUME NEW i \in 1 .. Len(t)
        PROVE  t[i].at + t[i].size <= h /\ t[i].at + t[i].size <= b
    <2>1. CASE i \in 1 .. Len(s)
      BY <1>2, <1>3, <2>1
    <2>2. CASE i = Len(s) + 1
      BY <1>2, <2>2
    <2> QED
      BY <1>2, <2>1, <2>2
  <1>5. ASSUME NEW i \in 1 .. Len(t), NEW j \in 1 .. Len(t), i < j
        PROVE  t[i].at + t[i].size <= t[j].at
    <2>1. i \in 1 .. Len(s)
      BY <1>2, <1>5
    <2>2. CASE j \in 1 .. Len(s)
      BY <1>2, <1>5, <2>1, <2>2 DEF Stacked
    <2>3. CASE j = Len(s) + 1
      BY <1>2, <1>3, <2>1, <2>3
    <2> QED
      BY <1>2, <2>2, <2>3
  <1>6. Stacked(t, h, b)
    BY <1>2, <1>4, <1>5 DEF Stacked
  <1> QED
    BY <1>6 DEF t

LEMMA AllocatedBelow ==
    ASSUME WorkerInv
    PROVE  /\ Stacked(blocks, heap, buffer)
           /\ heap \in Nat /\ heap >= HeapStart /\ buffer \in InitialSize .. MaxSize /\ buffer \in Nat
  BY WorkerNumbers DEF WorkerInv, WorkerTypes, Allocated

\* After an allocation the host has moved __heap_ptr past it, whatever malloc did.
LEMMA HeapFacts ==
    ASSUME NEW ptr \in Nat, NEW size \in Nat, ptr + size <= MaxSize,
           NEW h \in {ptr, Worker!Aligned(ptr + size)}
    PROVE  /\ Worker!bumpHeapPtr(h, ptr, size) = Worker!Aligned(ptr + size)
           /\ Worker!Aligned(ptr + size) \in ptr + size .. MaxSize + 1
           /\ Worker!Aligned(ptr + size) \in Nat
  <1>1. /\ Worker!Aligned(ptr + size) \in Nat /\ ptr + size <= Worker!Aligned(ptr + size)
        /\ Worker!Aligned(ptr + size) <= ptr + size + 1
    BY WorkerArith
  <1> QED
    BY <1>1, WorkerNumbers DEF Worker!bumpHeapPtr, Worker!Larger

\* malloc as the host reaches it: the block is inside the memory, and the next one will
\* not overlap it, whether or not the program's allocator has moved __heap_ptr.
LEMMA AllocateFacts ==
    ASSUME WorkerInv, NEW size \in Nat \ {0}, Worker!Allocate(size)
    PROVE  /\ phase = "running" /\ heap \in Worker!Addresses
           /\ heap' \in heap + 1 .. MaxSize + 1 /\ buffer' \in buffer .. MaxSize
           /\ blocks' \in Seq(Blocks) /\ Allocated'
  <1>1. PICK ptr, mem, old :
           /\ ptr \in Nat /\ mem \in Nat /\ ptr = heap /\ mem = buffer /\ old = blocks
           /\ Stacked(old, ptr, mem)
    BY AllocatedBelow
  <1>2. PICK h \in {ptr, Worker!Aligned(ptr + size)} :
           heap' = Worker!bumpHeapPtr(h, ptr, size)
    BY <1>1 DEF Worker!Allocate, Worker!wrapMalloc
  <1>3. /\ phase = "running" /\ ~(ptr + size > MaxSize)
        /\ blocks' = Append(old, [at |-> ptr, size |-> size])
        /\ buffer' = Worker!Larger(mem, ptr + size)
    BY <1>1 DEF Worker!Allocate, Worker!Fails, Worker!Grown
  <1>4. ptr \in Nat /\ ptr + size <= MaxSize /\ ptr >= HeapStart /\ ptr \in Worker!Addresses
    BY <1>1, <1>3, AllocatedBelow, WorkerNumbers DEF Worker!Addresses
  <1>5. heap' \in ptr + size .. MaxSize + 1 /\ heap' \in Nat
    BY <1>2, <1>4, HeapFacts
  <1>6. heap' \in ptr + 1 .. MaxSize + 1
    BY <1>4, <1>5, WorkerNumbers
  <1>7. buffer' \in mem .. MaxSize /\ ptr + size <= buffer' /\ buffer' \in Nat
    BY <1>1, <1>3, <1>4, AllocatedBelow, WorkerLarger, WorkerNumbers
  <1>8. PICK top \in Nat, end \in Nat : top = heap' /\ end = buffer'
    BY <1>5, <1>7
  <1>9. ptr + size <= top /\ ptr + size <= end /\ ptr >= ptr
    BY <1>4, <1>5, <1>7, <1>8
  <1>10. Stacked(Append(old, [at |-> ptr, size |-> size]), top, end)
    BY <1>1, <1>9, BlockAdded
  <1>11. Stacked(blocks', heap', buffer')
    BY <1>3, <1>8, <1>10
  <1> QED
    BY <1>1, <1>3, <1>4, <1>6, <1>7, <1>11 DEF Allocated, Stacked

LEMMA WriteOrThrowStep ==
    ASSUME WorkerInv, phase = "running", OwnFields, NEW size \in Nat \ {0},
           Worker!WriteOrThrow(size)
    PROVE  WorkerInv'
  <1>1. CASE /\ Worker!Allocate(size)
             /\ UNCHANGED <<phase, scopes, refs, held, freed, scoped, limit, base, snapshot,
                            count, trapped, answer, log>>
    <2>1. /\ heap' \in heap + 1 .. MaxSize + 1 /\ buffer' \in buffer .. MaxSize
          /\ blocks' \in Seq(Blocks) /\ Allocated'
      BY <1>1, AllocateFacts
    <2>2. heap' \in heap .. MaxSize + 1
      BY <2>1, AllocatedBelow, WorkerNumbers
    <2> QED
      BY <1>1, <2>1, <2>2, AllocStep
  <1>2. CASE Worker!Finish(FALSE, heap, buffer)
    <2>1. PICK h \in heap .. MaxSize + 1, b \in buffer .. MaxSize : h = heap /\ b = buffer
      BY WorkerNumbers DEF WorkerInv, WorkerTypes
    <2>2. Worker!Finish(FALSE, h, b)
      BY <1>2, <2>1
    <2> QED
      BY <2>2, FinishStep
  <1> QED
    BY <1>1, <1>2 DEF Worker!WriteOrThrow, Worker!counting, Worker!settings

-----------------------------------------------------------------------------
LEMMA WorkerStarts ==
    ASSUME WorkerInv, Worker!initialize \/ Worker!InitFails
    PROVE  WorkerInv'
  <1>1. CASE Worker!InitFails
    <2>1. /\ phase = "starting" /\ phase' = "fatal"
          /\ UNCHANGED <<heap, buffer, blocks, scopes, refs, held, freed, scoped, limit, base,
                         snapshot, fields, count, trapped, answer, log>>
      BY <1>1 DEF Worker!InitFails, Worker!memory, Worker!counting, Worker!settings
    <2>2. WorkerTypes' /\ Settled' /\ Allocated'
      BY <2>1 DEF WorkerInv, WorkerTypes, Settled, Allocated, Stacked
    <2>3. Retained'
      BY <2>1 DEF WorkerInv, Retained, Worker!RotatesInTime, Worker!LogsEach, Worker!OwnState,
         Worker!current
    <2>4. Counted'
      BY <2>1 DEF WorkerInv, Counted, InScope
    <2> QED
      BY <2>2, <2>3, <2>4 DEF WorkerInv
  <1>2. CASE Worker!initialize
    <2>1. /\ phase = "starting" /\ phase' = "idle"
          /\ UNCHANGED <<blocks, scopes, refs, held, freed, scoped, limit, snapshot, fields,
                         count, trapped, answer, log>>
      BY <1>2 DEF Worker!initialize, Worker!counting
    <2>2. PICK kept \in {0} \cup Sizes :
             /\ HeapStart + Worker!Aligned(kept) <= MaxSize
             /\ heap' = HeapStart + Worker!Aligned(kept)
             /\ buffer' = Worker!Larger(Worker!preGrowMemory(InitialSize),
                                        HeapStart + Worker!Aligned(kept))
             /\ base' = [heap |-> heap', buffer |-> buffer']
      BY <1>2 DEF Worker!initialize
    <2>3. kept \in Nat /\ Worker!Aligned(kept) \in Nat
      BY WorkerArith, WorkerAssumption
    <2>4. heap' \in HeapStart .. MaxSize /\ heap' \in Nat
      BY <2>2, <2>3, WorkerNumbers
    <2>5. /\ Worker!preGrowMemory(InitialSize) \in InitialSize .. MaxSize
          /\ Worker!preGrowMemory(InitialSize) \in Nat
      BY WorkerAssumption DEF Worker!preGrowMemory
    <2>6. buffer' \in InitialSize .. MaxSize
      BY <2>2, <2>4, <2>5, WorkerLarger, WorkerNumbers
    <2>7. /\ heap' \in HeapStart .. MaxSize + 1 /\ base'.heap = heap' /\ base'.buffer = buffer'
          /\ base' \in [heap : HeapStart .. MaxSize + 1, buffer : InitialSize .. MaxSize]
          /\ base'.heap <= heap' /\ base'.buffer <= buffer'
      BY <2>2, <2>4, <2>6, WorkerNumbers
    <2>8. /\ count = 0 /\ blocks = <<>> /\ scopes = <<>> /\ freed = {}
          /\ refs = Worker!Nothing /\ held = Worker!Nothing
      BY <2>1 DEF WorkerInv, Settled, Retained
    <2>9. WorkerTypes'
      BY <2>1, <2>6, <2>7 DEF WorkerInv, WorkerTypes
    <2>10. Worker!RotatesInTime'
      <3>1. count' < MaxCount
        BY <2>1, <2>8, WorkerNumbers
      <3>2. heap' - base'.heap = 0 /\ buffer' - base'.buffer = 0
        <4>1. heap' \in Nat /\ buffer' \in Nat
          BY <2>4, <2>6, WorkerNumbers
        <4>2. \A k \in Nat : k - k = 0
          OBVIOUS
        <4> QED
          BY <2>7, <4>1, <4>2
      <3> QED
        BY <3>1, <3>2, WorkerNumbers DEF Worker!RotatesInTime
    <2>11. Worker!LogsEach' /\ Worker!OwnState'
      BY <2>1 DEF WorkerInv, Retained, Worker!LogsEach, Worker!OwnState
    <2>12. Retained'
      BY <2>1, <2>7, <2>10, <2>11 DEF Retained
    <2>13. Settled' /\ Allocated'
      BY <2>1, <2>8 DEF Settled, Allocated, Stacked
    <2>14. Counted'
      BY <2>1, <2>8, NothingCounted DEF Counted, InScope, Listed, EachOnce
    <2> QED
      BY <2>9, <2>12, <2>13, <2>14 DEF WorkerInv
  <1> QED
    BY <1>1, <1>2

\* What the request before wrote is replaced.
LEMMA BeginStep ==
    ASSUME WorkerInv, Worker!Begin
    PROVE  WorkerInv'
  <1>1. /\ phase = "idle" /\ phase' = "running"
        /\ snapshot' = (IF scoped THEN heap ELSE 0)
        /\ fields' = Worker!resetRequestState(Worker!setRequestContext(fields))
        /\ answer' = Worker!NoAnswer
        /\ UNCHANGED <<heap, buffer, blocks, scopes, refs, held, freed, scoped, limit, base,
                       count, trapped, log>>
    BY DEF Worker!Begin, Worker!ScopeEnter, Worker!memory, Worker!counting
  <1>2. /\ count \in Nat /\ count < MaxCount /\ Worker!current = count + 1
        /\ Worker!current \in 0 .. MaxCount
    BY <1>1, WorkerNumbers DEF WorkerInv, WorkerTypes, Retained, Worker!RotatesInTime,
       Worker!current
  <1>3. /\ fields' \in [Worker!Fields -> 0 .. MaxCount]
        /\ \A f \in Worker!Fields : fields'[f] \in {0, Worker!current}
    <2>1. /\ Worker!Fields = {"status", "headers", "body", "context", "httpClient"}
          /\ Worker!Response = {"status", "headers", "body"}
      BY DEF Worker!Fields, Worker!Response
    <2>2. fields' = [f \in Worker!Fields |-> IF f = "context" THEN Worker!current ELSE 0]
      <3>1. fields' = [[f \in Worker!Fields |->
                          IF f \in Worker!Response THEN 0
                          ELSE IF f = "context" THEN Worker!current ELSE fields[f]]
                       EXCEPT !["httpClient"] = 0]
        BY <1>1, <2>1 DEF Worker!resetRequestState, Worker!setRequestContext,
           Worker!createDefaultResponse
      <3> QED
        BY <2>1, <3>1
    <2> QED
      BY <1>2, <2>2, WorkerNumbers
  <1>4. answer' \in Answers /\ \A f \in Worker!Response : answer'.response[f] = 0
    BY <1>1, WorkerNumbers DEF Worker!NoAnswer, Worker!createDefaultResponse, Answers
  <1>5. /\ base.heap \in Nat /\ heap \in Nat /\ base.heap <= heap
        /\ snapshot' \in 0 .. MaxSize + 1
        /\ scoped => base.heap <= snapshot' /\ snapshot' <= heap
        /\ scoped /\ ~trapped => snapshot' = base.heap
    BY <1>1, WorkerNumbers DEF WorkerInv, WorkerTypes, Retained
  <1>6. WorkerTypes'
    BY <1>1, <1>3, <1>4, <1>5 DEF WorkerInv, WorkerTypes
  <1>7. Worker!OwnState'
    BY <1>1, <1>3, <1>4 DEF Worker!OwnState, Worker!current
  <1>8. Worker!RotatesInTime' /\ Worker!LogsEach'
    BY <1>1 DEF WorkerInv, Retained, Worker!RotatesInTime, Worker!LogsEach
  <1>9. Retained'
    BY <1>1, <1>2, <1>5, <1>7, <1>8 DEF WorkerInv, Retained
  <1>10. Settled' /\ Allocated'
    BY <1>1 DEF WorkerInv, Settled, Allocated, Stacked
  <1>11. Counted'
    BY <1>1 DEF WorkerInv, Counted, InScope
  <1> QED
    BY <1>6, <1>9, <1>10, <1>11 DEF WorkerInv

\* The handler returns, or something in it throws.
LEMMA EndStep ==
    ASSUME WorkerInv, Worker!Return \/ Worker!Throw
    PROVE  WorkerInv'
  <1>1. PICK ok \in BOOLEAN : Worker!Finish(ok, heap, buffer)
    BY DEF Worker!Return, Worker!Throw
  <1>2. phase = "running" /\ OwnFields
    BY OwnFieldsFacts DEF Worker!Return, Worker!Throw
  <1>3. PICK h \in heap .. MaxSize + 1, b \in buffer .. MaxSize : h = heap /\ b = buffer
    BY WorkerNumbers DEF WorkerInv, WorkerTypes
  <1>4. Worker!Finish(ok, h, b)
    BY <1>1, <1>3
  <1> QED
    BY <1>2, <1>4, FinishStep

\* Strings, byte arrays and their concatenations, and the answers that return one.
LEMMA StringStep ==
    ASSUME WorkerInv, NEW n \in Sizes \cup {0}, NEW m \in Sizes \cup {0},
           \/ Worker!_req_string(n) \/ Worker!_http_respond(n)
           \/ Worker!writeLengthPrefixedBytes(n) \/ Worker!writeRawBytes(n)
           \/ Worker!concatLengthPrefixed(n, m)
    PROVE  WorkerInv'
  <1>1. PICK size \in Nat \ {0} : Worker!WriteOrThrow(size)
    <2>1. n \in Nat /\ m \in Nat
      BY WorkerAssumption
    <2>2. 1 + n \in Nat \ {0} /\ 1 + n + m \in Nat \ {0} /\ (n > 0 => n \in Nat \ {0})
      BY <2>1
    <2> QED
      BY <2>2 DEF Worker!_req_string, Worker!_http_respond, Worker!writeLengthPrefixedString,
         Worker!writeLengthPrefixedBytes, Worker!writeRawBytes, Worker!concatLengthPrefixed
  <1>2. phase = "running"
    BY <1>1 DEF Worker!WriteOrThrow, Worker!Allocate
  <1>3. OwnFields
    BY <1>2, OwnFieldsFacts DEF Worker!_req_string, Worker!_http_respond,
       Worker!writeLengthPrefixedBytes, Worker!writeRawBytes, Worker!concatLengthPrefixed
  <1> QED
    BY <1>1, <1>2, <1>3, WriteOrThrowStep

\* Two allocations in one call: the second is made with the heap the first has left.
LEMMA BoxStringStep ==
    ASSUME WorkerInv, NEW n \in Sizes, Worker!boxStringAsAny(n)
    PROVE  WorkerInv'
  <1>1. PICK ptr, mem, old :
           /\ ptr \in Nat /\ mem \in Nat /\ ptr = heap /\ mem = buffer /\ old = blocks
           /\ Stacked(old, ptr, mem)
    BY AllocatedBelow
  <1>2. PICK first, next : first = 1 + n /\ next = Worker!Aligned(ptr + first)
    OBVIOUS
  <1>3. first \in Nat \ {0} /\ ptr + first \in Nat /\ next \in Nat
    <2>1. n \in Nat
      BY WorkerAssumption
    <2> QED
      BY <1>1, <1>2, <2>1, WorkerArith
  <1>4. phase = "running" /\ OwnFields /\ mem <= MaxSize /\ mem >= InitialSize
    BY <1>1, AllocatedBelow, OwnFieldsFacts DEF Worker!boxStringAsAny
  <1>5. CASE Worker!Fails(first)
    <2>1. Worker!Finish(FALSE, heap, buffer)
      BY <1>2, <1>5 DEF Worker!boxStringAsAny
    <2>2. PICK h \in heap .. MaxSize + 1, b \in buffer .. MaxSize : h = heap /\ b = buffer
      BY WorkerNumbers DEF WorkerInv, WorkerTypes
    <2>3. Worker!Finish(FALSE, h, b)
      BY <2>1, <2>2
    <2> QED
      BY <1>4, <2>3, FinishStep
  <1>6. CASE ~Worker!Fails(first)
    <2>1. ptr + first <= MaxSize
      BY <1>1, <1>3, <1>6, WorkerNumbers DEF Worker!Fails
    <2>2. PICK grown : /\ grown = Worker!Larger(mem, ptr + first) /\ grown \in Nat
                       /\ mem <= grown /\ ptr + first <= grown /\ grown <= MaxSize
      BY <1>1, <1>3, <1>4, <2>1, WorkerLarger, WorkerNumbers
    <2>3. ptr + first <= next /\ next <= MaxSize + 1
      BY <1>1, <1>2, <1>3, <2>1, HeapFacts
    <2>4. CASE Worker!Finish(FALSE, next, grown)
      <3>1. next \in heap .. MaxSize + 1 /\ grown \in buffer .. MaxSize
        BY <1>1, <1>3, <2>2, <2>3, WorkerNumbers
      <3> QED
        BY <1>4, <2>4, <3>1, FinishStep
    <2>5. CASE /\ ~(next + 3 > MaxSize)
               /\ \E h \in {next, Worker!Aligned(next + 3)} :
                     heap' = Worker!bumpHeapPtr(h, next, 3)
               /\ buffer' = Worker!Larger(grown, next + 3)
               /\ blocks' = old \o <<[at |-> ptr, size |-> first], [at |-> next, size |-> 3]>>
               /\ UNCHANGED <<phase, scopes, refs, held, freed, scoped, limit, base, snapshot,
                              count, trapped, answer, log>>
      <3>1. next + 3 <= MaxSize /\ next + 3 \in Nat
        BY <1>3, <2>5, WorkerNumbers
      <3>2. heap' \in next + 3 .. MaxSize + 1 /\ heap' \in Nat
        <4>1. PICK h \in {next, Worker!Aligned(next + 3)} :
                 heap' = Worker!bumpHeapPtr(h, next, 3)
          BY <2>5
        <4> QED
          BY <1>3, <3>1, <4>1, HeapFacts
      <3>3. buffer' \in grown .. MaxSize /\ next + 3 <= buffer' /\ buffer' \in Nat
        BY <2>2, <2>5, <3>1, WorkerLarger, WorkerNumbers
      <3>4. PICK top, end : top = heap' /\ end = buffer' /\ top \in Nat /\ end \in Nat
        BY <3>2, <3>3
      <3>5. /\ next + 3 <= top /\ next + 3 <= end /\ next >= next /\ ptr >= ptr
            /\ 3 \in Nat \ {0}
        <4>1. next + 3 <= top /\ next + 3 <= end
          BY <1>3, <3>2, <3>3, <3>4
        <4>2. next >= next /\ ptr >= ptr
          BY <1>1, <1>3
        <4>3. 3 \in Nat \ {0}
          OBVIOUS
        <4> QED
          BY <4>1, <4>2, <4>3
      <3>6. Stacked(Append(old, [at |-> ptr, size |-> first]), next, grown)
        BY <1>1, <1>3, <2>2, <2>3, <3>5, BlockAdded
      <3>7. Stacked(Append(Append(old, [at |-> ptr, size |-> first]),
                           [at |-> next, size |-> 3]), top, end)
        BY <1>3, <2>2, <3>4, <3>5, <3>6, BlockAdded
      <3>8. blocks' = Append(Append(old, [at |-> ptr, size |-> first]), [at |-> next, size |-> 3])
        <4>1. [at |-> ptr, size |-> first] \in Blocks /\ [at |-> next, size |-> 3] \in Blocks
          BY <1>1, <1>3 DEF Blocks
        <4>2. \A x, y \in Blocks : old \o <<x, y>> = Append(Append(old, x), y)
          <5>1. old \in Seq(Blocks)
            BY <1>1 DEF Stacked
          <5> QED
            BY <5>1
        <4> QED
          BY <2>5, <4>1, <4>2
      <3>9. Allocated' /\ blocks' \in Seq(Blocks)
        BY <3>4, <3>7, <3>8 DEF Allocated, Stacked
      <3>10. heap' \in heap .. MaxSize + 1 /\ buffer' \in buffer .. MaxSize
        BY <1>1, <1>3, <2>2, <2>3, <3>2, <3>3, WorkerNumbers
      <3> QED
        BY <1>4, <2>5, <3>9, <3>10, AllocStep
    <2> QED
      <3>1. Worker!Grown(first) = grown /\ next = Worker!Aligned(heap + first)
        BY <1>1, <1>2, <2>2 DEF Worker!Grown
      <3>2. \/ Worker!Finish(FALSE, next, Worker!Grown(first))
            \/ /\ ~(next + 3 > MaxSize)
               /\ \E h \in {next, Worker!Aligned(next + 3)} :
                     heap' = Worker!bumpHeapPtr(h, next, 3)
               /\ buffer' = Worker!Larger(Worker!Grown(first), next + 3)
               /\ blocks' = blocks \o <<[at |-> heap, size |-> first],
                                        [at |-> next, size |-> 3]>>
               /\ UNCHANGED <<phase, scopes, refs, held, freed, scoped, limit, base, snapshot,
                              count, trapped, answer, log>>
        BY <1>2, <1>6, <3>1, Zenon DEF Worker!boxStringAsAny, Worker!counting, Worker!settings
      <3> QED
        BY <1>1, <2>4, <2>5, <3>1, <3>2
  <1> QED
    BY <1>5, <1>6

\* The compiled code allocates by itself.
LEMMA GuestAllocStep ==
    ASSUME WorkerInv, NEW size \in Sizes, Worker!GuestAlloc(size)
    PROVE  WorkerInv'
  <1>1. PICK ptr, mem, old :
           /\ ptr \in Nat /\ mem \in Nat /\ ptr = heap /\ mem = buffer /\ old = blocks
           /\ Stacked(old, ptr, mem)
    BY AllocatedBelow
  <1>2. /\ phase = "running" /\ ptr + size <= MaxSize
        /\ blocks' = Append(old, [at |-> ptr, size |-> size])
        /\ heap' = Worker!Aligned(ptr + size) /\ buffer' = Worker!Larger(mem, ptr + size)
        /\ UNCHANGED <<phase, scopes, refs, held, freed, scoped, limit, base, snapshot,
                       fields, count, trapped, answer, log>>
    BY <1>1 DEF Worker!GuestAlloc, Worker!Grown, Worker!counting, Worker!settings
  <1>3. size \in Nat \ {0} /\ ptr + size \in Nat
    BY <1>1, WorkerAssumption
  <1>4. heap' \in ptr + size .. MaxSize + 1 /\ heap' \in Nat
    BY <1>1, <1>2, <1>3, HeapFacts
  <1>5. buffer' \in mem .. MaxSize /\ ptr + size <= buffer' /\ buffer' \in Nat
    BY <1>1, <1>2, <1>3, AllocatedBelow, WorkerLarger, WorkerNumbers
  <1>6. PICK top, end : top = heap' /\ end = buffer' /\ top \in Nat /\ end \in Nat
    BY <1>4, <1>5
  <1>7. ptr + size <= top /\ ptr + size <= end /\ ptr >= ptr
    BY <1>1, <1>3, <1>4, <1>5, <1>6
  <1>8. Stacked(Append(old, [at |-> ptr, size |-> size]), top, end)
    BY <1>1, <1>3, <1>6, <1>7, BlockAdded
  <1>9. Allocated' /\ blocks' \in Seq(Blocks)
    BY <1>2, <1>6, <1>8 DEF Allocated, Stacked
  <1>10. heap' \in heap .. MaxSize + 1 /\ buffer' \in buffer .. MaxSize
    BY <1>1, <1>3, <1>4, <1>5, WorkerNumbers
  <1>11. OwnFields
    BY <1>2, OwnFieldsFacts
  <1> QED
    BY <1>2, <1>9, <1>10, <1>11, AllocStep

-----------------------------------------------------------------------------
(***************************************************************************)
(* The lists of addresses behind the counts: what opening a scope, closing *)
(* the innermost one and entering an address there makes of them.          *)
(***************************************************************************)
LEMMA ListOpened ==
    ASSUME NEW S, NEW lists \in Seq(Seq(S)), EachOnce(lists),
           NEW longer, longer = Append(lists, <<>>)
    PROVE  /\ longer \in Seq(Seq(S)) /\ EachOnce(longer)
           /\ \A a : Listed(longer, a) <=> Listed(lists, a)
  <1>1. /\ longer \in Seq(Seq(S)) /\ Len(longer) = Len(lists) + 1 /\ Len(lists) \in Nat
        /\ longer[Len(lists) + 1] = <<>> /\ \A i \in 1 .. Len(lists) : longer[i] = lists[i]
    BY AppendProperties, LenProperties
  <1>2. \A i \in 1 .. Len(longer) : i \in 1 .. Len(lists) \/ i = Len(lists) + 1
    BY <1>1
  <1>3. \A i \in 1 .. Len(longer) : \A j \in 1 .. Len(longer[i]) :
           i \in 1 .. Len(lists) /\ longer[i] = lists[i]
    BY <1>1, <1>2
  <1>4. \A i \in 1 .. Len(lists) : i \in 1 .. Len(longer)
    BY <1>1
  <1>5. EachOnce(longer)
    BY <1>3 DEF EachOnce
  <1>6. \A a : Listed(longer, a) <=> Listed(lists, a)
    BY <1>1, <1>3, <1>4 DEF Listed
  <1> QED
    BY <1>1, <1>5, <1>6

LEMMA ListClosed ==
    ASSUME NEW S, NEW lists \in Seq(Seq(S)), EachOnce(lists), lists # <<>>,
           NEW shorter, shorter = Worker!Front(lists),
           NEW inner, inner = Worker!Last(lists)
    PROVE  /\ shorter \in Seq(Seq(S)) /\ EachOnce(shorter)
           /\ \A a \in Worker!ToSet(inner) : Listed(lists, a) /\ ~Listed(shorter, a)
           /\ \A a : Listed(lists, a) <=> Listed(shorter, a) \/ a \in Worker!ToSet(inner)
  <1>1. PICK n \in Nat : n = Len(lists) /\ n # 0
    BY EmptySeq, LenProperties
  <1>2. /\ n \in 1 .. n /\ inner = lists[n] /\ inner \in Seq(S)
        /\ \A i \in 1 .. n : i \in 1 .. n - 1 \/ i = n
        /\ \A i \in 1 .. n - 1 : i \in 1 .. n /\ i # n
    <2>1. /\ n \in 1 .. n /\ \A i \in 1 .. n : i \in 1 .. n - 1 \/ i = n
          /\ \A i \in 1 .. n - 1 : i \in 1 .. n /\ i # n
      BY <1>1
    <2> QED
      BY <1>1, <2>1, LenProperties DEF Worker!Last
  <1>3. /\ shorter \in Seq(Seq(S)) /\ Len(shorter) = n - 1
        /\ \A i \in 1 .. n - 1 : shorter[i] = lists[i]
    <2>1. PICK d \in Int : d = n - 1
      <3>1. \A k \in Nat : k - 1 \in Int
        OBVIOUS
      <3> QED
        BY <3>1, Zenon
    <2>2. \A i \in 1 .. d : lists[i] \in Seq(S)
      BY <1>1, <1>2, <2>1, LenProperties
    <2>3. /\ SubSeq(lists, 1, d) \in Seq(Seq(S))
          /\ Len(SubSeq(lists, 1, d)) = (IF 1 <= d THEN d - 1 + 1 ELSE 0)
          /\ \A i \in 1 .. d - 1 + 1 : SubSeq(lists, 1, d)[i] = lists[1 + i - 1]
      BY <2>2, SubSeqProperties
    <2>4. /\ (IF 1 <= d THEN d - 1 + 1 ELSE 0) = d /\ d - 1 + 1 = d
          /\ \A i \in 1 .. d : 1 + i - 1 = i
      BY <1>1, <2>1
    <2>5. shorter = SubSeq(lists, 1, d)
      BY <1>1, <2>1 DEF Worker!Front
    <2> QED
      BY <2>1, <2>3, <2>4, <2>5
  <1>4. \A a : a \in Worker!ToSet(inner) <=> \E j \in 1 .. Len(inner) : inner[j] = a
    <2>1. DOMAIN inner = 1 .. Len(inner)
      BY <1>2, LenProperties
    <2> QED
      BY <2>1 DEF Worker!ToSet
  <1>5. EachOnce(shorter)
    <2> SUFFICES ASSUME NEW i \in 1 .. Len(shorter), NEW k \in 1 .. Len(shorter),
                        NEW j \in 1 .. Len(shorter[i]), NEW l \in 1 .. Len(shorter[k]),
                        shorter[i][j] = shorter[k][l]
                 PROVE  i = k /\ j = l
      BY DEF EachOnce
    <2>1. /\ i \in 1 .. Len(lists) /\ k \in 1 .. Len(lists)
          /\ shorter[i] = lists[i] /\ shorter[k] = lists[k]
      BY <1>1, <1>2, <1>3
    <2> QED
      BY <2>1 DEF EachOnce
  <1>6. \A a : Listed(lists, a) <=> Listed(shorter, a) \/ a \in Worker!ToSet(inner)
    <2>1. \A a : Listed(lists, a) <=> \E i \in 1 .. n : \E j \in 1 .. Len(lists[i]) : lists[i][j] = a
      BY <1>1 DEF Listed
    <2>2. \A a : Listed(shorter, a)
             <=> \E i \in 1 .. n - 1 : \E j \in 1 .. Len(lists[i]) : lists[i][j] = a
      BY <1>3 DEF Listed
    <2> QED
      BY <1>2, <1>4, <2>1, <2>2
  <1>7. ASSUME NEW a \in Worker!ToSet(inner), Listed(shorter, a) PROVE FALSE
    <2>1. PICK j \in 1 .. Len(inner) : inner[j] = a
      BY <1>4
    <2>2. PICK i \in 1 .. n - 1 : \E l \in 1 .. Len(lists[i]) : lists[i][l] = a
      BY <1>3, <1>7 DEF Listed
    <2>3. i \in 1 .. Len(lists) /\ n \in 1 .. Len(lists) /\ i # n
      BY <1>1, <1>2
    <2> QED
      BY <1>2, <2>1, <2>2, <2>3 DEF EachOnce
  <1> QED
    BY <1>3, <1>5, <1>6, <1>7

Entered(lists, x) == [lists EXCEPT ![Len(lists)] = Append(@, x)]

LEMMA ListEntered ==
    ASSUME NEW S, NEW lists \in Seq(Seq(S)), EachOnce(lists), lists # <<>>,
           NEW x \in S, ~Listed(lists, x),
           NEW full, full = Entered(lists, x)
    PROVE  /\ full \in Seq(Seq(S)) /\ EachOnce(full)
           /\ \A a : Listed(full, a) <=> Listed(lists, a) \/ a = x
  <1>1. PICK n \in Nat : n = Len(lists) /\ n # 0
    BY EmptySeq, LenProperties
  <1>2. n \in 1 .. n
    BY <1>1
  <1>3. lists[n] \in Seq(S)
    BY <1>1, <1>2, LenProperties
  <1>4. PICK longer, m : m \in Nat /\ longer = Append(lists[n], x) /\ m = Len(lists[n])
    BY <1>3, LenProperties
  <1>5. /\ longer \in Seq(S) /\ Len(longer) = m + 1 /\ longer[m + 1] = x
        /\ \A j \in 1 .. m : longer[j] = lists[n][j]
    BY <1>3, <1>4, AppendProperties
  <1>6. /\ full \in Seq(Seq(S)) /\ Len(full) = n /\ full[n] = longer
        /\ \A i \in 1 .. n : i # n => full[i] = lists[i]
    <2>1. full = [lists EXCEPT ![n] = longer]
      BY <1>1, <1>4 DEF Entered
    <2>2. n \in 1 .. Len(lists)
      BY <1>1, <1>2
    <2> QED
      BY <1>1, <1>2, <1>5, <2>1, <2>2, ExceptSeq
  <1>7. /\ \A j \in 1 .. m + 1 : j \in 1 .. m \/ j = m + 1
        /\ \A j \in 1 .. m : j \in 1 .. m + 1
        /\ m + 1 \in 1 .. m + 1
    <2>1. \A k \in Nat : /\ \A j \in 1 .. k + 1 : j \in 1 .. k \/ j = k + 1
                         /\ \A j \in 1 .. k : j \in 1 .. k + 1
                         /\ k + 1 \in 1 .. k + 1
      OBVIOUS
    <2> QED
      BY <1>4, <2>1, Zenon
  <1>8. ASSUME NEW i \in 1 .. n, NEW j \in 1 .. Len(full[i])
        PROVE  \/ j \in 1 .. Len(lists[i]) /\ full[i][j] = lists[i][j]
               \/ i = n /\ j = m + 1 /\ full[i][j] = x
    <2>1. CASE i = n
      <3>1. j \in 1 .. m + 1 /\ full[i] = longer
        BY <1>5, <1>6, <2>1
      <3> QED
        BY <1>4, <1>5, <1>7, <2>1, <3>1
    <2>2. CASE i # n
      BY <1>6, <2>2
    <2> QED
      BY <2>1, <2>2
  <1>9. ASSUME NEW i \in 1 .. n, NEW j \in 1 .. Len(lists[i])
        PROVE  j \in 1 .. Len(full[i]) /\ full[i][j] = lists[i][j]
    <2>1. CASE i = n
      <3>1. j \in 1 .. m /\ full[i] = longer
        BY <1>4, <1>6, <2>1
      <3> QED
        BY <1>5, <1>7, <2>1, <3>1
    <2>2. CASE i # n
      BY <1>6, <2>2
    <2> QED
      BY <2>1, <2>2
  <1>10. n \in 1 .. Len(full) /\ m + 1 \in 1 .. Len(full[n]) /\ full[n][m + 1] = x
    BY <1>2, <1>5, <1>6, <1>7
  <1>11. \A i \in 1 .. n : \A j \in 1 .. Len(lists[i]) : lists[i][j] # x
    BY <1>1 DEF Listed
  <1>12. EachOnce(full)
    <2> SUFFICES ASSUME NEW i \in 1 .. Len(full), NEW k \in 1 .. Len(full),
                        NEW j \in 1 .. Len(full[i]), NEW l \in 1 .. Len(full[k]),
                        full[i][j] = full[k][l]
                 PROVE  i = k /\ j = l
      BY DEF EachOnce
    <2>1. i \in 1 .. n /\ k \in 1 .. n
      BY <1>6
    <2>2. \/ j \in 1 .. Len(lists[i]) /\ full[i][j] = lists[i][j] /\ full[i][j] # x
          \/ i = n /\ j = m + 1 /\ full[i][j] = x
      BY <1>8, <1>11, <2>1
    <2>3. \/ l \in 1 .. Len(lists[k]) /\ full[k][l] = lists[k][l] /\ full[k][l] # x
          \/ k = n /\ l = m + 1 /\ full[k][l] = x
      BY <1>8, <1>11, <2>1
    <2> QED
      BY <1>1, <2>1, <2>2, <2>3 DEF EachOnce
  <1>13. \A a : Listed(full, a) <=> Listed(lists, a) \/ a = x
    <2>1. ASSUME NEW a, Listed(full, a) PROVE Listed(lists, a) \/ a = x
      <3>1. PICK i \in 1 .. n : \E j \in 1 .. Len(full[i]) : full[i][j] = a
        BY <1>6, <2>1 DEF Listed
      <3>2. PICK j \in 1 .. Len(full[i]) : full[i][j] = a
        BY <3>1
      <3>3. (j \in 1 .. Len(lists[i]) /\ lists[i][j] = a) \/ a = x
        BY <1>8, <3>2
      <3> QED
        BY <1>1, <3>3 DEF Listed
    <2>2. ASSUME NEW a, Listed(lists, a) PROVE Listed(full, a)
      <3>1. PICK i \in 1 .. n : \E j \in 1 .. Len(lists[i]) : lists[i][j] = a
        BY <1>1, <2>2 DEF Listed
      <3>2. \E j \in 1 .. Len(full[i]) : full[i][j] = a
        BY <1>9, <3>1
      <3> QED
        BY <1>6, <3>2 DEF Listed
    <2>3. Listed(full, x)
      BY <1>10 DEF Listed
    <2> QED
      BY <2>1, <2>2, <2>3
  <1> QED
    BY <1>6, <1>12, <1>13

\* An address has at most one scope, so that it owns at most one reference.
LEMMA OwnedFacts ==
    ASSUME WorkerInv, NEW a
    PROVE  Worker!Owned(a) = IF InScope(a) THEN 1 ELSE 0
  <1> DEFINE places == {p \in Worker!InScopes : scopes[p[1]][p[2]] = a}
  <1>1. \A i, j : <<i, j>> \in Worker!InScopes <=> i \in 1 .. Len(scopes) /\ j \in 1 .. Len(scopes[i])
    BY DEF Worker!InScopes
  <1>2. \A p \in Worker!InScopes : \E i, j : p = <<i, j>>
    BY DEF Worker!InScopes
  <1>3. Worker!Owned(a) = Cardinality(places)
    BY DEF Worker!Owned, Worker!Cardinality, Cardinality
  <1>4. CASE ~InScope(a)
    <2>1. places = {}
      BY <1>1, <1>2, <1>4 DEF InScope, Listed
    <2> QED
      BY <1>3, <1>4, <2>1, FS_EmptySet
  <1>5. CASE InScope(a)
    <2>1. PICK i \in 1 .. Len(scopes) : \E j \in 1 .. Len(scopes[i]) : scopes[i][j] = a
      BY <1>5 DEF InScope, Listed
    <2>2. PICK j \in 1 .. Len(scopes[i]) : scopes[i][j] = a
      BY <2>1
    <2>3. EachOnce(scopes)
      BY DEF WorkerInv, Counted
    <2>4. places = {<<i, j>>}
      <3>1. <<i, j>> \in places
        BY <1>1, <2>1, <2>2
      <3>2. ASSUME NEW p \in places PROVE p = <<i, j>>
        BY <1>1, <1>2, <2>1, <2>2, <2>3 DEF EachOnce
      <3> QED
        BY <3>1, <3>2
    <2> QED
      BY <1>3, <1>5, <2>4, FS_Singleton
  <1> QED
    BY <1>4, <1>5

\* The counts of the next state, when the memory is as it was: each address that has a
\* reference was given out before.
LEMMA CountingStep ==
    ASSUME WorkerInv, phase = "running",
           scopes' \in Seq(Seq(Worker!Addresses)), EachOnce(scopes'),
           refs' \in [Worker!Addresses -> Nat], held' \in [Worker!Addresses -> 0 .. 1],
           freed' \subseteq Worker!Addresses,
           \A a \in Worker!Addresses :
              /\ refs'[a] = held'[a] + (IF InScope(a)' THEN 1 ELSE 0)
              /\ a \in freed' => held'[a] = 0 /\ ~InScope(a)'
              /\ refs[a] = 0 /\ a \notin freed => refs'[a] = 0 /\ a \notin freed',
           UNCHANGED <<phase, heap, buffer, blocks, scoped, limit, base, snapshot, fields,
                       count, trapped, answer, log>>
    PROVE  WorkerInv'
  <1>1. OwnFields
    BY OwnFieldsFacts
  <1>2. /\ heap' \in heap .. MaxSize + 1 /\ buffer' \in buffer .. MaxSize
        /\ blocks' \in Seq(Blocks) /\ Allocated'
    BY WorkerNumbers DEF WorkerInv, WorkerTypes, Allocated, Stacked
  <1>3. ASSUME NEW a \in Worker!Addresses, a >= heap'
        PROVE  refs'[a] = 0 /\ held'[a] = 0 /\ a \notin freed' /\ ~InScope(a)'
    <2>1. refs'[a] = 0 /\ a \notin freed'
      BY <1>3 DEF WorkerInv, Counted
    <2>2. held'[a] \in Nat /\ refs'[a] = held'[a] + (IF InScope(a)' THEN 1 ELSE 0)
      OBVIOUS
    <2> QED
      BY <2>1, <2>2
  <1>4. Counted'
    BY <1>3 DEF Counted
  <1> QED
    BY <1>1, <1>2, <1>4, RunningStep

\* What the counts say of one address.
LEMMA CountFacts ==
    ASSUME WorkerInv, NEW a \in Worker!Addresses
    PROVE  /\ refs[a] \in Nat /\ held[a] \in {0, 1}
           /\ refs[a] = held[a] + (IF InScope(a) THEN 1 ELSE 0)
           /\ a \in freed => refs[a] = 0 /\ held[a] = 0 /\ ~InScope(a)
  <1>1. refs[a] \in Nat /\ held[a] \in 0 .. 1 /\ refs[a] = held[a] + (IF InScope(a) THEN 1 ELSE 0)
    BY DEF WorkerInv, WorkerTypes, Counted
  <1>2. a \in freed => held[a] = 0 /\ ~InScope(a)
    BY DEF WorkerInv, Counted
  <1> QED
    BY <1>1, <1>2

LEMMA RetainStep ==
    ASSUME WorkerInv, NEW a \in Worker!Addresses, Worker!mem_retain(a)
    PROVE  WorkerInv'
  <1>1. /\ phase = "running" /\ refs[a] > 0 /\ held[a] = 0
        /\ refs' = [refs EXCEPT ![a] = @ + 1] /\ held' = [held EXCEPT ![a] = @ + 1]
        /\ UNCHANGED <<phase, heap, buffer, blocks, scopes, freed, scoped, limit, base,
                       snapshot, fields, count, trapped, answer, log>>
    BY DEF Worker!mem_retain, Worker!memory, Worker!settings
  <1>2. /\ refs \in [Worker!Addresses -> Nat] /\ held \in [Worker!Addresses -> 0 .. 1]
        /\ scopes \in Seq(Seq(Worker!Addresses)) /\ freed \subseteq Worker!Addresses
        /\ EachOnce(scopes)
    BY DEF WorkerInv, WorkerTypes, Counted
  <1>3. /\ \A b \in Worker!Addresses : refs'[b] = IF b = a THEN refs[a] + 1 ELSE refs[b]
        /\ \A b \in Worker!Addresses : held'[b] = IF b = a THEN 1 ELSE held[b]
        /\ refs' \in [Worker!Addresses -> Nat] /\ held' \in [Worker!Addresses -> 0 .. 1]
    BY <1>1, <1>2
  <1>4. \A b \in Worker!Addresses : InScope(b)' <=> InScope(b)
    BY <1>1 DEF InScope
  <1>5. ASSUME NEW b \in Worker!Addresses
        PROVE  /\ refs'[b] = held'[b] + (IF InScope(b)' THEN 1 ELSE 0)
               /\ b \in freed' => held'[b] = 0 /\ ~InScope(b)'
               /\ refs[b] = 0 /\ b \notin freed => refs'[b] = 0 /\ b \notin freed'
    <2>1. CASE b = a
      <3>1. refs[a] \in Nat /\ refs[a] = 0 + (IF InScope(a) THEN 1 ELSE 0) /\ a \notin freed
        BY <1>1, CountFacts
      <3> QED
        BY <1>1, <1>3, <1>4, <2>1, <3>1
    <2>2. CASE b # a
      BY <1>1, <1>3, <1>4, <2>2, CountFacts
    <2> QED
      BY <2>1, <2>2
  <1> QED
    BY <1>1, <1>2, <1>3, <1>5, CountingStep

\* An address goes to free() with its last reference.
LEMMA MemReleaseStep ==
    ASSUME WorkerInv, NEW a \in Worker!Addresses, Worker!mem_release(a)
    PROVE  WorkerInv'
  <1>1. /\ phase = "running" /\ held[a] > 0
        /\ held' = [held EXCEPT ![a] = @ - 1]
        /\ refs' = [refs EXCEPT ![a] = IF @ <= 1 THEN 0 ELSE @ - 1]
        /\ freed' = (IF refs[a] <= 1 THEN freed \cup {a} ELSE freed)
        /\ UNCHANGED <<phase, heap, buffer, blocks, scopes, scoped, limit, base, snapshot,
                       fields, count, trapped, answer, log>>
    BY DEF Worker!mem_release, Worker!memory, Worker!settings
  <1>2. /\ refs \in [Worker!Addresses -> Nat] /\ held \in [Worker!Addresses -> 0 .. 1]
        /\ scopes \in Seq(Seq(Worker!Addresses)) /\ freed \subseteq Worker!Addresses
        /\ EachOnce(scopes)
    BY DEF WorkerInv, WorkerTypes, Counted
  <1>3. held[a] = 1 /\ refs[a] = 1 + (IF InScope(a) THEN 1 ELSE 0) /\ a \notin freed
    BY <1>1, CountFacts
  <1>4. /\ \A b \in Worker!Addresses :
              refs'[b] = IF b = a THEN (IF InScope(a) THEN 1 ELSE 0) ELSE refs[b]
        /\ \A b \in Worker!Addresses : held'[b] = IF b = a THEN 0 ELSE held[b]
        /\ refs' \in [Worker!Addresses -> Nat] /\ held' \in [Worker!Addresses -> 0 .. 1]
    BY <1>1, <1>2, <1>3
  <1>5. freed' = (IF InScope(a) THEN freed ELSE freed \cup {a}) /\ freed' \subseteq Worker!Addresses
    BY <1>1, <1>2, <1>3
  <1>6. \A b \in Worker!Addresses : InScope(b)' <=> InScope(b)
    BY <1>1 DEF InScope
  <1>7. ASSUME NEW b \in Worker!Addresses
        PROVE  /\ refs'[b] = held'[b] + (IF InScope(b)' THEN 1 ELSE 0)
               /\ b \in freed' => held'[b] = 0 /\ ~InScope(b)'
               /\ refs[b] = 0 /\ b \notin freed => refs'[b] = 0 /\ b \notin freed'
    <2>1. CASE b = a
      BY <1>3, <1>4, <1>5, <1>6, <2>1
    <2>2. CASE b # a
      BY <1>4, <1>5, <1>6, <2>2, CountFacts
    <2> QED
      BY <2>1, <2>2
  <1> QED
    BY <1>1, <1>2, <1>4, <1>5, <1>7, CountingStep

LEMMA ScopePushStep ==
    ASSUME WorkerInv, Worker!mem_scope_push
    PROVE  WorkerInv'
  <1>1. /\ phase = "running" /\ scopes' = Append(scopes, <<>>)
        /\ UNCHANGED <<phase, heap, buffer, blocks, refs, held, freed, scoped, limit, base,
                       snapshot, fields, count, trapped, answer, log>>
    BY DEF Worker!mem_scope_push, Worker!memory, Worker!settings
  <1>2. /\ refs \in [Worker!Addresses -> Nat] /\ held \in [Worker!Addresses -> 0 .. 1]
        /\ scopes \in Seq(Seq(Worker!Addresses)) /\ freed \subseteq Worker!Addresses
        /\ EachOnce(scopes)
    BY DEF WorkerInv, WorkerTypes, Counted
  <1>3. /\ scopes' \in Seq(Seq(Worker!Addresses)) /\ EachOnce(scopes')
        /\ \A a : Listed(scopes', a) <=> Listed(scopes, a)
    BY <1>1, <1>2, ListOpened
  <1>4. \A a \in Worker!Addresses : InScope(a)' <=> InScope(a)
    BY <1>3 DEF InScope
  <1>5. \A a \in Worker!Addresses :
           /\ refs'[a] = held'[a] + (IF InScope(a)' THEN 1 ELSE 0)
           /\ a \in freed' => held'[a] = 0 /\ ~InScope(a)'
           /\ refs[a] = 0 /\ a \notin freed => refs'[a] = 0 /\ a \notin freed'
    BY <1>1, <1>4, CountFacts
  <1> QED
    BY <1>1, <1>2, <1>3, <1>5, CountingStep

\* Each address of the innermost scope loses the reference of that scope, the only one it
\* is in: it keeps the one the program holds, or goes to free().
LEMMA ScopePopStep ==
    ASSUME WorkerInv, Worker!mem_scope_pop
    PROVE  WorkerInv'
  <1>1. PICK inner : inner = Worker!Last(scopes)
    OBVIOUS
  <1>2. /\ phase = "running" /\ scopes # <<>> /\ scopes' = Worker!Front(scopes)
        /\ freed' = freed \cup {a \in Worker!ToSet(inner) : refs[a] <= 1}
        /\ refs' = [a \in Worker!Addresses |->
              IF a \notin Worker!ToSet(inner) THEN refs[a]
              ELSE IF a \in {b \in Worker!ToSet(inner) : refs[b] <= 1} THEN 0
              ELSE refs[a] - 1]
        /\ UNCHANGED <<phase, heap, buffer, blocks, held, scoped, limit, base, snapshot,
                       fields, count, trapped, answer, log>>
    BY <1>1 DEF Worker!mem_scope_pop, Worker!Drops, Worker!memory, Worker!settings
  <1>3. /\ refs \in [Worker!Addresses -> Nat] /\ held \in [Worker!Addresses -> 0 .. 1]
        /\ scopes \in Seq(Seq(Worker!Addresses)) /\ freed \subseteq Worker!Addresses
        /\ EachOnce(scopes)
    BY DEF WorkerInv, WorkerTypes, Counted
  <1>4. /\ scopes' \in Seq(Seq(Worker!Addresses)) /\ EachOnce(scopes')
        /\ \A a \in Worker!ToSet(inner) : Listed(scopes, a) /\ ~Listed(scopes', a)
        /\ \A a : Listed(scopes, a) <=> Listed(scopes', a) \/ a \in Worker!ToSet(inner)
    BY <1>1, <1>2, <1>3, ListClosed
  <1>5. \A a \in Worker!ToSet(inner) : a \in Worker!Addresses
    <2>1. Len(scopes) \in Nat /\ Len(scopes) # 0
      BY <1>2, <1>3, EmptySeq, LenProperties
    <2>2. Len(scopes) \in 1 .. Len(scopes)
      BY <2>1
    <2>3. inner \in Seq(Worker!Addresses)
      BY <1>1, <1>3, <2>2, LenProperties DEF Worker!Last
    <2> QED
      BY <2>3 DEF Worker!ToSet
  <1>6. \A a \in Worker!Addresses : InScope(a)' <=> InScope(a) /\ a \notin Worker!ToSet(inner)
    BY <1>4 DEF InScope
  <1>7. ASSUME NEW a \in Worker!Addresses
        PROVE  /\ refs'[a] \in Nat
               /\ refs'[a] = held'[a] + (IF InScope(a)' THEN 1 ELSE 0)
               /\ a \in freed' => held'[a] = 0 /\ ~InScope(a)'
               /\ refs[a] = 0 /\ a \notin freed => refs'[a] = 0 /\ a \notin freed'
    <2>1. CASE a \in Worker!ToSet(inner)
      <3>1. InScope(a) /\ ~InScope(a)'
        BY <1>4, <2>1 DEF InScope
      <3>2. held[a] \in {0, 1} /\ refs[a] = held[a] + 1 /\ a \notin freed
        BY <3>1, CountFacts
      <3>3. refs'[a] = held[a] /\ (a \in freed' <=> held[a] = 0)
        BY <1>2, <2>1, <3>2
      <3> QED
        BY <1>2, <3>1, <3>2, <3>3
    <2>2. CASE a \notin Worker!ToSet(inner)
      <3>1. refs'[a] = refs[a] /\ (InScope(a)' <=> InScope(a)) /\ (a \in freed' <=> a \in freed)
        BY <1>2, <1>6, <2>2
      <3> QED
        BY <1>2, <3>1, CountFacts
    <2> QED
      BY <2>1, <2>2
  <1>8. /\ refs' \in [Worker!Addresses -> Nat] /\ held' \in [Worker!Addresses -> 0 .. 1]
        /\ freed' \subseteq Worker!Addresses
    <2>1. refs' \in [Worker!Addresses -> Nat]
      BY <1>2, <1>7
    <2> QED
      BY <1>2, <1>3, <1>5, <2>1
  <1> QED
    BY <1>2, <1>4, <1>7, <1>8, CountingStep

\* The address given out is new: no scope and no count has it.
LEMMA MemAllocStep ==
    ASSUME WorkerInv, NEW size \in Sizes, Worker!mem_alloc(size)
    PROVE  WorkerInv'
  <1>1. /\ Worker!Allocate(size) /\ refs' = [refs EXCEPT ![heap] = 1]
        /\ IF scopes = <<>>
           THEN held' = [held EXCEPT ![heap] = 1] /\ UNCHANGED scopes
           ELSE /\ scopes' = [scopes EXCEPT ![Len(scopes)] = Append(@, heap)]
                /\ UNCHANGED held
        /\ UNCHANGED <<phase, freed, scoped, limit, base, snapshot, fields, count, trapped,
                       answer, log>>
    BY DEF Worker!mem_alloc, Worker!settings
  <1>2. size \in Nat \ {0}
    BY WorkerAssumption
  <1>3. /\ phase = "running" /\ heap \in Worker!Addresses
        /\ heap' \in heap + 1 .. MaxSize + 1 /\ buffer' \in buffer .. MaxSize
        /\ blocks' \in Seq(Blocks) /\ Allocated'
    BY <1>1, <1>2, AllocateFacts
  <1>4. /\ refs \in [Worker!Addresses -> Nat] /\ held \in [Worker!Addresses -> 0 .. 1]
        /\ scopes \in Seq(Seq(Worker!Addresses)) /\ freed \subseteq Worker!Addresses
        /\ EachOnce(scopes)
    BY DEF WorkerInv, WorkerTypes, Counted
  <1>5. PICK new \in Worker!Addresses : new = heap
    BY <1>3
  <1>6. refs[new] = 0 /\ held[new] = 0 /\ new \notin freed /\ ~Listed(scopes, new)
    <2>1. new >= heap
      BY <1>3, <1>5, WorkerNumbers DEF Worker!Addresses
    <2> QED
      BY <1>5, <2>1 DEF WorkerInv, Counted, InScope
  <1>7. /\ refs' \in [Worker!Addresses -> Nat]
        /\ \A a \in Worker!Addresses : refs'[a] = IF a = new THEN 1 ELSE refs[a]
    BY <1>1, <1>4, <1>5
  <1>8. /\ scopes' \in Seq(Seq(Worker!Addresses)) /\ EachOnce(scopes')
        /\ held' \in [Worker!Addresses -> 0 .. 1]
        /\ \A a \in Worker!Addresses : a # new =>
              held'[a] = held[a] /\ (InScope(a)' <=> InScope(a))
        /\ 1 = held'[new] + (IF InScope(new)' THEN 1 ELSE 0)
    <2>1. CASE scopes = <<>>
      <3>1. scopes' = scopes /\ held' = [held EXCEPT ![new] = 1]
        BY <1>1, <1>5, <2>1
      <3>2. \A a : InScope(a)' <=> InScope(a)
        BY <3>1 DEF InScope
      <3>3. held'[new] = 1 /\ ~InScope(new)'
        BY <1>4, <1>6, <3>1, <3>2 DEF InScope
      <3> QED
        BY <1>4, <3>1, <3>2, <3>3
    <2>2. CASE scopes # <<>>
      <3>1. /\ scopes' = [scopes EXCEPT ![Len(scopes)] = Append(@, new)]
            /\ held' = held
        BY <1>1, <1>5, <2>2
      <3>2. /\ scopes' \in Seq(Seq(Worker!Addresses)) /\ EachOnce(scopes')
            /\ \A a : Listed(scopes', a) <=> Listed(scopes, a) \/ a = new
        <4>1. scopes' = Entered(scopes, new)
          BY <3>1 DEF Entered
        <4> QED
          BY <1>4, <1>6, <2>2, <4>1, ListEntered
      <3>3. \A a : InScope(a)' <=> InScope(a) \/ a = new
        BY <3>2 DEF InScope
      <3> QED
        BY <1>4, <1>6, <3>1, <3>2, <3>3
    <2> QED
      BY <2>1, <2>2
  <1>9. ASSUME NEW a \in Worker!Addresses
        PROVE  /\ refs'[a] = held'[a] + (IF InScope(a)' THEN 1 ELSE 0)
               /\ a \in freed' => held'[a] = 0 /\ ~InScope(a)'
               /\ a >= heap' => a # new /\ a >= heap
    <2>1. a >= heap' => a # new /\ a >= heap
      BY <1>3, <1>5, WorkerNumbers DEF Worker!Addresses
    <2>2. CASE a = new
      BY <1>1, <1>6, <1>7, <1>8, <2>1, <2>2
    <2>3. CASE a # new
      BY <1>1, <1>7, <1>8, <2>1, <2>3, CountFacts
    <2> QED
      BY <2>2, <2>3
  <1>10. ASSUME NEW a \in Worker!Addresses, a >= heap'
         PROVE  refs'[a] = 0 /\ held'[a] = 0 /\ a \notin freed' /\ ~InScope(a)'
    <2>1. a # new /\ a >= heap
      BY <1>9, <1>10
    <2>2. refs[a] = 0 /\ held[a] = 0 /\ a \notin freed /\ ~InScope(a)
      BY <2>1 DEF WorkerInv, Counted
    <2> QED
      BY <1>1, <1>7, <1>8, <2>1, <2>2
  <1>11. Counted'
    <2>1. \A a \in freed' : held'[a] = 0 /\ ~InScope(a)'
      BY <1>1, <1>4, <1>9
    <2> QED
      BY <1>8, <1>9, <1>10, <2>1 DEF Counted
  <1>12. OwnFields
    BY <1>1, <1>3, OwnFieldsFacts
  <1>13. heap' \in heap .. MaxSize + 1 /\ freed' \subseteq Worker!Addresses
    BY <1>1, <1>3, <1>4, WorkerNumbers DEF Worker!Addresses
  <1> QED
    BY <1>1, <1>3, <1>7, <1>8, <1>11, <1>12, <1>13, RunningStep

LEMMA WorkerInvStep == WorkerInv /\ [Worker!Next]_(Worker!vars) => WorkerInv'
  <1> SUFFICES ASSUME WorkerInv, [Worker!Next]_(Worker!vars) PROVE WorkerInv'
    OBVIOUS
  <1>1. CASE UNCHANGED Worker!vars
    <2>1. UNCHANGED <<phase, heap, buffer, blocks, scopes, refs, held, freed, scoped, limit,
                      base, snapshot, fields, count, trapped, answer, log>>
      BY <1>1 DEF Worker!vars, Worker!memory, Worker!counting, Worker!settings
    <2>2. WorkerTypes' /\ Settled' /\ Allocated'
      BY <2>1 DEF WorkerInv, WorkerTypes, Settled, Allocated, Stacked
    <2>3. Retained' /\ Counted'
      BY <2>1 DEF WorkerInv, Retained, Counted, InScope, Worker!RotatesInTime,
         Worker!LogsEach, Worker!OwnState, Worker!current
    <2> QED
      BY <2>2, <2>3 DEF WorkerInv
  <1>2. CASE \E parts : Worker!Writes(parts)
    BY <1>2, WritesStep
  <1>3. CASE \/ Worker!initialize \/ Worker!InitFails \/ Worker!Begin
             \/ Worker!Return \/ Worker!Throw
             \/ Worker!mem_scope_push \/ Worker!mem_scope_pop
    BY <1>3, WorkerStarts, BeginStep, EndStep, ScopePushStep, ScopePopStep
  <1>4. CASE \E n \in Sizes \cup {0} :
                Worker!_req_string(n) \/ Worker!_http_respond(n)
                \/ Worker!writeLengthPrefixedBytes(n)
    BY <1>4, StringStep
  <1>5. CASE \E n \in Sizes :
                Worker!writeRawBytes(n) \/ Worker!GuestAlloc(n) \/ Worker!mem_alloc(n)
                \/ Worker!boxStringAsAny(n)
    BY <1>5, StringStep, GuestAllocStep, MemAllocStep, BoxStringStep
  <1>6. CASE \E m, n \in Sizes \cup {0} : Worker!concatLengthPrefixed(m, n)
    BY <1>6, StringStep
  <1>7. CASE \E a \in Worker!Addresses : Worker!mem_retain(a) \/ Worker!mem_release(a)
    BY <1>7, RetainStep, MemReleaseStep
  <1> QED
    BY <1>1, <1>2, <1>3, <1>4, <1>5, <1>6, <1>7 DEF Worker!Next, Worker!http_set,
       Worker!_http_set_status, Worker!_http_set_header, Worker!_http_set_body,
       Worker!_http_json, Worker!_http_redirect, Worker!_http_not_found,
       Worker!_http_set_cache

LEMMA WorkerInvAlways == MCSpec => []WorkerInv
  <1>1. WorkerInv /\ [MCNext]_allVars => WorkerInv'
    <2>1. [MCNext]_allVars => [Worker!Next]_(Worker!vars)
      BY DEF MCNext, allVars, programVars, workerVars, ProgramIdle, Worker!vars, Worker!memory,
         Worker!counting, Worker!settings
    <2> QED
      BY <2>1, WorkerInvStep
  <1> QED
    BY <1>1, WorkerInvInit, PTL DEF MCSpec

\* Blocks that a request has allocated stay apart and inside the memory, and an address
\* goes to free() only when nothing refers to it any more, whatever sizes a program asks
\* for and wherever its heap starts (wasm/memory.ts, bridge/memory-runtime.ts).
THEOREM MemoryIsIntact == MCSpec => []MemoryIntact
  <1>1. WorkerInv => Worker!BlocksIntact
    BY DEF WorkerInv, Allocated, Stacked, Worker!BlocksIntact
  <1>2. WorkerInv => Worker!RefsAccounted
    <2> SUFFICES ASSUME WorkerInv PROVE Worker!RefsAccounted
      OBVIOUS
    <2>1. freed \subseteq Worker!Addresses
      BY DEF WorkerInv, WorkerTypes
    <2> QED
      BY <2>1, CountFacts, OwnedFacts DEF Worker!RefsAccounted
  <1>3. WorkerInv => MemoryIntact
    BY <1>1, <1>2 DEF MemoryIntact, Worker!MemoryIntact
  <1> QED
    BY <1>3, WorkerInvAlways, PTL

\* A request sees and answers with its own state only, nothing but the heap of a module
\* without scopes outlives it, and a thread that retains too much takes no other one
\* (workers/request-worker.ts).
THEOREM RequestsStartClean == MCSpec => []CleanBetweenRequests
  <1>1. WorkerInv => Worker!NothingKept
    BY DEF WorkerInv, Settled, Retained, Worker!NothingKept
  <1>2. WorkerInv => Worker!OwnState /\ Worker!RotatesInTime /\ Worker!LogsEach
    BY DEF WorkerInv, Retained
  <1>3. WorkerInv => CleanBetweenRequests
    BY <1>1, <1>2 DEF CleanBetweenRequests, Worker!CleanBetweenRequests
  <1> QED
    BY <1>3, WorkerInvAlways, PTL

-----------------------------------------------------------------------------
(***************************************************************************)
(* Access.  A session id reaches a client only in the answer to one of its *)
(* own requests, so that every id in a cookie, in a request or in the      *)
(* answer under way is one its client has made.  Reset tokens are numbered *)
(* as they are made, and one that a thread holds has not been redeemed.    *)
(***************************************************************************)
Nobody == ""

\* s is no session, or one that a request of this client has made.
OwnedBy(owners, n, client, s) == s # 0 => s \in 1 .. n /\ owners[s] = client
MadeBy(client, s) == OwnedBy(owner, lastSession, client, s)

SessionTypes ==
    /\ lastSession \in 0 .. MaxSessions /\ owner \in [Access!Sids -> Clients \cup {Nobody}]
    /\ DOMAIN sessions \subseteq 1 .. lastSession
    /\ jar \in [Clients -> 0 .. MaxSessions]
    /\ served \in [Threads -> [client : Clients \cup {Nobody}, sid : 0 .. MaxSessions]]
    /\ cookies \in [Threads -> Seq(0 .. MaxSessions)]

SessionsMade == \A s \in DOMAIN sessions : sessions[s].user = owner[s] /\ owner[s] \in Clients

CookiesMade ==
    /\ \A client \in Clients : MadeBy(client, jar[client])
    /\ \A t \in Threads : served[t] # Access!NoRequest =>
          /\ served[t].client \in Clients
          /\ MadeBy(served[t].client, served[t].sid)
          /\ \A i \in 1 .. Len(cookies[t]) : MadeBy(served[t].client, cookies[t][i])

CsrfStored == ~copies => csrf.kept = csrf.set

SessionInv == SessionTypes /\ SessionsMade /\ CookiesMade /\ CsrfStored

TokenRecords == [user : Clients \cup {Nobody}, thread : Threads \cup {Nobody}, expires : Nat]
Redemptions == [user : Clients \cup {Nobody}, at : Nat]

TokenTypes ==
    /\ resetTokens \in [Threads -> SUBSET Access!Toks]
    /\ token \in [Access!Toks -> TokenRecords]
    /\ redeemed \in [Access!Toks -> Seq(Redemptions)]
    /\ now \in 0 .. Lifetime + 1

\* What has become of a token: it is redeemed once and in time, or it can still be.
Redeemed(k) ==
    /\ Len(redeemed[k]) = 1 /\ redeemed[k][1].user = token[k].user
    /\ redeemed[k][1].at < token[k].expires

TokensHeld ==
    /\ \E n \in 0 .. MaxTokens : Access!Made = 1 .. n
    /\ \A k \in Access!Made : token[k].user \in Clients /\ token[k].thread \in Threads
    /\ \A k \in Access!Made : redeemed[k] = <<>> \/ Redeemed(k)
    /\ \A k \in Access!Made :
          redeemed[k] = <<>> /\ now < token[k].expires => k \in resetTokens[token[k].thread]
    /\ \A k \in Access!Toks \ Access!Made : redeemed[k] = <<>>
    /\ \A t \in Threads : \A k \in resetTokens[t] :
          k \in Access!Made /\ token[k].thread = t /\ redeemed[k] = <<>>

TokenInv == TokenTypes /\ TokensHeld

LEMMA AccessFacts ==
    /\ MaxSessions \in Nat /\ MaxTokens \in Nat /\ Lifetime \in Nat
    /\ Nobody \notin Clients
    /\ Access!NoRequest = [client |-> Nobody, sid |-> 0]
    /\ Access!NoToken = [user |-> Nobody, thread |-> Nobody, expires |-> 0]
    /\ Access!NoSession = [user |-> Nobody, role |-> Nobody, permissions |-> {}]
  BY AccessAssumption, Zenon DEF Nobody, Access!NoRequest, Access!NoToken, Access!NoSession

LEMMA SessionInvInit == MCInit => SessionInv /\ TokenInv
  <1> SUFFICES ASSUME Access!Init PROVE SessionInv /\ TokenInv
    BY DEF MCInit
  <1> USE AccessFacts
  <1>1. /\ sessions = [s \in {} |-> Access!NoSession] /\ lastSession = 0
        /\ owner = [s \in Access!Sids |-> Nobody] /\ csrf = [kept |-> {}, set |-> {}]
        /\ jar = [c \in Clients |-> 0] /\ served = [t \in Threads |-> Access!NoRequest]
        /\ cookies = [t \in Threads |-> <<>>]
    BY Zenon DEF Access!Init, Nobody
  <1>2. /\ resetTokens = [t \in Threads |-> {}]
        /\ token = [k \in Access!Toks |-> Access!NoToken]
        /\ redeemed = [k \in Access!Toks |-> <<>>] /\ now = 0
    BY Zenon DEF Access!Init
  <1>3. SessionTypes
    <2>1. Access!NoRequest \in [client : Clients \cup {Nobody}, sid : 0 .. MaxSessions]
      OBVIOUS
    <2>2. 0 \in 0 .. MaxSessions /\ DOMAIN sessions = {}
      BY <1>1
    <2> QED
      BY <1>1, <2>1, <2>2 DEF SessionTypes
  <1>4. SessionsMade /\ CookiesMade /\ CsrfStored
    <2>1. \A t \in Threads : served[t] = Access!NoRequest
      BY <1>1
    <2> QED
      BY <1>1, <2>1 DEF SessionsMade, CookiesMade, CsrfStored, MadeBy, OwnedBy
  <1>5. TokenTypes
    <2>1. Access!NoToken \in TokenRecords /\ 0 \in 0 .. Lifetime + 1
      BY DEF TokenRecords
    <2> QED
      BY <1>2, <2>1 DEF TokenTypes
  <1>6. TokensHeld
    <2>1. Access!Made = {} /\ 1 .. 0 = {} /\ 0 \in 0 .. MaxTokens
      BY <1>2 DEF Access!Made
    <2> QED
      BY <1>2, <2>1 DEF TokensHeld
  <1> QED
    BY <1>3, <1>4, <1>5, <1>6 DEF SessionInv, TokenInv

\* A cookie is added to the answer of a request, for a session its client has made.
LEMMA CookieAdded ==
    ASSUME SessionInv, NEW t \in Threads, NEW s \in 0 .. MaxSessions,
           Access!addResponseCookie(t, s), UNCHANGED <<jar, served>>,
           lastSession' \in 0 .. MaxSessions, owner' \in [Access!Sids -> Clients \cup {Nobody}],
           DOMAIN sessions' \subseteq 1 .. lastSession', SessionsMade', CsrfStored',
           \A client \in Clients : \A x \in 0 .. MaxSessions :
              MadeBy(client, x) => OwnedBy(owner', lastSession', client, x),
           served[t] # Access!NoRequest => OwnedBy(owner', lastSession', served[t].client, s)
    PROVE  SessionInv'
  <1>1. cookies' = [cookies EXCEPT ![t] = Append(@, s)]
    BY DEF Access!addResponseCookie
  <1>2. /\ jar \in [Clients -> 0 .. MaxSessions]
        /\ served \in [Threads -> [client : Clients \cup {Nobody}, sid : 0 .. MaxSessions]]
        /\ cookies \in [Threads -> Seq(0 .. MaxSessions)]
    BY DEF SessionInv, SessionTypes
  <1>3. PICK given, n : given = Append(cookies[t], s) /\ n \in Nat /\ n = Len(cookies[t])
    BY <1>2, LenProperties
  <1>4. /\ given \in Seq(0 .. MaxSessions) /\ Len(given) = n + 1 /\ given[n + 1] = s
        /\ \A i \in 1 .. n : given[i] = cookies[t][i] /\ cookies[t][i] \in 0 .. MaxSessions
    <2>1. cookies[t] \in Seq(0 .. MaxSessions)
      BY <1>2
    <2>2. /\ Append(cookies[t], s) \in Seq(0 .. MaxSessions)
          /\ Len(Append(cookies[t], s)) = Len(cookies[t]) + 1
          /\ \A i \in 1 .. Len(cookies[t]) : Append(cookies[t], s)[i] = cookies[t][i]
          /\ Append(cookies[t], s)[Len(cookies[t]) + 1] = s
      BY <2>1, AppendProperties
    <2>3. \A i \in 1 .. Len(cookies[t]) : cookies[t][i] \in 0 .. MaxSessions
      BY <2>1, LenProperties, ElementOfSeq
    <2> QED
      BY <1>3, <2>2, <2>3
  <1>5. cookies'[t] = given /\ \A u \in Threads : u # t => cookies'[u] = cookies[u]
    BY <1>1, <1>2, <1>3
  <1>6. SessionTypes'
    <2>1. cookies' \in [Threads -> Seq(0 .. MaxSessions)]
      BY <1>1, <1>2, <1>3, <1>4
    <2> QED
      BY <1>2, <2>1 DEF SessionTypes
  <1>7. \A client \in Clients : OwnedBy(owner', lastSession', client, jar[client])
    BY <1>2 DEF SessionInv, CookiesMade
  <1>8. ASSUME NEW u \in Threads, served[u] # Access!NoRequest
        PROVE  /\ served[u].client \in Clients
               /\ OwnedBy(owner', lastSession', served[u].client, served[u].sid)
               /\ \A i \in 1 .. Len(cookies'[u]) :
                     OwnedBy(owner', lastSession', served[u].client, cookies'[u][i])
    <2>1. /\ served[u].client \in Clients /\ served[u].sid \in 0 .. MaxSessions
          /\ MadeBy(served[u].client, served[u].sid)
          /\ \A i \in 1 .. Len(cookies[u]) : MadeBy(served[u].client, cookies[u][i])
      BY <1>2, <1>8 DEF SessionInv, CookiesMade
    <2>2. CASE u # t
      <3>1. \A i \in 1 .. Len(cookies[u]) : cookies[u][i] \in 0 .. MaxSessions
        BY <1>2, LenProperties
      <3> QED
        BY <1>5, <2>1, <2>2, <3>1
    <2>3. CASE u = t
      <3>1. ASSUME NEW i \in 1 .. n + 1
            PROVE  OwnedBy(owner', lastSession', served[t].client, given[i])
        <4>1. i \in 1 .. n \/ i = n + 1
          BY <1>3
        <4>2. CASE i \in 1 .. n
          BY <1>3, <1>4, <2>1, <2>3, <4>2
        <4>3. CASE i = n + 1
          BY <1>4, <1>8, <2>3, <4>3
        <4> QED
          BY <4>1, <4>2, <4>3
      <3> QED
        BY <1>4, <1>5, <2>1, <2>3, <3>1
    <2> QED
      BY <2>2, <2>3
  <1>9. CookiesMade'
    BY <1>7, <1>8 DEF CookiesMade, MadeBy
  <1> QED
    BY <1>6, <1>9 DEF SessionInv

\* Who handles what changes with the beginning and the end of a request only.
LEMMA BeginsStep ==
    ASSUME SessionInv, NEW t \in Threads, NEW c \in Clients, Access!Begin(t, c)
    PROVE  SessionInv'
  <1>1. /\ served' = [served EXCEPT ![t] = [client |-> c, sid |-> jar[c]]]
        /\ cookies' = [cookies EXCEPT ![t] = <<>>]
        /\ UNCHANGED <<sessions, lastSession, owner, copies, csrf, jar>>
    BY DEF Access!Begin, Access!createDefaultResponse, Access!store
  <1>2. /\ jar \in [Clients -> 0 .. MaxSessions]
        /\ served \in [Threads -> [client : Clients \cup {Nobody}, sid : 0 .. MaxSessions]]
        /\ cookies \in [Threads -> Seq(0 .. MaxSessions)]
    BY DEF SessionInv, SessionTypes
  <1>3. \A u \in Threads :
           /\ served'[u] = IF u = t THEN [client |-> c, sid |-> jar[c]] ELSE served[u]
           /\ cookies'[u] = IF u = t THEN <<>> ELSE cookies[u]
    BY <1>1, <1>2
  <1>4. SessionTypes'
    <2>1. served' \in [Threads -> [client : Clients \cup {Nobody}, sid : 0 .. MaxSessions]]
      BY <1>1, <1>2
    <2>2. cookies' \in [Threads -> Seq(0 .. MaxSessions)]
      BY <1>1, <1>2
    <2> QED
      BY <1>1, <2>1, <2>2 DEF SessionInv, SessionTypes
  <1>5. \A client, x : OwnedBy(owner', lastSession', client, x) <=> MadeBy(client, x)
    BY <1>1 DEF MadeBy
  <1>6. CookiesMade'
    BY <1>1, <1>3, <1>5 DEF SessionInv, CookiesMade, MadeBy
  <1>7. SessionsMade' /\ CsrfStored'
    BY <1>1 DEF SessionInv, SessionsMade, CsrfStored
  <1> QED
    BY <1>4, <1>6, <1>7 DEF SessionInv

LEMMA EndsStep ==
    ASSUME SessionInv, NEW t \in Threads, Access!Return(t) \/ Access!Throw(t)
    PROVE  SessionInv'
  <1> USE AccessFacts
  <1>1. /\ served[t] # Access!NoRequest
        /\ served' = [served EXCEPT ![t] = Access!NoRequest]
        /\ \/ jar' = jar
           \/ /\ cookies[t] # <<>>
              /\ jar' = [jar EXCEPT ![served[t].client] = cookies[t][Len(cookies[t])]]
        /\ UNCHANGED <<sessions, lastSession, owner, copies, csrf, cookies>>
    BY DEF Access!Return, Access!Throw, Access!store
  <1>2. /\ jar \in [Clients -> 0 .. MaxSessions]
        /\ served \in [Threads -> [client : Clients \cup {Nobody}, sid : 0 .. MaxSessions]]
        /\ cookies \in [Threads -> Seq(0 .. MaxSessions)]
        /\ served[t].client \in Clients
    BY <1>1 DEF SessionInv, SessionTypes, CookiesMade
  <1>3. \A u \in Threads :
           served'[u] = IF u = t THEN Access!NoRequest ELSE served[u]
    BY <1>1, <1>2
  <1>4. \A client, x : OwnedBy(owner', lastSession', client, x) <=> MadeBy(client, x)
    BY <1>1 DEF MadeBy
  <1>5. jar' \in [Clients -> 0 .. MaxSessions] /\ \A client \in Clients : MadeBy(client, jar'[client])
    <2>1. CASE jar' = jar
      BY <1>2, <2>1 DEF SessionInv, CookiesMade
    <2>2. CASE /\ cookies[t] # <<>>
               /\ jar' = [jar EXCEPT ![served[t].client] = cookies[t][Len(cookies[t])]]
      <3>1. Len(cookies[t]) \in Nat /\ Len(cookies[t]) # 0
        BY <1>2, <2>2, EmptySeq, LenProperties
      <3>2. Len(cookies[t]) \in 1 .. Len(cookies[t])
        BY <3>1
      <3>3. PICK final : final = cookies[t][Len(cookies[t])]
        OBVIOUS
      <3>4. final \in 0 .. MaxSessions
        BY <1>2, <3>2, <3>3, ElementOfSeq
      <3>5. MadeBy(served[t].client, final)
        <4>1. \A i \in 1 .. Len(cookies[t]) : MadeBy(served[t].client, cookies[t][i])
          BY <1>1 DEF SessionInv, CookiesMade
        <4> QED
          BY <3>2, <3>3, <4>1
      <3>6. \A client \in Clients :
               jar'[client] = IF client = served[t].client THEN final ELSE jar[client]
        BY <1>2, <2>2, <3>3
      <3> QED
        BY <1>2, <2>2, <3>3, <3>4, <3>5, <3>6 DEF SessionInv, CookiesMade
    <2> QED
      BY <1>1, <2>1, <2>2
  <1>6. SessionTypes'
    <2>1. Access!NoRequest \in [client : Clients \cup {Nobody}, sid : 0 .. MaxSessions]
      OBVIOUS
    <2>2. served' \in [Threads -> [client : Clients \cup {Nobody}, sid : 0 .. MaxSessions]]
      BY <1>1, <1>2, <2>1
    <2> QED
      BY <1>1, <1>5, <2>2 DEF SessionInv, SessionTypes
  <1>7. CookiesMade'
    BY <1>1, <1>3, <1>4, <1>5 DEF SessionInv, CookiesMade, MadeBy
  <1>8. SessionsMade' /\ CsrfStored'
    BY <1>1 DEF SessionInv, SessionsMade, CsrfStored
  <1> QED
    BY <1>6, <1>7, <1>8 DEF SessionInv

\* A session that is made belongs to the client whose request makes it.
LEMMA CreateSessionStep ==
    ASSUME SessionInv, NEW t \in Threads, NEW role, NEW claimed,
           Access!createSession(t, role, claimed)
    PROVE  SessionInv'
  <1> USE AccessFacts
  <1>1. PICK s : s = lastSession + 1
    OBVIOUS
  <1>2. /\ served[t] # Access!NoRequest /\ lastSession < MaxSessions /\ lastSession' = s
        /\ sessions' = [x \in DOMAIN sessions \cup {s} |->
              IF x = s
              THEN [user |-> served[t].client, role |-> role, permissions |-> claimed]
              ELSE sessions[x]]
        /\ owner' = [owner EXCEPT ![s] = served[t].client]
        /\ Access!addResponseCookie(t, s) /\ UNCHANGED <<copies, csrf, jar, served>>
    BY <1>1 DEF Access!createSession
  <1>3. /\ lastSession \in 0 .. MaxSessions /\ s \in 1 .. MaxSessions
        /\ owner \in [Access!Sids -> Clients \cup {Nobody}] /\ served[t].client \in Clients
        /\ DOMAIN sessions \subseteq 1 .. lastSession
    BY <1>1, <1>2 DEF SessionInv, SessionTypes, CookiesMade
  <1>4. s \in Access!Sids /\ s \notin 1 .. lastSession /\ 1 .. lastSession \subseteq 1 .. s
        /\ s \in 1 .. s /\ s \in 0 .. MaxSessions /\ 1 .. lastSession \subseteq Access!Sids
    BY <1>1, <1>3 DEF Access!Sids
  <1>5. /\ owner' \in [Access!Sids -> Clients \cup {Nobody}]
        /\ owner'[s] = served[t].client
        /\ \A x \in 1 .. lastSession : owner'[x] = owner[x]
    BY <1>2, <1>3, <1>4
  <1>6. DOMAIN sessions' = DOMAIN sessions \cup {s}
    BY <1>2
  <1>7. SessionsMade'
    <2>1. ASSUME NEW x \in DOMAIN sessions'
          PROVE  sessions'[x].user = owner'[x] /\ owner'[x] \in Clients
      <3>1. CASE x = s
        BY <1>2, <1>3, <1>5, <1>6, <3>1
      <3>2. CASE x # s
        BY <1>2, <1>3, <1>5, <1>6, <3>2 DEF SessionInv, SessionsMade
      <3> QED
        BY <3>1, <3>2
    <2> QED
      BY <2>1 DEF SessionsMade
  <1>8. \A client \in Clients : \A x \in 0 .. MaxSessions :
           MadeBy(client, x) => OwnedBy(owner', lastSession', client, x)
    BY <1>2, <1>4, <1>5 DEF MadeBy, OwnedBy
  <1>9. OwnedBy(owner', lastSession', served[t].client, s)
    BY <1>2, <1>4, <1>5 DEF OwnedBy
  <1>10. CsrfStored'
    BY <1>2 DEF SessionInv, CsrfStored
  <1>11. lastSession' \in 0 .. MaxSessions /\ DOMAIN sessions' \subseteq 1 .. lastSession'
    BY <1>2, <1>3, <1>4, <1>6
  <1> QED
    BY <1>2, <1>4, <1>5, <1>7, <1>8, <1>9, <1>10, <1>11, CookieAdded

\* What keeps the sessions and only adds a cookie, or only takes a session away.
LEMMA SessionKept ==
    ASSUME SessionInv, UNCHANGED <<lastSession, owner>>,
           DOMAIN sessions' \subseteq DOMAIN sessions,
           \A s \in DOMAIN sessions' : sessions'[s] = sessions[s]
    PROVE  /\ SessionsMade'
           /\ DOMAIN sessions' \subseteq 1 .. lastSession'
           /\ lastSession' \in 0 .. MaxSessions
           /\ owner' \in [Access!Sids -> Clients \cup {Nobody}]
           /\ \A client \in Clients : \A x \in 0 .. MaxSessions :
                 MadeBy(client, x) <=> OwnedBy(owner', lastSession', client, x)
  <1>1. SessionsMade'
    BY DEF SessionInv, SessionsMade
  <1> QED
    BY <1>1 DEF SessionInv, SessionTypes, MadeBy

LEMMA RestrictedSessions ==
    ASSUME NEW s, sessions' = Access!Restrict(sessions, DOMAIN sessions \ {s})
    PROVE  /\ DOMAIN sessions' \subseteq DOMAIN sessions
           /\ \A x \in DOMAIN sessions' : sessions'[x] = sessions[x]
  BY DEF Access!Restrict

\* A request holds only sessions of its client.
LEMMA RequestHolds ==
    ASSUME SessionInv, NEW t \in Threads
    PROVE  /\ served[t].sid \in 0 .. MaxSessions
           /\ served[t] # Access!NoRequest => MadeBy(served[t].client, served[t].sid)
           /\ served[t] = Access!NoRequest => served[t].sid \notin DOMAIN sessions
  <1>1. served[t] = Access!NoRequest => served[t].sid = 0
    BY AccessFacts
  <1> QED
    BY <1>1 DEF SessionInv, SessionTypes, CookiesMade

LEMMA DestroySessionStep ==
    ASSUME SessionInv, NEW t \in Threads, Access!destroySession(t)
    PROVE  SessionInv'
  <1>1. /\ sessions' = Access!Restrict(sessions, DOMAIN sessions \ {served[t].sid})
        /\ Access!addResponseCookie(t, 0)
        /\ UNCHANGED <<lastSession, owner, copies, csrf, jar, served>>
    BY DEF Access!destroySession
  <1>2. CsrfStored'
    BY <1>1 DEF SessionInv, CsrfStored
  <1>3. 0 \in 0 .. MaxSessions
    BY AccessFacts
  <1>4. OwnedBy(owner', lastSession', served[t].client, 0)
    BY DEF OwnedBy
  <1> QED
    BY <1>1, <1>2, <1>3, <1>4, RestrictedSessions, SessionKept, CookieAdded

LEMMA CookieOnlyStep ==
    ASSUME SessionInv, NEW t \in Threads,
           Access!_http_delete_cookie(t) \/ Access!_session_extend(t)
    PROVE  SessionInv'
  <1>1. PICK s \in {0, served[t].sid} : Access!addResponseCookie(t, s)
    BY DEF Access!_http_delete_cookie, Access!_session_extend
  <1>2. UNCHANGED <<sessions, lastSession, owner, copies, csrf, jar, served>>
    BY DEF Access!_http_delete_cookie, Access!_session_extend, Access!store
  <1>3. s \in 0 .. MaxSessions
    BY <1>1, AccessFacts, RequestHolds
  <1>4. /\ CsrfStored' /\ SessionsMade'
        /\ DOMAIN sessions' \subseteq 1 .. lastSession' /\ lastSession' \in 0 .. MaxSessions
        /\ owner' \in [Access!Sids -> Clients \cup {Nobody}]
        /\ \A client \in Clients : \A x \in 0 .. MaxSessions :
                 MadeBy(client, x) <=> OwnedBy(owner', lastSession', client, x)
    BY <1>2, SessionKept DEF SessionInv, CsrfStored
  <1>5. served[t] # Access!NoRequest => OwnedBy(owner', lastSession', served[t].client, s)
    BY <1>1, <1>2, RequestHolds DEF MadeBy, OwnedBy
  <1> QED
    BY <1>1, <1>2, <1>3, <1>4, <1>5, CookieAdded

\* A session that expires and a token that is stored leave the cookies alone.
LEMMA StoreStep ==
    ASSUME SessionInv,
           \/ \E s : Access!Expires(s)
           \/ \E t \in Threads : Access!_session_set_csrf(t)
    PROVE  SessionInv'
  <1>1. UNCHANGED <<lastSession, owner, copies, jar, served, cookies>>
    BY DEF Access!Expires, Access!_session_set_csrf, Access!exchange
  <1>2. /\ DOMAIN sessions' \subseteq DOMAIN sessions
        /\ \A x \in DOMAIN sessions' : sessions'[x] = sessions[x]
    <2>1. CASE \E s : Access!Expires(s)
      BY <2>1, RestrictedSessions DEF Access!Expires
    <2>2. CASE \E t \in Threads : Access!_session_set_csrf(t)
      BY <2>2 DEF Access!_session_set_csrf
    <2> QED
      BY <2>1, <2>2
  <1>3. CsrfStored'
    <2>1. \/ csrf' = csrf
          \/ \E x : csrf' = [set |-> csrf.set \cup {x},
                             kept |-> IF copies THEN csrf.kept ELSE csrf.kept \cup {x}]
      BY DEF Access!Expires, Access!_session_set_csrf
    <2> QED
      BY <1>1, <2>1 DEF SessionInv, CsrfStored
  <1>4. SessionTypes'
    BY <1>1, <1>2, SessionKept DEF SessionInv, SessionTypes
  <1>5. CookiesMade'
    BY <1>1 DEF SessionInv, CookiesMade, MadeBy
  <1> QED
    BY <1>1, <1>2, <1>3, <1>4, <1>5, SessionKept DEF SessionInv

LEMMA SessionInvStep ==
    ASSUME SessionInv, [Access!Next]_(Access!vars)
    PROVE  SessionInv'
  <1>1. ASSUME UNCHANGED <<sessions, lastSession, owner, copies, csrf, jar, served, cookies>>
        PROVE  SessionInv'
    BY <1>1 DEF SessionInv, SessionTypes, SessionsMade, CookiesMade, CsrfStored, MadeBy
  <1>2. CASE \/ UNCHANGED Access!vars \/ Access!Tick
             \/ \E t \in Threads : \/ Access!_auth_create_reset_token(t)
                                   \/ \E k \in Access!Toks :
                                         Access!_auth_consume_reset_token(t, k)
                                   \/ \E role, ps : Access!_roles_register(t, role, ps)
    BY <1>1, <1>2 DEF Access!vars, Access!Tick, Access!_auth_create_reset_token,
       Access!_auth_consume_reset_token, Access!_roles_register, Access!store,
       Access!exchange
  <1>3. CASE \E s \in Access!Sids : Access!Expires(s)
    BY <1>3, StoreStep
  <1>4. ASSUME NEW t \in Threads,
               \/ Access!Return(t) \/ Access!Throw(t) \/ Access!_auth_clear_session(t)
               \/ Access!_session_destroy(t) \/ Access!_session_extend(t)
               \/ Access!_http_delete_cookie(t) \/ Access!_session_set_csrf(t)
               \/ \E c \in Clients : Access!Begin(t, c)
        PROVE  SessionInv'
    BY <1>4, BeginsStep, EndsStep, DestroySessionStep, CookieOnlyStep, StoreStep
       DEF Access!_auth_clear_session, Access!_session_destroy
  <1>5. ASSUME NEW t \in Threads, NEW role, NEW claimed,
               \/ Access!_auth_set_session(t, role, claimed)
               \/ Access!_session_create(t, role, claimed)
               \/ Access!_session_create_with_ttl(t, role, claimed)
        PROVE  SessionInv'
    BY <1>5, CreateSessionStep DEF Access!_auth_set_session, Access!_session_create,
       Access!_session_create_with_ttl
  <1> QED
    BY <1>2, <1>3, <1>4, <1>5 DEF Access!Next

\* The tokens that are made are numbered from one, and Made tells them from the others.
LEMMA MadeFacts ==
    ASSUME TokenInv
    PROVE  \E n \in 0 .. MaxTokens : /\ Access!Made = 1 .. n
                                     /\ Access!Cardinality(Access!Made) = n
  <1>1. PICK n \in 0 .. MaxTokens : Access!Made = 1 .. n
    BY DEF TokenInv, TokensHeld
  <1>2. Cardinality(1 .. n) = n
    <2>1. n \in Int /\ 1 \in Int /\ (1 > n => n = 0) /\ n - 1 + 1 = n
      BY <1>1, AccessFacts
    <2> QED
      BY <2>1, FS_Interval
  <1>3. Access!Cardinality(1 .. n) = Cardinality(1 .. n)
    BY DEF Access!Cardinality, Cardinality
  <1> QED
    BY <1>1, <1>2, <1>3

LEMMA CreateTokenStep ==
    ASSUME SessionInv, TokenInv, NEW t \in Threads, Access!_auth_create_reset_token(t)
    PROVE  TokenInv'
  <1> USE AccessFacts
  <1>1. PICK n \in 0 .. MaxTokens : /\ Access!Made = 1 .. n
                                    /\ Access!Cardinality(Access!Made) = n
    BY MadeFacts
  <1>2. PICK k : k = n + 1
    OBVIOUS
  <1>3. PICK new : new = [user |-> served[t].client, thread |-> t, expires |-> now + Lifetime]
    OBVIOUS
  <1>4. /\ served[t] # Access!NoRequest /\ Access!Made # Access!Toks
        /\ token' = [token EXCEPT ![k] = new]
        /\ resetTokens' = [resetTokens EXCEPT ![t] =
                              {j \in resetTokens[t] : token[j].expires > now} \cup {k}]
        /\ UNCHANGED <<redeemed, now>>
    BY <1>1, <1>2, <1>3 DEF Access!_auth_create_reset_token, Access!sweepResetTokens
  <1>5. n \in Nat /\ n < MaxTokens /\ k \in Access!Toks /\ 1 .. k = 1 .. n \cup {k} /\ k \notin 1 .. n
        /\ k \in 0 .. MaxTokens
    BY <1>1, <1>2, <1>4 DEF Access!Toks
  <1>6. /\ resetTokens \in [Threads -> SUBSET Access!Toks]
        /\ token \in [Access!Toks -> TokenRecords]
        /\ redeemed \in [Access!Toks -> Seq(Redemptions)]
        /\ now \in 0 .. Lifetime + 1
    BY DEF TokenInv, TokenTypes
  <1>7. new \in TokenRecords /\ new.user \in Clients /\ new.thread = t /\ new # Access!NoToken
    <2>1. served[t].client \in Clients
      BY <1>4 DEF SessionInv, CookiesMade
    <2>2. now + Lifetime \in Nat
      BY <1>6
    <2> QED
      BY <1>3, <2>1, <2>2 DEF TokenRecords
  <1>8. /\ token' \in [Access!Toks -> TokenRecords]
        /\ \A j \in Access!Toks : token'[j] = IF j = k THEN new ELSE token[j]
    BY <1>4, <1>5, <1>6, <1>7
  <1>9. /\ resetTokens' \in [Threads -> SUBSET Access!Toks]
        /\ \A u \in Threads : resetTokens'[u] =
              IF u = t THEN {j \in resetTokens[t] : token[j].expires > now} \cup {k}
              ELSE resetTokens[u]
    BY <1>4, <1>5, <1>6
  <1>10. TokenTypes'
    BY <1>4, <1>6, <1>8, <1>9 DEF TokenTypes
  <1>11. Access!Made' = Access!Made \cup {k} /\ k \notin Access!Made
    BY <1>1, <1>5, <1>7, <1>8 DEF Access!Made
  <1>12. TokensHeld'
    <2>1. \E m \in 0 .. MaxTokens : Access!Made' = 1 .. m
      BY <1>1, <1>5, <1>11
    <2>2. \A j \in Access!Made : j \in Access!Toks /\ token'[j] = token[j]
      BY <1>8, <1>11 DEF Access!Made
    <2>3. redeemed[k] = <<>>
      BY <1>5, <1>11 DEF TokenInv, TokensHeld
    <2>4. \A j \in Access!Made' : token'[j].user \in Clients /\ token'[j].thread \in Threads
      BY <1>5, <1>7, <1>8, <1>11, <2>2 DEF TokenInv, TokensHeld
    <2>5. \A j \in Access!Made' : redeemed'[j] = <<>> \/ Redeemed(j)'
      BY <1>4, <1>11, <2>2, <2>3 DEF TokenInv, TokensHeld, Redeemed
    <2>6. ASSUME NEW j \in Access!Made', redeemed'[j] = <<>>, now' < token'[j].expires
          PROVE  j \in resetTokens'[token'[j].thread]
      <3>1. CASE j = k
        BY <1>5, <1>7, <1>8, <1>9, <3>1
      <3>2. CASE j # k
        <4>1. j \in Access!Made /\ token[j].thread \in Threads /\ token'[j] = token[j]
          BY <1>11, <2>2, <3>2 DEF TokenInv, TokensHeld
        <4>2. j \in resetTokens[token[j].thread]
          BY <1>4, <2>6, <4>1 DEF TokenInv, TokensHeld
        <4>3. token[j].expires > now
          <5>1. token[j].expires \in Nat
            BY <1>6, <2>2, <4>1 DEF TokenRecords
          <5> QED
            BY <1>4, <1>6, <2>6, <4>1, <5>1
        <4> QED
          BY <1>9, <4>1, <4>2, <4>3
      <3> QED
        BY <3>1, <3>2
    <2>7. \A j \in Access!Toks \ Access!Made' : redeemed'[j] = <<>>
      BY <1>4, <1>11 DEF TokenInv, TokensHeld
    <2>8. ASSUME NEW u \in Threads, NEW j \in resetTokens'[u]
          PROVE  j \in Access!Made' /\ token'[j].thread = u /\ redeemed'[j] = <<>>
      <3>1. CASE j = k /\ u = t
        BY <1>4, <1>5, <1>7, <1>8, <1>11, <2>3, <3>1
      <3>2. CASE j \in resetTokens[u]
        <4>1. j \in Access!Made /\ token[j].thread = u /\ redeemed[j] = <<>>
          BY <3>2 DEF TokenInv, TokensHeld
        <4> QED
          BY <1>4, <1>11, <2>2, <4>1
      <3> QED
        BY <1>9, <2>8, <3>1, <3>2
    <2> QED
      BY <2>1, <2>4, <2>5, <2>6, <2>7, <2>8 DEF TokensHeld, Access!Toks
  <1> QED
    BY <1>10, <1>12 DEF TokenInv

LEMMA ConsumeTokenStep ==
    ASSUME TokenInv, NEW t \in Threads, NEW k \in Access!Toks,
           Access!_auth_consume_reset_token(t, k)
    PROVE  TokenInv'
  <1> USE AccessFacts
  <1>1. PICK used_by : used_by = [user |-> token[k].user, at |-> now]
    OBVIOUS
  <1>2. /\ k \in resetTokens[t]
        /\ resetTokens' = [resetTokens EXCEPT ![t] = resetTokens[t] \ {k}]
        /\ redeemed' = IF token[k].expires <= now THEN redeemed
                       ELSE [redeemed EXCEPT ![k] = Append(redeemed[k], used_by)]
        /\ UNCHANGED <<token, now>>
    BY <1>1 DEF Access!_auth_consume_reset_token
  <1>3. /\ resetTokens \in [Threads -> SUBSET Access!Toks]
        /\ token \in [Access!Toks -> TokenRecords]
        /\ redeemed \in [Access!Toks -> Seq(Redemptions)]
        /\ now \in 0 .. Lifetime + 1
    BY DEF TokenInv, TokenTypes
  <1>4. k \in Access!Made /\ token[k].thread = t /\ redeemed[k] = <<>>
    BY <1>2 DEF TokenInv, TokensHeld
  <1>5. /\ token[k] \in TokenRecords /\ token[k].expires \in Nat /\ now \in Nat
        /\ used_by \in Redemptions
    BY <1>1, <1>3 DEF TokenRecords, Redemptions
  <1>6. /\ Append(redeemed[k], used_by) \in Seq(Redemptions)
        /\ Len(Append(redeemed[k], used_by)) = 1
        /\ Append(redeemed[k], used_by)[1] = used_by
    <2>1. <<>> \in Seq(Redemptions) /\ Len(<<>>) = 0
      OBVIOUS
    <2>2. /\ Append(<<>>, used_by) \in Seq(Redemptions)
          /\ Len(Append(<<>>, used_by)) = Len(<<>>) + 1
          /\ Append(<<>>, used_by)[Len(<<>>) + 1] = used_by
      BY <1>5, <2>1, AppendProperties
    <2> QED
      BY <1>4, <2>1, <2>2
  <1>7. /\ resetTokens' \in [Threads -> SUBSET Access!Toks]
        /\ \A u \in Threads :
              resetTokens'[u] = IF u = t THEN resetTokens[t] \ {k} ELSE resetTokens[u]
    BY <1>2, <1>3
  <1>8. /\ redeemed' \in [Access!Toks -> Seq(Redemptions)]
        /\ \A j \in Access!Toks : j # k => redeemed'[j] = redeemed[j]
        /\ redeemed'[k] = redeemed[k] \/ /\ redeemed'[k] = Append(redeemed[k], used_by)
                                         /\ now < token[k].expires
        /\ token[k].expires <= now \/ redeemed'[k] = Append(redeemed[k], used_by)
    BY <1>2, <1>3, <1>5, <1>6
  <1>9. TokenTypes'
    BY <1>2, <1>3, <1>7, <1>8 DEF TokenTypes
  <1>10. Access!Made' = Access!Made
    BY <1>2 DEF Access!Made
  <1>11. Redeemed(k)' \/ (redeemed'[k] = <<>> /\ token[k].expires <= now)
    <2>1. CASE redeemed'[k] = Append(redeemed[k], used_by) /\ now < token[k].expires
      BY <1>1, <1>2, <1>6, <2>1 DEF Redeemed
    <2>2. CASE token[k].expires <= now /\ redeemed'[k] = redeemed[k]
      BY <1>4, <2>2
    <2> QED
      BY <1>2, <1>3, <1>5, <1>8, <2>1, <2>2
  <1>12. TokensHeld'
    <2>1. /\ \E m \in 0 .. MaxTokens : Access!Made' = 1 .. m
          /\ \A j \in Access!Made' : token'[j].user \in Clients /\ token'[j].thread \in Threads
      BY <1>2, <1>10 DEF TokenInv, TokensHeld
    <2>2. \A j \in Access!Made' : redeemed'[j] = <<>> \/ Redeemed(j)'
      BY <1>2, <1>8, <1>10, <1>11 DEF TokenInv, TokensHeld, Redeemed, Access!Made
    <2>3. ASSUME NEW j \in Access!Made', redeemed'[j] = <<>>, now' < token'[j].expires
          PROVE  j \in resetTokens'[token'[j].thread]
      <3>1. j # k
        <4>1. SUFFICES ASSUME j = k PROVE FALSE
          OBVIOUS
        <4>2. redeemed'[k] = <<>> /\ now < token[k].expires
          BY <1>2, <2>3, <4>1
        <4>3. ~Redeemed(k)'
          <5>1. Len(<<>>) # 1
            OBVIOUS
          <5> QED
            BY <4>2, <5>1 DEF Redeemed
        <4> QED
          BY <1>5, <1>11, <4>2, <4>3
      <3>2. /\ j \in Access!Toks /\ j \in Access!Made /\ token'[j] = token[j]
            /\ token[j].thread \in Threads
        BY <1>2, <1>10 DEF TokenInv, TokensHeld, Access!Made
      <3>3. j \in resetTokens[token[j].thread]
        BY <1>2, <1>8, <2>3, <3>1, <3>2 DEF TokenInv, TokensHeld
      <3> QED
        BY <1>7, <3>1, <3>2, <3>3
    <2>4. \A j \in Access!Toks \ Access!Made' : redeemed'[j] = <<>>
      BY <1>4, <1>8, <1>10 DEF TokenInv, TokensHeld
    <2>5. ASSUME NEW u \in Threads, NEW j \in resetTokens'[u]
          PROVE  j \in Access!Made' /\ token'[j].thread = u /\ redeemed'[j] = <<>>
      <3>1. j \in resetTokens[u] /\ (u = t => j # k)
        BY <1>7, <2>5
      <3>2. j \in Access!Made /\ token[j].thread = u /\ redeemed[j] = <<>>
        BY <3>1 DEF TokenInv, TokensHeld
      <3>3. j # k /\ j \in Access!Toks
        BY <1>4, <3>1, <3>2 DEF Access!Made
      <3> QED
        BY <1>2, <1>8, <1>10, <3>2, <3>3
    <2> QED
      BY <2>1, <2>2, <2>3, <2>4, <2>5 DEF TokensHeld, Access!Toks
  <1> QED
    BY <1>9, <1>12 DEF TokenInv

LEMMA TokenInvStep ==
    ASSUME SessionInv, TokenInv, [Access!Next]_(Access!vars)
    PROVE  TokenInv'
  <1>1. ASSUME UNCHANGED <<resetTokens, token, redeemed, now>>
        PROVE  TokenInv'
    BY <1>1 DEF TokenInv, TokenTypes, TokensHeld, Redeemed, Access!Made, Access!Toks
  <1>2. CASE Access!Tick
    <2>1. now <= Lifetime /\ now' = now + 1 /\ UNCHANGED <<resetTokens, token, redeemed>>
      BY <1>2 DEF Access!Tick
    <2>2. now \in 0 .. Lifetime + 1 /\ Lifetime \in Nat
      BY AccessFacts DEF TokenInv, TokenTypes
    <2>3. now' \in 0 .. Lifetime + 1 /\ \A e \in Nat : now' < e => now < e
      BY <2>1, <2>2
    <2>4. TokenTypes'
      BY <2>1, <2>3 DEF TokenInv, TokenTypes, Access!Toks
    <2>5. \A k \in Access!Made : token[k].expires \in Nat
      BY DEF TokenInv, TokenTypes, TokenRecords, Access!Made
    <2>6. TokensHeld'
      BY <2>1, <2>3, <2>5 DEF TokenInv, TokensHeld, Redeemed, Access!Made, Access!Toks
    <2> QED
      BY <2>4, <2>6 DEF TokenInv
  <1>3. ASSUME NEW t \in Threads,
               \/ Access!_auth_create_reset_token(t)
               \/ \E k \in Access!Toks : Access!_auth_consume_reset_token(t, k)
        PROVE  TokenInv'
    BY <1>3, CreateTokenStep, ConsumeTokenStep
  <1>4. CASE UNCHANGED Access!vars \/ \E s \in Access!Sids : Access!Expires(s)
    BY <1>1, <1>4 DEF Access!vars, Access!tokens, Access!Expires
  <1>5. ASSUME NEW t \in Threads,
               \/ Access!Return(t) \/ Access!Throw(t) \/ Access!_auth_clear_session(t)
               \/ Access!_session_destroy(t) \/ Access!_session_extend(t)
               \/ Access!_http_delete_cookie(t) \/ Access!_session_set_csrf(t)
               \/ \E c \in Clients : Access!Begin(t, c)
               \/ \E role, ps : \/ Access!_auth_set_session(t, role, ps)
                                \/ Access!_session_create(t, role, ps)
                                \/ Access!_session_create_with_ttl(t, role, ps)
                                \/ Access!_roles_register(t, role, ps)
        PROVE  TokenInv'
    BY <1>1, <1>5 DEF Access!tokens, Access!Return, Access!Throw, Access!_auth_clear_session,
       Access!_session_destroy, Access!destroySession, Access!_session_extend,
       Access!_http_delete_cookie, Access!_session_set_csrf, Access!Begin,
       Access!_auth_set_session, Access!_session_create, Access!_session_create_with_ttl,
       Access!createSession, Access!_roles_register
  <1> QED
    BY <1>2, <1>3, <1>4, <1>5 DEF Access!Next

LEMMA AccessInvAlways == MCSpec => [](SessionInv /\ TokenInv)
  <1>1. SessionInv /\ TokenInv /\ [MCNext]_allVars => (SessionInv /\ TokenInv)'
    <2>1. [MCNext]_allVars => [Access!Next]_(Access!vars)
      BY DEF MCNext, allVars, accessVars, ServerIdle, Access!vars, Access!store,
         Access!exchange, Access!roles, Access!tokens
    <2> QED
      BY <2>1, SessionInvStep, TokenInvStep
  <1> QED
    BY <1>1, SessionInvInit, PTL DEF MCSpec

\* The checks of one request are of one session, and nobody is no administrator.
LEMMA ChecksAgreeAlways == Access!ChecksAgree
  <1> USE DEF Access!_auth_require_auth, Access!_auth_check, Access!_session_exists,
          Access!_auth_is_admin, Access!_auth_require_role, Access!_auth_is_owner,
          Access!_auth_can, Access!_auth_require_any_role, Access!_auth_has_any_role
  <1>1. Access!NoSession.role # "admin"
    <2>1. Access!NoSession.role = Nobody
      BY AccessFacts
    <2>2. Nobody # "admin"
      BY Zenon DEF Nobody
    <2> QED
      BY <2>1, <2>2
  <1>2. ASSUME NEW t \in Threads
        PROVE  /\ Access!_auth_is_admin(t) => Access!_auth_check(t)
               /\ Access!_auth_is_admin(t) =>
                     \A r \in Access!Roles : \A u \in Clients : \A p \in Access!Permissions :
                        /\ Access!_auth_require_role(t, r) /\ Access!_auth_is_owner(t, u)
                        /\ Access!_auth_can(t, p)
    BY <1>1
  <1>3. ASSUME NEW t \in Threads
        PROVE  /\ \A r : Access!_auth_require_role(t, r) => Access!_auth_check(t)
               /\ \A u : Access!_auth_is_owner(t, u) => Access!_auth_check(t)
               /\ \A p : Access!_auth_can(t, p) => Access!_auth_check(t)
               /\ \A r : /\ Access!_auth_require_any_role(t, {r}) = Access!_auth_require_role(t, r)
                         /\ Access!_auth_has_any_role(t, {r}) = Access!_auth_require_role(t, r)
    OBVIOUS
  <1>4. ASSUME NEW t \in Threads
        PROVE  /\ {Access!_auth_require_auth(t), Access!_session_exists(t)} = {Access!_auth_check(t)}
               /\ {Access!_auth_user(t), Access!_auth_get_session(t), Access!_session_get(t)}
                     = {Access!getSession(t)}
               /\ Access!_auth_user_role(t) = Access!_session_role(t)
               /\ Access!_auth_user_id(t) = Access!_session_user_id(t)
    BY DEF Access!_auth_user, Access!_auth_get_session, Access!_session_get,
       Access!_auth_user_role, Access!_session_role, Access!_auth_user_id,
       Access!_session_user_id
  <1>5. ASSUME NEW t \in Threads, NEW p, Access!_auth_check(t),
               \/ p \in Access!_session_claim(t, "permissions")
               \/ p \in Access!rolePermissions(Access!getSession(t).role)
               \/ Access!_role_has_permission(t, Access!getSession(t).role, p)
        PROVE  Access!_auth_can(t, p)
    BY <1>5 DEF Access!_session_claim
  <1> QED
    BY <1>2, <1>3, <1>4, <1>5, Zenon DEF Access!ChecksAgree

\* A request acts for the client who sent it or for nobody, a reset token is redeemed
\* once and in time, and what the checks of a request say fits together, for any number
\* of threads, clients and sessions (bridge/auth.ts, bridge/session.ts).
THEOREM AccessIsConsistent == MCSpec => []AccessConsistent
  <1>1. ASSUME SessionInv PROVE Access!CookiesOwn
    <2>1. \A client \in Clients : jar[client] # 0 => owner[jar[client]] = client
      BY <1>1 DEF SessionInv, CookiesMade, MadeBy, OwnedBy
    <2>2. ASSUME NEW t \in Threads
          PROVE  Access!_auth_user_id(t) \in {Nobody, served[t].client}
      <3>1. CASE served[t].sid \in DOMAIN sessions
        <4>1. served[t].sid \in 1 .. lastSession /\ served[t].sid # 0
          BY <1>1, <3>1 DEF SessionInv, SessionTypes
        <4>2. owner[served[t].sid] = served[t].client
          BY <1>1, <3>1, <4>1, RequestHolds DEF MadeBy, OwnedBy
        <4> QED
          BY <1>1, <3>1, <4>2
             DEF SessionInv, SessionsMade, Access!_auth_user_id, Access!getSession
      <3>2. CASE served[t].sid \notin DOMAIN sessions
        BY <3>2, AccessFacts DEF Access!_auth_user_id, Access!getSession
      <3> QED
        BY <3>1, <3>2
    <2> QED
      BY <2>1, <2>2, Zenon DEF Access!CookiesOwn, Nobody
  <1>2. ASSUME TokenInv PROVE Access!TokensOnce
    <2>1. ASSUME NEW k \in Access!Made
          PROVE  /\ Len(redeemed[k]) <= 1
                 /\ redeemed[k] # <<>> => Redeemed(k)
                 /\ (redeemed[k] = <<>> /\ now < token[k].expires)
                       => k \in resetTokens[token[k].thread]
      <3>1. redeemed[k] = <<>> \/ Redeemed(k)
        BY <1>2 DEF TokenInv, TokensHeld
      <3>2. Len(redeemed[k]) <= 1
        <4>1. CASE Redeemed(k)
          <5>1. Len(redeemed[k]) = 1
            BY <4>1 DEF Redeemed
          <5> QED
            BY <5>1
        <4>2. CASE redeemed[k] = <<>>
          <5>1. Len(<<>>) = 0
            OBVIOUS
          <5>2. Len(redeemed[k]) = 0
            BY <4>2, <5>1, Zenon
          <5> QED
            BY <5>2
        <4> QED
          BY <3>1, <4>1, <4>2
      <3> QED
        BY <1>2, <3>1, <3>2 DEF TokenInv, TokensHeld
    <2> QED
      BY <2>1 DEF Access!TokensOnce, Redeemed
  <1>3. ASSUME SessionInv PROVE Access!CsrfKept
    BY <1>3 DEF SessionInv, CsrfStored, Access!CsrfKept, Access!_session_get_csrf
  <1>4. SessionInv /\ TokenInv => AccessConsistent
    BY <1>1, <1>2, <1>3, ChecksAgreeAlways DEF AccessConsistent, Access!AccessConsistent
  <1> QED
    BY <1>4, AccessInvAlways, PTL

-----------------------------------------------------------------------------
(***************************************************************************)
(* Routing.  A request is answered by the first route that serves it; only *)
(* a HEAD request may be answered by a route for GET, and then as a GET    *)
(* would have been.  Routes are appended, so that first stays first.       *)
(***************************************************************************)
\* The route a request was answered by is the first for the method it was asked as.
FirstRoute(i, method, path) ==
    /\ i \in 1 .. Len(routes) /\ Router!Serves(routes[i], method, path)
    /\ \A j \in 1 .. i - 1 : ~Router!Serves(routes[j], method, path)
AskedAs(a) ==
    IF a.method = "HEAD" /\ routes[a.route].method = "GET" THEN "GET" ELSE a.method

AnsweredBy(a) ==
    /\ FirstRoute(a.route, AskedAs(a), a.path)
    /\ (routes[a.route].kind = "protected" /\ a.as = "plain") =>
           a.role # Nobody /\ routes[a.route].role \in {Nobody, a.role}

RouterInv == routes \in Seq(Candidates) /\ \A a \in answers : a.route # 0 => AnsweredBy(a)

\* What matchMethod() finds is the first route that serves.
LEMMA MatchMethodFacts ==
    ASSUME routes \in Seq(Candidates), NEW m, NEW p
    PROVE  /\ Router!matchMethod(m, p) # 0 => FirstRoute(Router!matchMethod(m, p), m, p)
           /\ \A i : FirstRoute(i, m, p) => Router!matchMethod(m, p) = i
  <1> DEFINE found == {i \in DOMAIN routes : Router!Serves(routes[i], m, p)}
  <1>1. Len(routes) \in Nat /\ DOMAIN routes = 1 .. Len(routes)
    BY LenProperties
  <1>2. Router!matchMethod(m, p) =
           IF found = {} THEN 0 ELSE CHOOSE i \in found : \A j \in found : i <= j
    BY DEF Router!matchMethod
  <1>3. found \subseteq Nat /\ found \subseteq 1 .. Len(routes)
    BY <1>1
  <1>4. found # {} => \E i \in found : \A j \in found : i <= j
    BY <1>3, LeastNatural
  <1>5. \A i : FirstRoute(i, m, p) <=> i \in found /\ \A j \in found : i <= j
    <2>1. \A i \in 1 .. Len(routes) : \A j \in 1 .. Len(routes) : j \notin 1 .. i - 1 <=> i <= j
      BY <1>1
    <2>2. \A i \in 1 .. Len(routes) : 1 .. i - 1 \subseteq 1 .. Len(routes)
      BY <1>1
    <2> QED
      BY <1>1, <2>1, <2>2 DEF FirstRoute
  <1> HIDE DEF found
  <1>6. \A i, j : (/\ i \in found /\ \A x \in found : i <= x
                   /\ j \in found /\ \A x \in found : j <= x) => i = j
    BY <1>3
  <1>7. found # {} => /\ Router!matchMethod(m, p) \in found
                      /\ \A j \in found : Router!matchMethod(m, p) <= j
    BY <1>2, <1>4
  <1> QED
    BY <1>2, <1>5, <1>6, <1>7

\* What match() finds, and as which method.
LEMMA MatchFacts ==
    ASSUME routes \in Seq(Candidates), NEW m, NEW p, Router!match(m, p) # 0
    PROVE  LET i == Router!match(m, p)
           IN  FirstRoute(i, IF m = "HEAD" /\ routes[i].method = "GET" THEN "GET" ELSE m, p)
  <1> DEFINE i == Router!match(m, p)
  <1>1. CASE m = "HEAD" /\ Router!matchMethod("HEAD", p) = 0
    <2>1. i = Router!matchMethod("GET", p)
      BY <1>1 DEF Router!match
    <2>2. FirstRoute(i, "GET", p)
      BY <2>1, MatchMethodFacts
    <2>3. routes[i].method # "*"
      <3>1. SUFFICES ASSUME routes[i].method = "*" PROVE FALSE
        OBVIOUS
      <3>2. i \in 1 .. Len(routes) /\ Router!Serves(routes[i], "HEAD", p)
        BY <2>2, <3>1 DEF FirstRoute, Router!Serves
      <3>3. i \in DOMAIN routes
        BY <3>2, LenProperties
      <3>4. Router!matchMethod("HEAD", p) # 0
        <4> DEFINE found == {j \in DOMAIN routes : Router!Serves(routes[j], "HEAD", p)}
        <4>1. found # {} /\ found \subseteq Nat /\ 0 \notin found
          BY <3>2, <3>3, LenProperties
        <4>2. \E j \in found : \A k \in found : j <= k
          BY <4>1, LeastNatural
        <4>3. Router!matchMethod("HEAD", p) = CHOOSE j \in found : \A k \in found : j <= k
          BY <4>1 DEF Router!matchMethod
        <4> HIDE DEF found
        <4> QED
          BY <4>1, <4>2, <4>3
      <3> QED
        BY <1>1, <3>4
    <2>4. routes[i].method = "GET"
      BY <2>2, <2>3 DEF FirstRoute, Router!Serves
    <2> QED
      BY <1>1, <2>2, <2>4
  <1>2. CASE m # "HEAD" \/ Router!matchMethod("HEAD", p) # 0
    <2>1. i = Router!matchMethod(m, p)
      BY <1>2 DEF Router!match
    <2>2. FirstRoute(i, m, p)
      BY <2>1, MatchMethodFacts
    <2>3. m = "HEAD" => routes[i].method # "GET"
      BY <2>2 DEF FirstRoute, Router!Serves
    <2> QED
      BY <2>2, <2>3
  <1> QED
    BY <1>1, <1>2

\* What is registered later changes nothing for a request that was answered.
LEMMA RegisterStep ==
    ASSUME RouterInv, NEW r \in Candidates, routes' = Append(routes, r), answers' = answers
    PROVE  RouterInv'
  <1>1. routes \in Seq(Candidates) /\ Len(routes) \in Nat
    BY LenProperties DEF RouterInv
  <1>2. /\ routes' \in Seq(Candidates) /\ Len(routes') = Len(routes) + 1
        /\ \A i \in 1 .. Len(routes) : routes'[i] = routes[i]
    BY <1>1, AppendProperties
  <1>3. ASSUME NEW a \in answers, a.route # 0
        PROVE  AnsweredBy(a)'
    <2>1. AnsweredBy(a)
      BY <1>3 DEF RouterInv
    <2>2. a.route \in 1 .. Len(routes) /\ 1 .. a.route - 1 \subseteq 1 .. Len(routes)
      BY <1>1, <2>1 DEF AnsweredBy, FirstRoute
    <2>3. a.route \in 1 .. Len(routes') /\ routes'[a.route] = routes[a.route]
      BY <1>1, <1>2, <2>2
    <2> QED
      BY <1>2, <2>1, <2>2, <2>3 DEF AnsweredBy, FirstRoute, AskedAs, Router!Serves
  <1> QED
    BY <1>2, <1>3 DEF RouterInv

\* A protected route is answered "plain" only to who has its role.
LEMMA DispositionFacts ==
    ASSUME NEW i \in Nat \ {0}, NEW role, routes[i].kind = "protected",
           Router!Disposition(i, role) = "plain"
    PROVE  role # Nobody /\ routes[i].role \in {Nobody, role}
  <1>1. i > 0 /\ i # 0
    OBVIOUS
  <1>2. Router!Disposition(i, role) =
           CASE i = 0 -> "notFound"
             [] i > 0 /\ routes[i].kind = "protected" /\ role = Nobody -> "unauthenticated"
             [] i > 0 /\ routes[i].kind = "protected" /\ role # Nobody
                      /\ routes[i].role \notin {Nobody, role} -> "denied"
             [] OTHER -> IF routes[i].kind = "protected" THEN "plain" ELSE routes[i].kind
    BY Zenon DEF Router!Disposition, Nobody
  <1>3. ~(i > 0 /\ routes[i].kind = "protected" /\ role = Nobody)
    BY <1>1, <1>2
  <1>4. ~(i > 0 /\ routes[i].kind = "protected" /\ role # Nobody
          /\ routes[i].role \notin {Nobody, role})
    BY <1>1, <1>2, <1>3
  <1> QED
    BY <1>1, <1>3, <1>4

LEMMA HandleStep ==
    ASSUME RouterInv, NEW m, NEW p, NEW role, Router!handleRequest(m, p, role)
    PROVE  RouterInv'
  <1>1. PICK i : i = Router!match(m, p)
    OBVIOUS
  <1>2. PICK as : as = IF Router!ServedBuiltIn(m, p) THEN "builtIn"
                       ELSE Router!Disposition(i, role)
    OBVIOUS
  <1>3. PICK a : a = [method |-> m, path |-> p, role |-> role, as |-> as,
                      route |-> IF as = "builtIn" THEN 0 ELSE i, of |-> Len(routes)]
    OBVIOUS
  <1>4. answers' = answers \cup {a} /\ routes' = routes
    BY <1>1, <1>2, <1>3 DEF Router!handleRequest
  <1>5. ASSUME a.route # 0 PROVE AnsweredBy(a)
    <2>1. as # "builtIn" /\ a.route = i /\ i # 0 /\ as = Router!Disposition(i, role)
      BY <1>2, <1>3, <1>5
    <2>2. FirstRoute(i, IF m = "HEAD" /\ routes[i].method = "GET" THEN "GET" ELSE m, p)
      BY <1>1, <2>1, MatchFacts DEF RouterInv
    <2>3. i \in Nat \ {0}
      BY <2>2, LenProperties DEF FirstRoute, RouterInv
    <2> QED
      BY <1>3, <2>1, <2>2, <2>3, DispositionFacts DEF AnsweredBy, AskedAs
  <1> QED
    BY <1>4, <1>5 DEF RouterInv, AnsweredBy, AskedAs, FirstRoute

LEMMA RouterInvAlways == MCSpec => []RouterInv
  <1>1. MCInit => RouterInv
    BY DEF MCInit, Router!Init, RouterInv
  <1>2. RouterInv /\ [MCNext]_allVars => RouterInv'
    <2>1. CASE UNCHANGED <<routes, answers>> /\ RouterInv
      BY <2>1 DEF RouterInv, AnsweredBy, AskedAs, FirstRoute
    <2>2. CASE RouterInv /\ \E kind : \E r \in Candidates : Router!register(kind, r)
      BY <2>2, RegisterStep DEF Router!register, Router!push
    <2>3. CASE RouterInv /\ \E m \in Router!Methods : \E p, role : Router!handleRequest(m, p, role)
      BY <2>3, HandleStep
    <2>4. ASSUME [MCNext]_allVars
          PROVE  Router!Next \/ UNCHANGED <<routes, answers>>
      BY <2>4 DEF MCNext, allVars, routerVars, ServerIdle
    <2>5. ASSUME Router!initialize \/ Router!start \/ \E field, v : Router!configure(field, v)
          PROVE  UNCHANGED <<routes, answers>>
      BY <2>5 DEF Router!initialize, Router!start, Router!configure
    <2>6. ASSUME NEW host, NEW v, Router!_http_listen_on(host, v)
          PROVE  UNCHANGED <<routes, answers>>
      BY <2>6 DEF Router!_http_listen_on
    <2>7. ASSUME Router!Next
          PROVE  \/ UNCHANGED <<routes, answers>>
                 \/ \E kind : \E r \in Candidates : Router!register(kind, r)
                 \/ \E m \in Router!Methods : \E p, role : Router!handleRequest(m, p, role)
      BY <2>5, <2>6, <2>7, Zenon DEF Router!Next, Router!_http_route,
         Router!_http_route_protected, Router!_http_redirect_route, Router!_http_sse_route,
         Router!registerRedirect, Router!registerSse, Router!_cors_configure,
         Router!_rate_limit_configure, Router!_http_set_global_error_handler,
         Router!_http_listen
    <2> QED
      BY <2>1, <2>2, <2>3, <2>4, <2>7
  <1> QED
    BY <1>1, <1>2, PTL DEF MCSpec

LEMMA RoutesExact == RouterInv => Router!StableRoutes /\ Router!ProtectedHolds
  <1>1. ASSUME RouterInv, NEW a \in answers, a.route # 0
        PROVE  /\ (a.method = "HEAD" => routes[a.route].method # "GET")
                     => Router!match(a.method, a.path) = a.route
               /\ (routes[a.route].kind = "protected" /\ a.as = "plain")
                     => a.role # Nobody /\ routes[a.route].role \in {Nobody, a.role}
               /\ \/ routes[a.route].method \in {"*", a.method}
                  \/ a.method = "HEAD" /\ routes[a.route].method = "GET"
               /\ \A j \in 1 .. a.route - 1 :
                     ~Router!Serves(routes[j], routes[a.route].method, a.path)
    <2>1. AnsweredBy(a) /\ routes \in Seq(Candidates)
      BY <1>1 DEF RouterInv
    <2>2. FirstRoute(a.route, AskedAs(a), a.path) /\ a.route # 0
      BY <1>1, <2>1 DEF AnsweredBy
    <2>3. Router!matchMethod(AskedAs(a), a.path) = a.route
      BY <2>1, <2>2, MatchMethodFacts
    <2>4. (a.method = "HEAD" => routes[a.route].method # "GET")
             => Router!match(a.method, a.path) = a.route
      BY <2>2, <2>3 DEF Router!match, AskedAs
    <2>5. \/ routes[a.route].method \in {"*", a.method}
          \/ a.method = "HEAD" /\ routes[a.route].method = "GET"
      BY <2>2 DEF FirstRoute, AskedAs, Router!Serves
    <2>6. \A j \in 1 .. a.route - 1 :
             ~Router!Serves(routes[j], routes[a.route].method, a.path)
      BY <2>2, <2>5 DEF FirstRoute, AskedAs, Router!Serves
    <2> QED
      BY <2>1, <2>4, <2>5, <2>6 DEF AnsweredBy
  <1>2. RouterInv => Router!StableRoutes
    BY <1>1, Zenon DEF Router!StableRoutes
  <1>3. RouterInv => Router!ProtectedHolds
    BY <1>1, Zenon DEF Router!ProtectedHolds, Nobody
  <1> QED
    BY <1>2, <1>3

-----------------------------------------------------------------------------
(***************************************************************************)
(* Parameters.  A name is at the same place among the names as its group   *)
(* among the groups where ReadInPlace holds: as many names are listed      *)
(* before it as groups open before it, each of them for one position.      *)
(***************************************************************************)
Kinds == {"literal", "required", "optional", "wildcard"}
At(pattern, kind) == {i \in DOMAIN pattern : pattern[i].kind = kind}
Grouped(pattern) == {i \in DOMAIN pattern : pattern[i].kind # "literal"}

LEMMA RouterAscending == \A S : Router!Ascending(S) = Ascending(S)
  BY DEF Router!Ascending, Ascending, Router!Increasing, Increasing, Router!Cardinality,
     Cardinality

LEMMA PositionsFinite ==
    ASSUME NEW S, NEW pattern \in Seq(S)
    PROVE  /\ DOMAIN pattern \subseteq Nat
           /\ \A A : A \subseteq DOMAIN pattern => A \subseteq Nat /\ IsFiniteSet(A)
  <1>1. Len(pattern) \in Nat /\ DOMAIN pattern = 1 .. Len(pattern)
    BY LenProperties
  <1>2. IsFiniteSet(DOMAIN pattern) /\ DOMAIN pattern \subseteq Nat
    BY <1>1, FS_Interval
  <1> QED
    BY <1>2, FS_Subset

\* The names as paramNames() lists them: of optional positions, then of required ones.
LEMMA NamesListed ==
    ASSUME NEW S, NEW pattern \in Seq(S)
    PROVE  LET O == Ascending(At(pattern, "optional"))
               Q == Ascending(At(pattern, "required"))
               names == Router!paramNames(pattern)
           IN  /\ Len(O) \in Nat /\ DOMAIN O = 1 .. Len(O)
               /\ Len(Q) \in Nat /\ DOMAIN Q = 1 .. Len(Q)
               /\ DOMAIN names = 1 .. Len(O) + Len(Q)
               /\ \A i \in 1 .. Len(O) + Len(Q) :
                     names[i] = pattern[IF i <= Len(O) THEN O[i] ELSE Q[i - Len(O)]].name
  <1> DEFINE O == Ascending(At(pattern, "optional"))
             Q == Ascending(At(pattern, "required"))
             X == {pattern[i].name : i \in DOMAIN pattern}
             first == [i \in DOMAIN O |-> pattern[O[i]].name]
             second == [i \in DOMAIN Q |-> pattern[Q[i]].name]
  <1>1. \A kind : At(pattern, kind) \subseteq DOMAIN pattern
    BY DEF At
  <1>2. \A kind : /\ Ascending(At(pattern, kind)) \in Seq(At(pattern, kind))
                  /\ Ascending(At(pattern, kind)) \in Seq(DOMAIN pattern)
    BY <1>1, PositionsFinite, AscendingEnumerates, SeqMonotonic DEF Enumerates
  <1>3. O \in Seq(DOMAIN pattern) /\ Q \in Seq(DOMAIN pattern)
    BY <1>2
  <1>4. Router!paramNames(pattern) = first \o second
    <2>1. \A kind : Router!Positions(pattern, kind) = Ascending(At(pattern, kind))
      BY RouterAscending DEF Router!Positions, At
    <2>2. Router!Positions(pattern, "optional") = O /\ Router!Positions(pattern, "required") = Q
      BY <2>1
    <2> HIDE DEF O, Q
    <2> QED
      BY <2>2, Zenon DEF Router!paramNames
  <1> HIDE DEF O, Q
  <1>5. /\ Len(O) \in Nat /\ Len(Q) \in Nat
        /\ DOMAIN O = 1 .. Len(O) /\ DOMAIN Q = 1 .. Len(Q)
        /\ \A i \in 1 .. Len(O) : O[i] \in DOMAIN pattern
        /\ \A i \in 1 .. Len(Q) : Q[i] \in DOMAIN pattern
    BY <1>3, LenProperties, ElementOfSeq
  <1>6. /\ first \in Seq(X) /\ Len(first) = Len(O)
        /\ second \in Seq(X) /\ Len(second) = Len(Q)
        /\ \A i \in 1 .. Len(O) : first[i] = pattern[O[i]].name
        /\ \A i \in 1 .. Len(Q) : second[i] = pattern[Q[i]].name
    <2>1. first \in [1 .. Len(O) -> X] /\ second \in [1 .. Len(Q) -> X]
      BY <1>5
    <2>2. first \in Seq(X) /\ second \in Seq(X)
      BY <1>5, <2>1
    <2> QED
      BY <1>5, <2>1, <2>2, LenProperties
  <1> HIDE DEF first, second, X
  <1>7. /\ first \o second \in Seq(X) /\ Len(first \o second) = Len(O) + Len(Q)
        /\ \A i \in 1 .. Len(O) + Len(Q) : (first \o second)[i] =
              IF i <= Len(O) THEN first[i] ELSE second[i - Len(O)]
    <2>1. first \in Seq(X) /\ second \in Seq(X)
      BY <1>6
    <2>2. /\ first \o second \in Seq(X) /\ Len(first \o second) = Len(first) + Len(second)
          /\ \A i \in 1 .. Len(first) + Len(second) : (first \o second)[i] =
                IF i <= Len(first) THEN first[i] ELSE second[i - Len(first)]
      BY <2>1, ConcatProperties
    <2> QED
      BY <1>6, <2>2
  <1>8. DOMAIN (first \o second) = 1 .. Len(O) + Len(Q)
    BY <1>7, LenProperties
  <1>9. ASSUME NEW i \in 1 .. Len(O) + Len(Q)
        PROVE  (first \o second)[i]
                  = pattern[IF i <= Len(O) THEN O[i] ELSE Q[i - Len(O)]].name
    <2>1. CASE i <= Len(O)
      <3>1. i \in 1 .. Len(O)
        BY <1>5, <2>1
      <3> QED
        BY <1>6, <1>7, <2>1, <3>1
    <2>2. CASE ~(i <= Len(O))
      <3>1. i - Len(O) \in 1 .. Len(Q)
        BY <1>5, <2>2
      <3> QED
        BY <1>6, <1>7, <2>2, <3>1
    <2> QED
      BY <2>1, <2>2
  <1> QED
    BY <1>4, <1>5, <1>8, <1>9 DEF O, Q

LEMMA RouterMax ==
    ASSUME NEW S, S \subseteq Nat, NEW m \in S, \A i \in S : i <= m
    PROVE  Router!Max(S) = m
  <1>1. \A x \in S : (\A y \in S : x >= y) => x = m
    OBVIOUS
  <1>2. \A y \in S : m >= y
    OBVIOUS
  <1> QED
    BY <1>1, <1>2 DEF Router!Max

LEMMA RouterFlatten == \A s : Router!FlattenSeq(s) = FlattenSeq(s)
  BY DEF Router!FlattenSeq, FlattenSeq

\* The last of the names that are that of position k.
LEMMA NameFound ==
    ASSUME NEW S, NEW pattern \in Seq(S), NEW k \in DOMAIN pattern,
           \A i \in DOMAIN pattern : pattern[i].kind \in Kinds,
           Router!ReadInPlace(pattern, k)
    PROVE  LET names == Router!paramNames(pattern)
               m == Len(Ascending({j \in Grouped(pattern) : j < k})) + 1
           IN  /\ m \in DOMAIN names /\ names[m] = pattern[k].name
               /\ Router!Max({i \in DOMAIN names : names[i] = pattern[k].name}) = m
  <1> DEFINE O == Ascending(At(pattern, "optional"))
             Q == Ascending(At(pattern, "required"))
             names == Router!paramNames(pattern)
             m == Len(Ascending({j \in Grouped(pattern) : j < k})) + 1
             place(i) == IF i <= Len(O) THEN O[i] ELSE Q[i - Len(O)]
  <1>1. \A A : A \subseteq DOMAIN pattern => A \subseteq Nat /\ IsFiniteSet(A)
    BY PositionsFinite
  <1>2. /\ Len(O) \in Nat /\ DOMAIN O = 1 .. Len(O)
        /\ Len(Q) \in Nat /\ DOMAIN Q = 1 .. Len(Q)
        /\ DOMAIN names = 1 .. Len(O) + Len(Q)
        /\ \A i \in 1 .. Len(O) + Len(Q) : names[i] = pattern[place(i)].name
    BY NamesListed
  <1>3. /\ At(pattern, "optional") \subseteq DOMAIN pattern
        /\ At(pattern, "required") \subseteq DOMAIN pattern
    BY DEF At
  <1>4. /\ \A i \in 1 .. Len(O) : O[i] \in At(pattern, "optional")
        /\ \A i \in 1 .. Len(Q) : Q[i] \in At(pattern, "required")
    <2>1. O \in Seq(At(pattern, "optional")) /\ Q \in Seq(At(pattern, "required"))
      BY <1>1, <1>3, AscendingEnumerates DEF Enumerates
    <2> QED
      BY <2>1, ElementOfSeq
  <1>5. k \in Nat /\ DOMAIN pattern \subseteq Nat
    BY PositionsFinite
  <1>6. \A j \in DOMAIN pattern :
           k < j /\ pattern[j].kind \in {"optional", "required"} => pattern[j].name # pattern[k].name
    BY DEF Router!ReadInPlace
  <1>7. \E n \in 1 .. Len(O) + Len(Q) :
           /\ n = m /\ place(n) = k
           /\ \A i \in 1 .. Len(O) + Len(Q) : n < i => k < place(i)
    <2>1. CASE /\ pattern[k].kind = "optional"
               /\ \A j \in DOMAIN pattern : j < k => pattern[j].kind = "literal"
      <3>1. /\ {j \in Grouped(pattern) : j < k} = {}
            /\ {j \in At(pattern, "optional") : j < k} = {}
        BY <2>1 DEF Grouped, At
      <3>2. k \in At(pattern, "optional")
        BY <2>1 DEF At
      <3>3. /\ m \in 1 .. Len(O) /\ O[m] = k
            /\ \A i \in 1 .. Len(O) : m < i => k < O[i]
        BY <1>1, <1>3, <3>1, <3>2, AscendingAround
      <3>4. \A j \in At(pattern, "required") : k < j
        <4> SUFFICES ASSUME NEW j \in At(pattern, "required"), ~(k < j) PROVE FALSE
          OBVIOUS
        <4>1. j \in DOMAIN pattern /\ pattern[j].kind = "required"
          BY DEF At
        <4>2. j < k \/ j = k
          BY <1>5, <4>1
        <4> QED
          BY <2>1, <4>1, <4>2
      <3> HIDE DEF O, Q, m
      <3>5. m \in 1 .. Len(O) + Len(Q) /\ m <= Len(O)
        BY <1>2, <3>3
      <3>6. ASSUME NEW i \in 1 .. Len(O) + Len(Q), m < i PROVE k < place(i)
        <4>1. CASE i <= Len(O)
          BY <3>3, <3>6, <4>1
        <4>2. CASE ~(i <= Len(O))
          <5>1. i - Len(O) \in 1 .. Len(Q)
            BY <1>2, <4>2
          <5> QED
            BY <1>4, <3>4, <4>2, <5>1
        <4> QED
          BY <4>1, <4>2
      <3> QED
        BY <3>3, <3>5, <3>6
    <2>2. CASE /\ pattern[k].kind = "required"
               /\ \A j \in DOMAIN pattern : /\ pattern[j].kind # "optional"
                                            /\ j < k => pattern[j].kind # "wildcard"
      <3>1. /\ At(pattern, "optional") = {}
            /\ k \in At(pattern, "required")
        BY <2>2 DEF At
      <3>2. {j \in Grouped(pattern) : j < k} = {j \in At(pattern, "required") : j < k}
        BY <2>2 DEF Grouped, At, Kinds
      <3>3. /\ m \in 1 .. Len(Q) /\ Q[m] = k
            /\ \A i \in 1 .. Len(Q) : m < i => k < Q[i]
        BY <1>1, <1>3, <3>1, <3>2, AscendingAround
      <3>4. Len(O) = 0
        BY <1>2, <1>4, <3>1
      <3> HIDE DEF O, Q, m
      <3>5. m \in 1 .. Len(O) + Len(Q) /\ ~(m <= Len(O)) /\ m - Len(O) = m
        BY <1>2, <3>3, <3>4
      <3>6. ASSUME NEW i \in 1 .. Len(O) + Len(Q), m < i PROVE k < place(i)
        BY <1>2, <3>3, <3>4, <3>6
      <3> QED
        BY <3>3, <3>5, <3>6
    <2> QED
      BY <2>1, <2>2 DEF Router!ReadInPlace
  <1> HIDE DEF O, Q, names, m
  <1>8. m \in DOMAIN names /\ names[m] = pattern[k].name
    BY <1>2, <1>7
  <1>9. ASSUME NEW i \in DOMAIN names, m < i PROVE names[i] # pattern[k].name
    <2>1. k < place(i) /\ i \in 1 .. Len(O) + Len(Q)
      BY <1>2, <1>7, <1>9
    <2>2. place(i) \in DOMAIN pattern /\ pattern[place(i)].kind \in {"optional", "required"}
      <3>1. CASE i <= Len(O)
        BY <1>2, <1>4, <2>1, <3>1 DEF At
      <3>2. CASE ~(i <= Len(O))
        <4>1. i - Len(O) \in 1 .. Len(Q)
          BY <1>2, <2>1, <3>2
        <4> QED
          BY <1>4, <3>2, <4>1 DEF At
      <3> QED
        BY <3>1, <3>2
    <2> HIDE DEF place
    <2> QED
      BY <1>2, <1>6, <2>1, <2>2
  <1>10. Router!Max({i \in DOMAIN names : names[i] = pattern[k].name}) = m
    <2> DEFINE same == {i \in DOMAIN names : names[i] = pattern[k].name}
    <2>1. same \subseteq Nat /\ m \in same
      BY <1>2, <1>8
    <2>2. \A i \in same : i <= m
      BY <1>9, <2>1
    <2> HIDE DEF same
    <2>3. Router!Max(same) = m
      BY <2>1, <2>2, RouterMax
    <2> QED
      BY <2>3 DEF same
  <1> QED
    BY <1>8, <1>10 DEF names, m

\* A handler finds under the name what the position has taken.
LEMMA ParameterFound ==
    ASSUME NEW S, NEW pattern \in Seq(S), NEW path, NEW k \in DOMAIN pattern,
           \A i \in DOMAIN pattern : pattern[i].kind \in Kinds,
           Router!ReadInPlace(pattern, k)
    PROVE  Router!Params(pattern, path)[pattern[k].name] = Router!Taken(pattern, path, k)
  <1> DEFINE at == Ascending(Grouped(pattern))
             names == Router!paramNames(pattern)
             m == Len(Ascending({j \in Grouped(pattern) : j < k})) + 1
             taken(i) == Router!Taken(pattern, path, i)
             E == {taken(i) : i \in DOMAIN pattern} \cup {Router!Behind(taken(i)) : i \in DOMAIN pattern}
             pieces == [g \in DOMAIN at |-> Router!GroupsOf(pattern, path, at[g])]
  <1>1. /\ m \in DOMAIN names /\ names[m] = pattern[k].name
        /\ Router!Max({i \in DOMAIN names : names[i] = pattern[k].name}) = m
    BY NameFound
  <1>2. /\ Len(at) \in Nat /\ DOMAIN at = 1 .. Len(at) /\ m \in 1 .. Len(at) /\ at[m] = k
        /\ \A i \in 1 .. Len(at) : at[i] \in Grouped(pattern) /\ (i < m => at[i] < k)
    <2>1. Grouped(pattern) \subseteq DOMAIN pattern /\ k \in Grouped(pattern)
      BY DEF Grouped, Router!ReadInPlace
    <2>2. Grouped(pattern) \subseteq Nat /\ IsFiniteSet(Grouped(pattern))
      BY <2>1, PositionsFinite
    <2> QED
      BY <2>1, <2>2, AscendingAround
  <1>3. Router!Groups(pattern, path) = FlattenSeq(pieces)
    BY RouterAscending, RouterFlatten DEF Router!Groups, Grouped
  <1> HIDE DEF at, names, m
  <1>4. ASSUME NEW i \in DOMAIN pattern
        PROVE  /\ Router!GroupsOf(pattern, path, i) \in Seq(E)
               /\ Router!GroupsOf(pattern, path, i) # <<>>
               /\ Router!GroupsOf(pattern, path, i)[1] = taken(i)
               /\ pattern[i].kind # "optional" => Len(Router!GroupsOf(pattern, path, i)) = 1
    <2>1. taken(i) \in E /\ Router!Behind(taken(i)) \in E
      BY <1>4
    <2>2. PICK t, b : t = taken(i) /\ b = Router!Behind(taken(i))
      OBVIOUS
    <2>3. Router!GroupsOf(pattern, path, i) = IF pattern[i].kind = "optional" THEN <<t, b>> ELSE <<t>>
      BY <2>2 DEF Router!GroupsOf
    <2> HIDE DEF E, taken
    <2> QED
      BY <2>1, <2>2, <2>3
  <1> HIDE DEF E
  <1>5. \A g \in 1 .. Len(at) : at[g] \in DOMAIN pattern /\ pattern[at[g]].kind # "literal"
    BY <1>2 DEF Grouped
  <1>6. pieces \in Seq(Seq(E)) /\ Len(pieces) = Len(at)
    <2>1. pieces \in [1 .. Len(at) -> Seq(E)]
      BY <1>2, <1>4, <1>5
    <2>2. pieces \in Seq(Seq(E))
      BY <1>2, <2>1
    <2> QED
      BY <1>2, <2>1, <2>2, LenProperties
  <1>7. ASSUME NEW i \in 1 .. m - 1 PROVE Len(pieces[i]) = 1
    <2>1. i \in 1 .. Len(at) /\ i < m
      BY <1>2
    <2>2. at[i] \in DOMAIN pattern /\ at[i] < k /\ pattern[at[i]].kind # "literal"
      BY <1>2, <1>5, <2>1
    <2>3. pattern[at[i]].kind # "optional"
      BY <2>2 DEF Router!ReadInPlace
    <2> QED
      BY <1>2, <1>4, <2>1, <2>2, <2>3
  <1>8. Len(pieces[m]) # 0 /\ pieces[m][1] = taken(k)
    <2>1. pieces[m] = Router!GroupsOf(pattern, path, k)
      BY <1>2
    <2>2. pieces[m] \in Seq(E) /\ pieces[m] # <<>> /\ pieces[m][1] = taken(k)
      BY <1>4, <2>1
    <2> QED
      BY <2>2, EmptySeq
  <1> HIDE DEF pieces, taken
  <1>9. FlattenSeq(pieces)[m] = pieces[m][1]
    BY <1>2, <1>6, <1>7, <1>8, FlattenLead
  <1>10. Router!Params(pattern, path)[pattern[k].name] = Router!Groups(pattern, path)[m]
    <2>1. pattern[k].name \in Router!Range(names)
      BY <1>1 DEF Router!Range
    <2>2. Router!Params(pattern, path)
             = [n \in Router!Range(names) |->
                   Router!Groups(pattern, path)[Router!Max({i \in DOMAIN names : names[i] = n})]]
      BY DEF Router!Params, names
    <2> QED
      BY <1>1, <2>1, <2>2
  <1> QED
    BY <1>3, <1>8, <1>9, <1>10 DEF taken

\* A request that a route has answered is answered by the same route ever after, no
\* earlier route would have served it, and a protected route was not reached without
\* its role, whatever the program registers and when; and a handler reads a parameter
\* where its name stands in the pattern if ReadInPlace says so (router/index.ts,
\* server.ts).
THEOREM RequestsAreRouted == MCSpec => []RoutingExact
  <1>1. ASSUME RouterInv PROVE Router!ParamsBound
    <2> SUFFICES ASSUME NEW i \in DOMAIN routes, NEW path \in Paths,
                        NEW k \in DOMAIN routes[i].pattern,
                        Router!ReadInPlace(routes[i].pattern, k)
                 PROVE  Router!Params(routes[i].pattern, path)[routes[i].pattern[k].name]
                           = Router!Taken(routes[i].pattern, path, k)
      BY Zenon DEF Router!ParamsBound
    <2>1. routes[i] \in Candidates
      BY <1>1, ElementOfSeq, LenProperties DEF RouterInv
    <2>2. PICK pattern : pattern = routes[i].pattern
      OBVIOUS
    <2>3. pattern \in Seq(Router!Segments)
      BY <2>1, <2>2, RoutingAssumption
    <2>4. ASSUME NEW j \in DOMAIN pattern PROVE pattern[j].kind \in Kinds
      <3>1. pattern[j] \in Router!Segments
        BY <2>3, ElementOfSeq, LenProperties
      <3> QED
        BY <3>1 DEF Router!Segments, Kinds
    <2> QED
      BY <2>2, <2>3, <2>4, ParameterFound
  <1>2. RouterInv => RoutingExact
    BY <1>1, RoutesExact DEF RoutingExact, Router!RoutingExact
  <1> QED
    BY <1>2, RouterInvAlways, PTL

-----------------------------------------------------------------------------
(***************************************************************************)
(* The bridge.  While a handler runs no asynchronous call settles, so that *)
(* the id of the thread is the one the handler has seen inserted; results  *)
(* settle in the order of their calls.                                     *)
(***************************************************************************)
Ids == 0 .. MaxInserts
Unsettled == [op : {"query", "execute"}, kind : Bridge!Kinds, id : Ids, no : Nat]

BridgeTypes ==
    /\ reports \in BOOLEAN /\ running \in BOOLEAN
    /\ bridgeRequest \in 0 .. MaxHandlers /\ calls \in 0 .. MaxCalls
    /\ unsettled \in Seq(Unsettled) /\ issued \in Nat
    /\ rowid \in Ids /\ lastInsertId \in Ids /\ inserted \in Ids
    /\ DOMAIN cache = {"query", "execute"} /\ cache.query \in Nat /\ cache.execute \in Nat

IdsOwn == told.last = told.own /\ (running => lastInsertId = inserted)

\* No call that is still to settle is older than a result that is there.
ResultsInOrder ==
    /\ \A i \in 1 .. Len(unsettled) : /\ cache.query < unsettled[i].no
                                      /\ cache.execute < unsettled[i].no
                                      /\ unsettled[i].no <= issued
    /\ \A i, j \in 1 .. Len(unsettled) : i < j => unsettled[i].no < unsettled[j].no
    /\ cache.query <= issued /\ cache.execute <= issued

BridgeInv == BridgeTypes /\ IdsOwn /\ ResultsInOrder

\* What a call that has just been made appends.
LEMMA IssueStep ==
    ASSUME BridgeInv, NEW call \in Unsettled, call.no = issued + 1, issued' = issued + 1,
           unsettled' = Append(unsettled, call), rowid' \in Ids, calls' \in 0 .. MaxCalls,
           UNCHANGED <<reports, bridgeRequest, running, lastInsertId, inserted, cache, told>>
    PROVE  BridgeInv'
  <1>1. unsettled \in Seq(Unsettled) /\ Len(unsettled) \in Nat /\ issued \in Nat
    BY LenProperties DEF BridgeInv, BridgeTypes
  <1>2. /\ unsettled' \in Seq(Unsettled) /\ Len(unsettled') = Len(unsettled) + 1
        /\ \A i \in 1 .. Len(unsettled) : unsettled'[i] = unsettled[i]
        /\ unsettled'[Len(unsettled) + 1] = call
    BY <1>1, AppendProperties
  <1>3. \A i \in 1 .. Len(unsettled') : i \in 1 .. Len(unsettled) \/ i = Len(unsettled) + 1
    BY <1>1, <1>2
  <1>4. \A i \in 1 .. Len(unsettled) : unsettled[i].no \in Nat
    <2>1. \A i \in 1 .. Len(unsettled) : unsettled[i] \in Unsettled
      BY <1>1, ElementOfSeq
    <2> QED
      BY <2>1 DEF Unsettled
  <1>5. BridgeTypes' /\ IdsOwn'
    BY <1>1, <1>2 DEF BridgeInv, BridgeTypes, IdsOwn
  <1>6. cache.query \in Nat /\ cache.execute \in Nat
    BY DEF BridgeInv, BridgeTypes
  <1>7. \A i \in 1 .. Len(unsettled') : /\ cache.query < unsettled'[i].no
                                        /\ cache.execute < unsettled'[i].no
                                        /\ unsettled'[i].no <= issued'
    <2> SUFFICES ASSUME NEW i \in 1 .. Len(unsettled')
                 PROVE  /\ cache.query < unsettled'[i].no /\ cache.execute < unsettled'[i].no
                        /\ unsettled'[i].no <= issued + 1
      OBVIOUS
    <2>1. CASE i \in 1 .. Len(unsettled)
      BY <1>1, <1>2, <1>4, <1>6, <2>1 DEF BridgeInv, ResultsInOrder
    <2>2. CASE i = Len(unsettled) + 1
      BY <1>1, <1>2, <1>6, <2>2 DEF BridgeInv, ResultsInOrder
    <2> QED
      BY <1>3, <2>1, <2>2
  <1>8. ASSUME NEW i \in 1 .. Len(unsettled'), NEW j \in 1 .. Len(unsettled'), i < j
        PROVE  unsettled'[i].no < unsettled'[j].no
    <2>1. i \in 1 .. Len(unsettled)
      BY <1>1, <1>2, <1>8
    <2>2. CASE j \in 1 .. Len(unsettled)
      BY <1>2, <1>8, <2>1, <2>2 DEF BridgeInv, ResultsInOrder
    <2>3. CASE j = Len(unsettled) + 1
      BY <1>1, <1>2, <1>4, <2>1, <2>3 DEF BridgeInv, ResultsInOrder
    <2> QED
      BY <1>3, <2>2, <2>3
  <1>9. cache'.query <= issued' /\ cache'.execute <= issued'
    BY <1>1, <1>6 DEF BridgeInv, ResultsInOrder
  <1> QED
    BY <1>5, <1>7, <1>8, <1>9 DEF BridgeInv, ResultsInOrder

LEMMA RememberedIds ==
    \A kind, id : id \in Ids /\ lastInsertId \in Ids => Bridge!Remember(kind, id) \in Ids
  BY BridgeAssumption DEF Bridge!Remember, Bridge!Reported, Ids

LEMMA SettleStep ==
    ASSUME BridgeInv, Bridge!Settle
    PROVE  BridgeInv'
  <1>1. PICK p : p = Head(unsettled)
    OBVIOUS
  <1>2. /\ ~running /\ unsettled # <<>> /\ unsettled' = Tail(unsettled)
        /\ cache' = [cache EXCEPT ![p.op] = p.no]
        /\ lastInsertId' = (IF p.op = "execute" THEN Bridge!Remember(p.kind, p.id)
                            ELSE lastInsertId)
        /\ UNCHANGED <<reports, bridgeRequest, calls, running, rowid, inserted, issued, told>>
    BY <1>1 DEF Bridge!Settle
  <1>3. unsettled \in Seq(Unsettled) /\ Len(unsettled) \in Nat /\ issued \in Nat
    BY LenProperties DEF BridgeInv, BridgeTypes
  <1>4. /\ unsettled' \in Seq(Unsettled) /\ Len(unsettled') = Len(unsettled) - 1
        /\ \A i \in 1 .. Len(unsettled) - 1 : unsettled'[i] = unsettled[i + 1]
        /\ p = unsettled[1] /\ Len(unsettled) >= 1
    BY <1>1, <1>2, <1>3, HeadTailProperties
  <1>5. /\ \A i \in 1 .. Len(unsettled) : unsettled[i].no \in Nat
        /\ p \in Unsettled /\ p.op \in {"query", "execute"} /\ p.no \in Nat /\ p.id \in Ids
    <2>1. \A i \in 1 .. Len(unsettled) : unsettled[i] \in Unsettled
      BY <1>3, ElementOfSeq
    <2>2. 1 \in 1 .. Len(unsettled)
      BY <1>3, <1>4
    <2> QED
      BY <1>4, <2>1, <2>2 DEF Unsettled
  <1>6. /\ cache.query \in Nat /\ cache.execute \in Nat /\ DOMAIN cache = {"query", "execute"}
        /\ cache.query < p.no /\ cache.execute < p.no /\ p.no <= issued
    BY <1>3, <1>4 DEF BridgeInv, BridgeTypes, ResultsInOrder
  <1>7. /\ DOMAIN cache' = {"query", "execute"}
        /\ cache'.query \in {cache.query, p.no} /\ cache'.execute \in {cache.execute, p.no}
    BY <1>2, <1>5, <1>6
  <1>8. cache'.query \in Nat /\ cache'.execute \in Nat /\ cache'.query <= p.no /\ cache'.execute <= p.no
    BY <1>5, <1>6, <1>7
  <1>9. BridgeTypes' /\ IdsOwn'
    <2>1. lastInsertId' \in Ids
      BY <1>2, <1>5, RememberedIds DEF BridgeInv, BridgeTypes
    <2> QED
      BY <1>2, <1>4, <1>7, <1>8, <2>1 DEF BridgeInv, BridgeTypes, IdsOwn
  <1>10. \A i \in 1 .. Len(unsettled) - 1 : /\ p.no < unsettled[i + 1].no
                                            /\ unsettled[i + 1].no <= issued
                                            /\ unsettled[i + 1].no \in Nat
    <2> SUFFICES ASSUME NEW i \in 1 .. Len(unsettled) - 1
                 PROVE  /\ p.no < unsettled[i + 1].no /\ unsettled[i + 1].no <= issued
                        /\ unsettled[i + 1].no \in Nat
      OBVIOUS
    <2>1. i + 1 \in 1 .. Len(unsettled) /\ 1 \in 1 .. Len(unsettled) /\ 1 < i + 1
      BY <1>3, <1>4
    <2> QED
      BY <1>4, <1>5, <2>1 DEF BridgeInv, ResultsInOrder
  <1>11. ASSUME NEW i \in 1 .. Len(unsettled') PROVE
            /\ cache'.query < unsettled'[i].no /\ cache'.execute < unsettled'[i].no
            /\ unsettled'[i].no <= issued'
    <2>1. i \in 1 .. Len(unsettled) - 1 /\ unsettled'[i] = unsettled[i + 1]
      BY <1>4
    <2> QED
      BY <1>2, <1>5, <1>8, <1>10, <2>1
  <1>12. ASSUME NEW i \in 1 .. Len(unsettled'), NEW j \in 1 .. Len(unsettled'), i < j
         PROVE  unsettled'[i].no < unsettled'[j].no
    <2>1. /\ i + 1 \in 1 .. Len(unsettled) /\ j + 1 \in 1 .. Len(unsettled) /\ i + 1 < j + 1
          /\ unsettled'[i] = unsettled[i + 1] /\ unsettled'[j] = unsettled[j + 1]
      BY <1>3, <1>4, <1>12
    <2> QED
      BY <2>1 DEF BridgeInv, ResultsInOrder
  <1>13. cache'.query <= issued' /\ cache'.execute <= issued'
    BY <1>2, <1>3, <1>5, <1>6, <1>8
  <1> QED
    BY <1>9, <1>11, <1>12, <1>13 DEF BridgeInv, ResultsInOrder

LEMMA BridgeInvStep ==
    ASSUME BridgeInv, [Bridge!Next]_(Bridge!vars)
    PROVE  BridgeInv'
  <1> DEFINE Typed == /\ reports' \in BOOLEAN /\ running' \in BOOLEAN
                      /\ bridgeRequest' \in 0 .. MaxHandlers /\ calls' \in 0 .. MaxCalls
                      /\ rowid' \in Ids /\ lastInsertId' \in Ids /\ inserted' \in Ids
  <1>1. ASSUME UNCHANGED <<unsettled, issued, cache>>, Typed, IdsOwn'
        PROVE  BridgeInv'
    BY <1>1 DEF BridgeInv, BridgeTypes, ResultsInOrder
  <1>2. /\ reports \in BOOLEAN /\ running \in BOOLEAN /\ rowid \in Nat
        /\ bridgeRequest \in 0 .. MaxHandlers /\ calls \in 0 .. MaxCalls
        /\ rowid \in Ids /\ lastInsertId \in Ids /\ inserted \in Ids
        /\ issued \in Nat /\ issued + 1 \in Nat /\ 0 \in Ids /\ 0 \in 0 .. MaxCalls
    BY BridgeAssumption DEF BridgeInv, BridgeTypes, Ids
  <1>3. Bridge!Call => running /\ calls' \in 0 .. MaxCalls
    BY <1>2, BridgeAssumption DEF Bridge!Call
  <1>4. \A kind : Bridge!MayInsert(kind) => Bridge!RowidAfter(kind) \in Ids
    BY <1>2, BridgeAssumption DEF Bridge!MayInsert, Bridge!RowidAfter, Ids
  <1>5. ASSUME \/ UNCHANGED Bridge!vars \/ Bridge!Begin \/ Bridge!End
               \/ Bridge!lastInsertIdResponse \/ Bridge!_db_query_result \/ Bridge!extractCount
               \/ \E k \in Bridge!KeySet : Bridge!Change(k)
               \/ \E per \in PerPages : Bridge!_db_cursor_page(per) \/ Bridge!_db_paginate(per)
        PROVE  BridgeInv'
    <2> DEFINE Queue == UNCHANGED <<unsettled, issued, cache>>
               Told == UNCHANGED <<told, running, lastInsertId, inserted>>
    <2>1. /\ UNCHANGED Bridge!vars => Queue /\ Told /\ Typed
          /\ Bridge!extractCount => Queue /\ Told /\ Typed
      BY <1>2 DEF Bridge!vars, Bridge!answers, Bridge!extractCount
    <2>2. \A k : Bridge!Change(k) => Queue /\ Told /\ Typed
      BY <1>2 DEF Bridge!answers, Bridge!Change
    <2>3. ASSUME NEW per
          PROVE  /\ Bridge!_db_cursor_page(per) => Queue /\ Told /\ Typed
                 /\ Bridge!_db_paginate(per) => Queue /\ Told /\ Typed
      BY <1>2, <1>3 DEF Bridge!answers, Bridge!_db_cursor_page, Bridge!_db_paginate
    <2>4. Bridge!Begin \/ Bridge!End => Queue /\ Typed
      <3>1. ASSUME Bridge!Begin PROVE Queue /\ Typed
        <4>1. bridgeRequest' = bridgeRequest + 1 /\ bridgeRequest < MaxHandlers
          BY <3>1 DEF Bridge!Begin
        <4>2. bridgeRequest' \in 0 .. MaxHandlers
          BY <1>2, <4>1, BridgeAssumption
        <4> QED
          BY <1>2, <3>1, <4>2 DEF Bridge!Begin, Bridge!setRequestContext
      <3>2. Bridge!End => Queue /\ Typed
        BY <1>2 DEF Bridge!answers, Bridge!End
      <3> QED
        BY <3>1, <3>2
    <2>5. Bridge!lastInsertIdResponse \/ Bridge!_db_query_result => Queue /\ Typed
      BY <1>2, <1>3 DEF Bridge!lastInsertIdResponse, Bridge!_db_query_result
    <2>6. Told => IdsOwn'
      BY DEF BridgeInv, IdsOwn
    <2>7. ASSUME Bridge!Begin \/ Bridge!End PROVE IdsOwn'
      BY <2>7 DEF BridgeInv, IdsOwn, Bridge!Begin, Bridge!End, Bridge!setRequestContext,
         Bridge!answers
    <2>8. ASSUME Bridge!lastInsertIdResponse PROVE IdsOwn'
      <3>1. PICK id : id = lastInsertId /\ id = inserted
        BY <2>8 DEF BridgeInv, IdsOwn, Bridge!lastInsertIdResponse, Bridge!Call
      <3>2. told' = [told EXCEPT !.last = id, !.own = id]
        BY <2>8, <3>1 DEF Bridge!lastInsertIdResponse
      <3> QED
        BY <2>8, <3>1, <3>2 DEF IdsOwn, Bridge!lastInsertIdResponse
    <2>9. ASSUME Bridge!_db_query_result PROVE IdsOwn'
      BY <2>9 DEF BridgeInv, IdsOwn, Bridge!_db_query_result
    <2> HIDE DEF Queue, Told, Typed
    <2>10. Queue /\ Typed /\ IdsOwn'
      BY <1>5, <2>1, <2>2, <2>3, <2>4, <2>5, <2>6, <2>7, <2>8, <2>9
    <2> QED
      BY <1>1, <2>10 DEF Queue
  <1>6. ASSUME NEW kind \in Bridge!Kinds, Bridge!_db_execute(kind) PROVE BridgeInv'
    <2>1. /\ rowid' = (IF kind = "insert" THEN rowid + 1 ELSE rowid)
          /\ lastInsertId' = Bridge!Remember(kind, rowid')
          /\ inserted' = (IF kind = "insert" /\ reports THEN rowid' ELSE inserted)
          /\ running /\ Bridge!MayInsert(kind) /\ Bridge!Call
          /\ UNCHANGED <<reports, bridgeRequest, unsettled, issued, cache, told, running>>
      BY <1>6 DEF Bridge!_db_execute, Bridge!RowidAfter, Bridge!Call
    <2>2. rowid' \in Ids /\ (kind = "insert" => rowid' # 0)
      BY <1>2, <1>4, <2>1 DEF Bridge!RowidAfter
    <2>3. lastInsertId = inserted
      BY <2>1 DEF BridgeInv, IdsOwn
    <2>4. \A id : (kind = "insert" => id # 0) =>
             Bridge!Remember(kind, id) = IF kind = "insert" /\ reports THEN id ELSE lastInsertId
      BY DEF Bridge!Remember, Bridge!Reported, Bridge!isInsert, Bridge!Kinds
    <2>5. lastInsertId' = inserted'
      BY <2>1, <2>2, <2>3, <2>4
    <2>6. IdsOwn'
      BY <2>1, <2>5 DEF BridgeInv, IdsOwn
    <2>7. Typed
      <3>1. lastInsertId' \in Ids /\ inserted' \in Ids
        BY <1>2, <2>1, <2>2, RememberedIds
      <3> QED
        BY <1>2, <1>3, <2>1, <2>2, <3>1
    <2> HIDE DEF Typed
    <2> QED
      BY <1>1, <2>1, <2>6, <2>7
  <1>7. ASSUME NEW kind \in Bridge!Kinds, Bridge!_db_execute_async(kind) PROVE BridgeInv'
    <2>1. PICK call : call = [op |-> "execute", kind |-> kind,
                              id |-> Bridge!RowidAfter(kind), no |-> issued + 1]
      OBVIOUS
    <2>2. Bridge!RowidAfter(kind) \in Ids /\ calls' \in 0 .. MaxCalls
      BY <1>3, <1>4, <1>7 DEF Bridge!_db_execute_async
    <2>3. call \in Unsettled /\ call.no = issued + 1
      BY <1>2, <2>1, <2>2 DEF Unsettled
    <2>4. /\ rowid' = Bridge!RowidAfter(kind) /\ issued' = issued + 1
          /\ unsettled' = Append(unsettled, call)
          /\ UNCHANGED <<reports, bridgeRequest, running, lastInsertId, inserted, cache, told>>
      BY <1>7, <2>1 DEF Bridge!_db_execute_async
    <2> QED
      BY <2>2, <2>3, <2>4, IssueStep
  <1>8. ASSUME Bridge!_db_query_async PROVE BridgeInv'
    <2>1. PICK call : call = [op |-> "query", kind |-> "update", id |-> 0, no |-> issued + 1]
      OBVIOUS
    <2>2. call \in Unsettled /\ call.no = issued + 1 /\ calls' \in 0 .. MaxCalls
      BY <1>2, <1>3, <1>8, <2>1 DEF Unsettled, Bridge!Kinds, Bridge!_db_query_async
    <2>3. /\ rowid' = rowid /\ issued' = issued + 1
          /\ unsettled' = Append(unsettled, call)
          /\ UNCHANGED <<reports, bridgeRequest, running, lastInsertId, inserted, cache, told>>
      BY <1>8, <2>1 DEF Bridge!_db_query_async
    <2> QED
      BY <1>2, <2>2, <2>3, IssueStep
  <1> QED
    BY <1>5, <1>6, <1>7, <1>8, SettleStep DEF Bridge!Next

LEMMA BridgeInvAlways == MCSpec => []BridgeInv
  <1>1. MCInit => BridgeInv
    <2> SUFFICES ASSUME Bridge!Init PROVE BridgeInv
      BY DEF MCInit
    <2>1. <<>> \in Seq(Unsettled) /\ Len(<<>>) = 0 /\ 1 .. 0 = {}
      OBVIOUS
    <2>2. /\ unsettled = <<>> /\ rowid = 0 /\ issued = 0 /\ running = FALSE
          /\ reports \in BOOLEAN /\ bridgeRequest = 0 /\ calls = 0
          /\ lastInsertId = 0 /\ inserted = 0
          /\ cache = [query |-> 0, execute |-> 0] /\ told.last = told.own
      BY DEF Bridge!Init, Bridge!Untold
    <2>3. BridgeTypes /\ IdsOwn
      <3>1. 0 \in Ids /\ 0 \in 0 .. MaxHandlers /\ 0 \in 0 .. MaxCalls
        BY BridgeAssumption DEF Ids
      <3>2. /\ DOMAIN cache = {"query", "execute"} /\ cache.query \in Nat
            /\ cache.execute \in Nat
        BY DEF Bridge!Init
      <3> QED
        BY <2>1, <2>2, <3>1, <3>2 DEF BridgeTypes, IdsOwn
    <2>4. ResultsInOrder
      BY <2>1, <2>2 DEF ResultsInOrder
    <2> QED
      BY <2>3, <2>4 DEF BridgeInv
  <1>2. BridgeInv /\ [MCNext]_allVars => BridgeInv'
    <2>1. [MCNext]_allVars => [Bridge!Next]_(Bridge!vars)
      BY DEF MCNext, allVars, programVars, bridgeVars, ProgramIdle, Bridge!vars,
         Bridge!answers, Bridge!walks
    <2> QED
      BY <2>1, BridgeInvStep
  <1> QED
    BY <1>1, <1>2, PTL DEF MCSpec

LEMMA UnsettledLatest == BridgeInv => Bridge!LatestResults
  <1>1. ASSUME BridgeInv, NEW i \in 1 .. Len(unsettled)
        PROVE  unsettled[i].no > cache[unsettled[i].op] /\ unsettled[i].no <= issued
    <2>1. /\ unsettled[i] \in Unsettled /\ unsettled[i].no \in Nat
          /\ unsettled[i].op \in {"query", "execute"}
      <3>1. unsettled[i] \in Unsettled
        BY <1>1, ElementOfSeq DEF BridgeInv, BridgeTypes
      <3> QED
        BY <3>1 DEF Unsettled
    <2>2. /\ cache.query \in Nat /\ cache.execute \in Nat
          /\ cache.query < unsettled[i].no /\ cache.execute < unsettled[i].no
          /\ unsettled[i].no <= issued
      BY <1>1 DEF BridgeInv, BridgeTypes, ResultsInOrder
    <2> QED
      BY <2>1, <2>2
  <1> QED
    BY <1>1 DEF Bridge!LatestResults

-----------------------------------------------------------------------------
(***************************************************************************)
(* Walks over a table, page by page.  A walk by cursor has met every row   *)
(* up to its cursor that was there all along; one by pages has read, as    *)
(* long as nobody changes the table, the first rows of it in order.        *)
(***************************************************************************)
Per(n) == Bridge!safePerPage(n)

LEMMA BridgeAscending == \A S : Bridge!Ascending(S) = Ascending(S)
  BY DEF Bridge!Ascending, Ascending, Bridge!Increasing, Increasing, Bridge!Cardinality,
     Cardinality

LEMMA BridgeNumbers ==
    /\ MaxKey \in Nat /\ PerPages \subseteq Nat /\ MaxPerPage \in Nat \ {0}
    /\ MaxHandlers \in Nat /\ MaxCalls \in Nat /\ MaxInserts \in Nat /\ MaxChanges \in Nat
    /\ Bridge!KeySet = 1 .. MaxKey /\ Bridge!KeySet \subseteq Nat /\ IsFiniteSet(Bridge!KeySet)
    /\ \A n \in Nat : Per(n) \in Nat \ {0}
  <1>1. Bridge!KeySet = 1 .. MaxKey /\ MaxKey \in Int /\ 1 \in Int
    BY BridgeAssumption DEF Bridge!KeySet
  <1>2. IsFiniteSet(Bridge!KeySet)
    BY <1>1, FS_Interval
  <1>3. \A n \in Nat : Per(n) \in Nat \ {0}
    BY BridgeAssumption DEF Per, Bridge!safePerPage, Bridge!Smaller
  <1> QED
    BY <1>1, <1>2, <1>3, BridgeAssumption

Cursors ==
    [open : BOOLEAN, per : Nat, after : Nat, seen : Seq(Bridge!KeySet), more : BOOLEAN,
     stable : SUBSET Bridge!KeySet, ever : SUBSET Bridge!KeySet]

CursorInv ==
    /\ cursor \in Cursors /\ table \subseteq Bridge!KeySet
    /\ \A i, j \in 1 .. Len(cursor.seen) : i < j => cursor.seen[i] < cursor.seen[j]
    /\ ~cursor.open => cursor.seen = <<>> /\ cursor.more /\ cursor.after = 0
    /\ cursor.open => /\ \A i \in 1 .. Len(cursor.seen) : cursor.seen[i] \in cursor.ever
                      /\ cursor.stable \subseteq table /\ table \subseteq cursor.ever
    /\ cursor.more => \A i \in 1 .. Len(cursor.seen) : cursor.seen[i] <= cursor.after
    /\ cursor.open => \A k \in cursor.stable :
          ~cursor.more \/ k <= cursor.after => \E i \in 1 .. Len(cursor.seen) : cursor.seen[i] = k

\* What Upto takes, and the rows behind a cursor in their order.
LEMMA UptoFacts ==
    ASSUME NEW S, NEW s \in Seq(S), NEW n \in Nat
    PROVE  /\ Bridge!Upto(s, n) \in Seq(S)
           /\ Len(Bridge!Upto(s, n)) = IF n < Len(s) THEN n ELSE Len(s)
           /\ \A i \in 1 .. Len(Bridge!Upto(s, n)) : Bridge!Upto(s, n)[i] = s[i]
           /\ n >= Len(s) => Bridge!Upto(s, n) = s
  <1>1. PICK m : m = Bridge!Smaller(n, Len(s))
    OBVIOUS
  <1>2. Len(s) \in Nat /\ m \in 0 .. Len(s) /\ m = IF n < Len(s) THEN n ELSE Len(s)
    BY <1>1, LenProperties DEF Bridge!Smaller
  <1>3. Bridge!Upto(s, n) = SubSeq(s, 1, m)
    BY <1>1 DEF Bridge!Upto
  <1>4. \A i \in 1 .. m : s[i] \in S
    BY <1>2, ElementOfSeq
  <1>5. /\ SubSeq(s, 1, m) \in Seq(S) /\ Len(SubSeq(s, 1, m)) = m
        /\ \A i \in 1 .. m : SubSeq(s, 1, m)[i] = s[i]
    BY <1>2, <1>4, SubSeqProperties
  <1>6. n >= Len(s) => SubSeq(s, 1, m) = s
    BY <1>2, SubSeqFull
  <1> QED
    BY <1>2, <1>3, <1>5, <1>6

LEMMA RowsFacts ==
    ASSUME NEW after \in Nat, table \subseteq Bridge!KeySet
    PROVE  LET rows == Bridge!Rows(after)
           IN  /\ rows \in Seq(Bridge!KeySet) /\ Len(rows) \in Nat
               /\ \A i \in 1 .. Len(rows) : rows[i] \in table /\ rows[i] > after /\ rows[i] \in Nat
               /\ \A i, j \in 1 .. Len(rows) : i < j => rows[i] < rows[j]
               /\ \A k \in table : k > after => \E i \in 1 .. Len(rows) : rows[i] = k
  <1> DEFINE S == {k \in table : k > after}
             rows == Ascending(S)
  <1>1. S \subseteq Bridge!KeySet /\ S \subseteq Nat /\ IsFiniteSet(S)
    BY BridgeNumbers, FS_Subset
  <1>2. Bridge!Rows(after) = rows
    BY BridgeAscending DEF Bridge!Rows
  <1>3. Enumerates(rows, S)
    BY <1>1, AscendingEnumerates
  <1>4. rows \in Seq(Bridge!KeySet)
    BY <1>1, <1>3, SeqMonotonic DEF Enumerates
  <1> HIDE DEF S, rows
  <1>5. /\ Len(rows) \in Nat
        /\ \A i \in 1 .. Len(rows) : rows[i] \in S /\ rows[i] \in Nat
        /\ \A i, j \in 1 .. Len(rows) : i < j => rows[i] < rows[j]
        /\ \A k \in S : \E i \in 1 .. Len(rows) : rows[i] = k
    BY <1>1, <1>3, EnumerationLength
  <1> USE DEF S
  <1> QED
    BY <1>2, <1>4, <1>5

\* The items of one page: rows behind the cursor, all of them, or all up to the last.
LEMMA PageItems ==
    ASSUME NEW after \in Nat, NEW per \in Nat \ {0}, table \subseteq Bridge!KeySet
    PROVE  LET rows == Bridge!cursorFetch(after, per)
               hasMore == Len(rows) > per
               items == IF hasMore THEN Bridge!Upto(rows, per) ELSE rows
           IN  /\ items \in Seq(Bridge!KeySet) /\ Len(items) \in Nat
               /\ \A i \in 1 .. Len(items) :
                     items[i] \in table /\ items[i] > after /\ items[i] \in Nat
               /\ \A i, j \in 1 .. Len(items) : i < j => items[i] < items[j]
               /\ hasMore => Len(items) >= 1
               /\ \A k \in table : k > after /\ (hasMore => k <= items[Len(items)]) =>
                     \E i \in 1 .. Len(items) : items[i] = k
  <1> DEFINE all == Bridge!Rows(after)
             rows == Bridge!cursorFetch(after, per)
             hasMore == Len(rows) > per
             items == IF hasMore THEN Bridge!Upto(rows, per) ELSE rows
  <1>1. /\ all \in Seq(Bridge!KeySet) /\ Len(all) \in Nat
        /\ \A i \in 1 .. Len(all) : all[i] \in table /\ all[i] > after /\ all[i] \in Nat
        /\ \A i, j \in 1 .. Len(all) : i < j => all[i] < all[j]
        /\ \A k \in table : k > after => \E i \in 1 .. Len(all) : all[i] = k
    BY RowsFacts
  <1> HIDE DEF all
  <1>2. rows = Bridge!Upto(all, per + 1) /\ per + 1 \in Nat
    BY DEF Bridge!cursorFetch, all
  <1>3. /\ rows \in Seq(Bridge!KeySet) /\ Len(rows) = (IF per + 1 < Len(all) THEN per + 1 ELSE Len(all))
        /\ \A i \in 1 .. Len(rows) : rows[i] = all[i]
    BY <1>1, <1>2, UptoFacts
  <1> HIDE DEF rows
  <1>4. hasMore => /\ items \in Seq(Bridge!KeySet) /\ Len(items) = per
                   /\ \A i \in 1 .. Len(items) : items[i] = rows[i]
    BY <1>1, <1>3, UptoFacts
  <1>5. ~hasMore => items = rows /\ Len(rows) = Len(all)
    BY <1>1, <1>3
  <1>6. /\ items \in Seq(Bridge!KeySet) /\ Len(items) \in Nat /\ Len(items) <= Len(all)
        /\ \A i \in 1 .. Len(items) : items[i] = all[i]
        /\ (hasMore => Len(items) >= 1) /\ (~hasMore => Len(items) = Len(all))
    <2>1. CASE hasMore
      BY <1>1, <1>3, <1>4, <2>1
    <2>2. CASE ~hasMore
      BY <1>1, <1>3, <1>5, <2>2
    <2> QED
      BY <2>1, <2>2
  <1>7. hasMore \in BOOLEAN
    OBVIOUS
  <1> HIDE DEF items, hasMore
  <1>8. ASSUME NEW k \in table, k > after, hasMore => k <= items[Len(items)]
        PROVE  \E i \in 1 .. Len(items) : items[i] = k
    <2>1. PICK i \in 1 .. Len(all) : all[i] = k
      BY <1>1, <1>8
    <2>2. CASE i <= Len(items)
      BY <1>6, <2>1, <2>2
    <2>3. CASE ~(i <= Len(items))
      <3>1. hasMore /\ Len(items) \in 1 .. Len(all) /\ Len(items) < i
        BY <1>1, <1>6, <2>1, <2>3
      <3>2. items[Len(items)] < k /\ items[Len(items)] \in Nat /\ k \in Nat
        BY <1>1, <1>6, <2>1, <3>1
      <3> QED
        BY <1>8, <3>1, <3>2
    <2> QED
      BY <2>2, <2>3
  <1>9. \A i \in 1 .. Len(items) : items[i] \in table /\ items[i] > after /\ items[i] \in Nat
    BY <1>1, <1>6
  <1>10. \A i, j \in 1 .. Len(items) : i < j => items[i] < items[j]
    <2> SUFFICES ASSUME NEW i \in 1 .. Len(items), NEW j \in 1 .. Len(items), i < j
                 PROVE  items[i] < items[j]
      OBVIOUS
    <2>1. /\ i \in 1 .. Len(all) /\ j \in 1 .. Len(all)
          /\ items[i] = all[i] /\ items[j] = all[j]
      BY <1>1, <1>6
    <2> QED
      BY <1>1, <2>1
  <1> QED
    BY <1>6, <1>8, <1>9, <1>10 DEF items, hasMore, rows

\* The walk goes on behind the last row of the page, or has ended.
LEMMA CursorPageStep ==
    ASSUME CursorInv, NEW per \in PerPages, Bridge!_db_cursor_page(per)
    PROVE  CursorInv'
  <1> DEFINE rows == Bridge!cursorFetch(cursor.after, Per(per))
             hasMore == Len(rows) > Per(per)
             page == IF hasMore THEN Bridge!Upto(rows, Per(per)) ELSE rows
  <1>1. hasMore \in BOOLEAN
    OBVIOUS
  <1>2. /\ cursor.more /\ table' = table
        /\ cursor' = [cursor EXCEPT
               !.open = TRUE, !.seen = cursor.seen \o page, !.more = hasMore,
               !.after = IF hasMore THEN Bridge!Last(page) ELSE 0,
               !.stable = IF ~cursor.open THEN table ELSE cursor.stable,
               !.ever = IF ~cursor.open THEN table ELSE cursor.ever]
    BY DEF Bridge!_db_cursor_page, Per
  <1>3. /\ cursor \in Cursors /\ cursor.after \in Nat /\ cursor.seen \in Seq(Bridge!KeySet)
        /\ Len(cursor.seen) \in Nat /\ table \subseteq Bridge!KeySet /\ per \in Nat
        /\ cursor.open \in BOOLEAN
        /\ cursor.stable \subseteq Bridge!KeySet /\ cursor.ever \subseteq Bridge!KeySet
    BY BridgeNumbers, LenProperties DEF CursorInv, Cursors
  <1>4. /\ page \in Seq(Bridge!KeySet) /\ Len(page) \in Nat
        /\ \A i \in 1 .. Len(page) : page[i] \in table /\ page[i] > cursor.after /\ page[i] \in Nat
        /\ \A i, j \in 1 .. Len(page) : i < j => page[i] < page[j]
        /\ hasMore => Len(page) >= 1
        /\ \A k \in table : k > cursor.after /\ (hasMore => k <= page[Len(page)]) =>
              \E i \in 1 .. Len(page) : page[i] = k
    <2>1. Per(per) \in Nat \ {0}
      BY <1>3, BridgeNumbers
    <2> QED
      BY <1>3, <2>1, PageItems
  <1> HIDE DEF rows, hasMore, page
  <1>5. PICK seen, stable, ever :
           /\ seen = cursor.seen \o page
           /\ stable = (IF ~cursor.open THEN table ELSE cursor.stable)
           /\ ever = (IF ~cursor.open THEN table ELSE cursor.ever)
    OBVIOUS
  <1>6. /\ seen \in Seq(Bridge!KeySet) /\ Len(seen) = Len(cursor.seen) + Len(page)
        /\ \A i \in 1 .. Len(seen) :
              seen[i] = IF i <= Len(cursor.seen) THEN cursor.seen[i]
                        ELSE page[i - Len(cursor.seen)]
    BY <1>3, <1>4, <1>5, ConcatProperties
  <1>7. /\ \A i \in 1 .. Len(cursor.seen) : i \in 1 .. Len(seen) /\ seen[i] = cursor.seen[i]
        /\ \A i \in 1 .. Len(page) :
              i + Len(cursor.seen) \in 1 .. Len(seen) /\ seen[i + Len(cursor.seen)] = page[i]
        /\ \A i \in 1 .. Len(seen) :
              \/ i \in 1 .. Len(cursor.seen)
              \/ /\ i - Len(cursor.seen) \in 1 .. Len(page)
                 /\ seen[i] = page[i - Len(cursor.seen)]
    <2>1. \A i \in 1 .. Len(cursor.seen) : i \in 1 .. Len(seen) /\ seen[i] = cursor.seen[i]
      BY <1>3, <1>4, <1>6
    <2>2. ASSUME NEW i \in 1 .. Len(page)
          PROVE  /\ i + Len(cursor.seen) \in 1 .. Len(seen)
                 /\ seen[i + Len(cursor.seen)] = page[i]
      <3>1. /\ i + Len(cursor.seen) \in 1 .. Len(seen) /\ ~(i + Len(cursor.seen) <= Len(cursor.seen))
            /\ (i + Len(cursor.seen)) - Len(cursor.seen) = i
        BY <1>3, <1>4, <1>6
      <3> QED
        BY <1>6, <3>1
    <2>3. ASSUME NEW i \in 1 .. Len(seen), ~(i <= Len(cursor.seen))
          PROVE  /\ i - Len(cursor.seen) \in 1 .. Len(page)
                 /\ seen[i] = page[i - Len(cursor.seen)]
      BY <1>3, <1>4, <1>6, <2>3
    <2> QED
      BY <1>3, <2>1, <2>2, <2>3
  <1>8. \A i \in 1 .. Len(cursor.seen) : cursor.seen[i] \in Nat /\ cursor.seen[i] <= cursor.after
    <2>1. \A i \in 1 .. Len(cursor.seen) : cursor.seen[i] \in Bridge!KeySet
      BY <1>3, ElementOfSeq
    <2> QED
      BY <1>2, <2>1, BridgeNumbers DEF CursorInv
  <1>9. PICK after : after = IF hasMore THEN page[Len(page)] ELSE 0
    OBVIOUS
  <1>10. /\ cursor'.open = TRUE /\ cursor'.seen = seen /\ cursor'.more = hasMore
         /\ cursor'.after = after /\ cursor'.stable = stable /\ cursor'.ever = ever
         /\ after \in Nat
         /\ cursor' \in Cursors
    <2>1. cursor' = [cursor EXCEPT !.open = TRUE, !.seen = seen, !.more = hasMore,
                                   !.after = after, !.stable = stable, !.ever = ever]
      BY <1>2, <1>5, <1>9 DEF Bridge!Last
    <2>2. after \in Nat
      BY <1>4, <1>9
    <2>3. stable \in SUBSET Bridge!KeySet /\ ever \in SUBSET Bridge!KeySet
      BY <1>3, <1>5
    <2> QED
      BY <1>1, <1>3, <1>6, <2>1, <2>2, <2>3 DEF Cursors
  <1>11. \A i, j \in 1 .. Len(seen) : i < j => seen[i] < seen[j]
    <2> SUFFICES ASSUME NEW i \in 1 .. Len(seen), NEW j \in 1 .. Len(seen), i < j
                 PROVE  seen[i] < seen[j]
      OBVIOUS
    <2>1. CASE j \in 1 .. Len(cursor.seen)
      <3>1. i \in 1 .. Len(cursor.seen)
        BY <2>1, <1>3
      <3> QED
        BY <1>7, <2>1, <3>1 DEF CursorInv
    <2>2. CASE i \in 1 .. Len(cursor.seen) /\ j - Len(cursor.seen) \in 1 .. Len(page)
                  /\ seen[j] = page[j - Len(cursor.seen)]
      <3>1. seen[i] = cursor.seen[i] /\ cursor.seen[i] \in Nat /\ cursor.seen[i] <= cursor.after
        BY <1>7, <1>8, <2>2
      <3>2. seen[j] \in Nat /\ seen[j] > cursor.after
        BY <1>4, <2>2
      <3> QED
        BY <1>3, <3>1, <3>2
    <2>3. CASE /\ i - Len(cursor.seen) \in 1 .. Len(page) /\ seen[i] = page[i - Len(cursor.seen)]
               /\ j - Len(cursor.seen) \in 1 .. Len(page) /\ seen[j] = page[j - Len(cursor.seen)]
      <3>1. i - Len(cursor.seen) < j - Len(cursor.seen)
        BY <1>3
      <3> QED
        BY <1>4, <2>3, <3>1
    <2>4. j \in 1 .. Len(cursor.seen) \/ (/\ j - Len(cursor.seen) \in 1 .. Len(page)
                                          /\ seen[j] = page[j - Len(cursor.seen)])
      BY <1>7
    <2>5. i \in 1 .. Len(cursor.seen) \/ (/\ i - Len(cursor.seen) \in 1 .. Len(page)
                                          /\ seen[i] = page[i - Len(cursor.seen)])
      BY <1>7
    <2> QED
      BY <2>1, <2>2, <2>3, <2>4, <2>5
  <1>12. /\ stable \subseteq table /\ table \subseteq ever
         /\ \A i \in 1 .. Len(seen) : seen[i] \in ever
    <2>1. stable \subseteq table /\ table \subseteq ever
      BY <1>3, <1>5 DEF CursorInv
    <2>2. \A i \in 1 .. Len(cursor.seen) : cursor.seen[i] \in ever
      <3>1. CASE cursor.open
        BY <1>5, <3>1 DEF CursorInv
      <3>2. CASE ~cursor.open
        <4>1. Len(cursor.seen) = 0
          BY <3>2 DEF CursorInv
        <4> QED
          BY <4>1
      <3> QED
        BY <3>1, <3>2
    <2> QED
      BY <1>4, <1>7, <2>1, <2>2
  <1>13. hasMore => \A i \in 1 .. Len(seen) : seen[i] <= after
    <2> SUFFICES ASSUME hasMore, NEW i \in 1 .. Len(seen) PROVE seen[i] <= after
      OBVIOUS
    <2>1. /\ Len(page) \in 1 .. Len(page) /\ after = page[Len(page)] /\ after \in Nat
          /\ after > cursor.after
      BY <1>4, <1>9
    <2>2. CASE i \in 1 .. Len(cursor.seen)
      <3>1. seen[i] = cursor.seen[i] /\ cursor.seen[i] \in Nat /\ cursor.seen[i] <= cursor.after
        BY <1>7, <1>8, <2>2
      <3> QED
        BY <1>3, <2>1, <3>1
    <2>3. CASE i - Len(cursor.seen) \in 1 .. Len(page) /\ seen[i] = page[i - Len(cursor.seen)]
      <3>1. PICK j \in 1 .. Len(page) : seen[i] = page[j]
        BY <2>3
      <3>2. page[j] \in Nat /\ page[Len(page)] \in Nat
        BY <1>4, <2>1
      <3>3. j < Len(page) => page[j] < page[Len(page)]
        BY <1>4, <2>1
      <3>4. j = Len(page) \/ j < Len(page)
        BY <1>4
      <3> QED
        BY <2>1, <3>1, <3>2, <3>3, <3>4
    <2> QED
      BY <1>7, <2>2, <2>3
  <1>14. ASSUME NEW k \in stable, ~hasMore \/ k <= after
         PROVE  \E i \in 1 .. Len(seen) : seen[i] = k
    <2>1. k \in table /\ k \in Nat /\ (cursor.open => k \in cursor.stable)
      BY <1>3, <1>5, <1>12, <1>14, BridgeNumbers
    <2>2. CASE k > cursor.after
      <3>1. hasMore => k <= page[Len(page)]
        BY <1>9, <1>14
      <3>2. PICK i \in 1 .. Len(page) : page[i] = k
        BY <1>4, <2>1, <2>2, <3>1
      <3> QED
        BY <1>7, <3>2
    <2>3. CASE ~(k > cursor.after)
      <3>1. k <= cursor.after
        BY <1>3, <2>1, <2>3
      <3>2. cursor.open
        <4>1. k > 0
          BY <1>3, <2>1 DEF Bridge!KeySet
        <4>2. ~cursor.open => cursor.after = 0
          BY DEF CursorInv
        <4> QED
          BY <1>3, <2>1, <3>1, <4>1, <4>2
      <3>3. PICK i \in 1 .. Len(cursor.seen) : cursor.seen[i] = k
        BY <2>1, <3>1, <3>2 DEF CursorInv
      <3> QED
        BY <1>7, <3>3
    <2> QED
      BY <2>2, <2>3
  <1>15. table' \subseteq Bridge!KeySet /\ cursor'.stable \subseteq table' /\ table' \subseteq cursor'.ever
    BY <1>2, <1>3, <1>10, <1>12
  <1>16. cursor'.more => \A i \in 1 .. Len(cursor'.seen) : cursor'.seen[i] <= cursor'.after
    BY <1>10, <1>13
  <1>17. \A k \in cursor'.stable : ~cursor'.more \/ k <= cursor'.after =>
            \E i \in 1 .. Len(cursor'.seen) : cursor'.seen[i] = k
    BY <1>10, <1>14
  <1> QED
    BY <1>10, <1>11, <1>12, <1>15, <1>16, <1>17 DEF CursorInv

LEMMA CursorChangeStep ==
    ASSUME CursorInv, NEW k \in Bridge!KeySet, Bridge!Change(k)
    PROVE  CursorInv'
  <1>1. /\ table' = (IF k \in table THEN table \ {k} ELSE table \cup {k})
        /\ cursor' = [cursor EXCEPT !.stable = cursor.stable \ {k}, !.ever = cursor.ever \cup {k}]
    BY DEF Bridge!Change
  <1>2. cursor \in Cursors
    BY DEF CursorInv
  <1>3. /\ cursor' \in Cursors /\ cursor'.open = cursor.open /\ cursor'.seen = cursor.seen
        /\ cursor'.more = cursor.more /\ cursor'.after = cursor.after
        /\ cursor'.stable = cursor.stable \ {k} /\ cursor'.ever = cursor.ever \cup {k}
    BY <1>1, <1>2 DEF Cursors
  <1>4. table' \subseteq Bridge!KeySet
    BY <1>1 DEF CursorInv
  <1>5. cursor.open => /\ \A i \in 1 .. Len(cursor.seen) : cursor.seen[i] \in cursor'.ever
                       /\ cursor'.stable \subseteq table' /\ table' \subseteq cursor'.ever
    BY <1>1, <1>3 DEF CursorInv
  <1> QED
    BY <1>3, <1>4, <1>5 DEF CursorInv

PageWalks ==
    [open : BOOLEAN, per : Nat, page : Nat \ {0}, items : Seq(Bridge!KeySet),
     seen : Seq(Bridge!KeySet), total : Nat, counting : BOOLEAN, changed : BOOLEAN,
     start : SUBSET Bridge!KeySet]

PagesInv ==
    /\ pages \in PageWalks /\ table \subseteq Bridge!KeySet
    /\ ~pages.open => ~pages.counting /\ pages.page = 1 /\ pages.seen = <<>>
    /\ pages.open /\ ~pages.changed =>
          /\ pages.start = table
          /\ pages.seen = Bridge!Upto(Bridge!Rows(0), (pages.page - 1) * Per(pages.per))
          /\ pages.counting => pages.items = Bridge!pageItems(pages.page, Per(pages.per))
          /\ ~pages.counting =>
                pages.total = Bridge!totalPages(Cardinality(table), Per(pages.per))

\* The first rows and those of the next page.
LEMMA UptoNext ==
    ASSUME NEW S, NEW s \in Seq(S), NEW m \in Nat, NEW n \in Nat
    PROVE  LET items == SubSeq(s, m + 1, Bridge!Smaller(m + n, Len(s)))
           IN  items \in Seq(S) /\ Bridge!Upto(s, m) \o items = Bridge!Upto(s, m + n)
  <1> DEFINE end == Bridge!Smaller(m + n, Len(s))
             items == SubSeq(s, m + 1, end)
  <1>1. Len(s) \in Nat /\ end \in 0 .. Len(s) /\ end = IF m + n < Len(s) THEN m + n ELSE Len(s)
    BY LenProperties DEF Bridge!Smaller
  <1>2. Bridge!Upto(s, m + n) = SubSeq(s, 1, end)
    BY DEF Bridge!Upto
  <1> HIDE DEF end
  <1>3. CASE m <= Len(s)
    <2>1. m <= end /\ Bridge!Smaller(m, Len(s)) = m
      BY <1>1, <1>3 DEF Bridge!Smaller
    <2>2. Bridge!Upto(s, m) = SubSeq(s, 1, m)
      BY <2>1 DEF Bridge!Upto
    <2>3. 1 \in 1 .. Len(s) + 1 /\ m \in 1 - 1 .. Len(s) /\ end \in m .. Len(s)
      BY <1>1, <1>3, <2>1
    <2>4. SubSeq(s, 1, m) \o items = SubSeq(s, 1, end)
      BY <2>3, ConcatAdjacentSubSeq
    <2>5. \A i \in m + 1 .. end : s[i] \in S
      BY <1>1, ElementOfSeq
    <2>6. items \in Seq(S)
      BY <1>1, <2>5, SubSeqProperties
    <2> QED
      BY <1>2, <2>2, <2>4, <2>6 DEF end
  <1>4. CASE m > Len(s)
    <2>1. end = Len(s) /\ end < m + 1
      BY <1>1, <1>4
    <2>2. items = <<>>
      BY <1>1, <2>1, SubSeqEmpty
    <2>3. Bridge!Upto(s, m) = s /\ Bridge!Upto(s, m + n) = s
      BY <1>1, <1>4, UptoFacts
    <2>4. <<>> \in Seq(S) /\ s \o <<>> = s
      BY ConcatEmptySeq
    <2> QED
      BY <2>2, <2>3, <2>4 DEF end
  <1>5. m <= Len(s) \/ m > Len(s)
    BY <1>1
  <1>6. items \in Seq(S) /\ Bridge!Upto(s, m) \o items = Bridge!Upto(s, m + n)
    BY <1>3, <1>4, <1>5 DEF end
  <1> QED
    BY <1>6 DEF end

\* The pages that totalPages counts hold all rows.
LEMMA TotalPagesFacts ==
    ASSUME NEW n \in Nat, NEW q \in Nat \ {0}
    PROVE  /\ Bridge!totalPages(n, q) \in Nat
           /\ \A p \in Nat : p >= Bridge!totalPages(n, q) => p * q >= n
  <1>1. PICK t : t = (n + q - 1) \div q
    OBVIOUS
  <1>2. t \in Nat /\ n + q - 1 < q * t + q
    BY <1>1
  <1>3. ASSUME NEW p \in Nat, p >= t PROVE p * q >= n
    <2>1. p * q >= t * q /\ t * q = q * t /\ t * q \in Nat /\ p * q \in Nat
      BY <1>2, <1>3
    <2> QED
      BY <1>2, <2>1
  <1> QED
    BY <1>1, <1>2, <1>3 DEF Bridge!totalPages

\* The whole table in its order.
LEMMA AllRows ==
    ASSUME table \subseteq Bridge!KeySet
    PROVE  /\ Bridge!Rows(0) = Bridge!Ascending(table) /\ Bridge!Rows(0) \in Seq(Bridge!KeySet)
           /\ Len(Bridge!Rows(0)) = Cardinality(table) /\ Cardinality(table) \in Nat
  <1>1. {k \in table : k > 0} = table
    <2>1. \A k \in table : k > 0
      <3> SUFFICES ASSUME NEW k \in table PROVE k > 0
        OBVIOUS
      <3>1. k \in 1 .. MaxKey /\ MaxKey \in Nat
        BY BridgeNumbers
      <3> QED
        BY <3>1
    <2> QED
      BY <2>1
  <1>2. Bridge!Rows(0) = Bridge!Ascending(table)
    BY <1>1 DEF Bridge!Rows
  <1>3. table \subseteq Nat /\ IsFiniteSet(table) /\ Cardinality(table) \in Nat
    BY BridgeNumbers, FS_Subset, FS_CardinalityType
  <1>4. Enumerates(Bridge!Ascending(table), table)
    BY <1>3, BridgeAscending, AscendingEnumerates
  <1>5. Len(Bridge!Ascending(table)) = Cardinality(table)
    BY <1>3, <1>4, EnumerationLength
  <1>6. Bridge!Ascending(table) \in Seq(Bridge!KeySet)
    BY <1>4, SeqMonotonic DEF Enumerates
  <1> QED
    BY <1>2, <1>3, <1>5, <1>6

LEMMA PaginateStep ==
    ASSUME PagesInv, NEW per \in PerPages, Bridge!_db_paginate(per)
    PROVE  PagesInv'
  <1>1. PICK items, changed, start :
           /\ items = Bridge!pageItems(pages.page, Per(per))
           /\ changed = IF pages.open THEN pages.changed ELSE FALSE
           /\ start = IF pages.open THEN pages.start ELSE table
    OBVIOUS
  <1>2. /\ table' = table /\ (pages.open => per = pages.per) /\ ~pages.counting
        /\ pages' = [pages EXCEPT !.open = TRUE, !.per = per, !.counting = TRUE, !.items = items,
                                  !.changed = changed, !.start = start]
    BY <1>1 DEF Bridge!_db_paginate, Bridge!Call, Per
  <1>3. /\ pages \in PageWalks /\ pages.page \in Nat \ {0} /\ per \in Nat
        /\ Per(per) \in Nat \ {0} /\ table \subseteq Bridge!KeySet
        /\ pages.open \in BOOLEAN /\ pages.changed \in BOOLEAN
    BY BridgeNumbers DEF PagesInv, PageWalks
  <1>4. /\ items \in Seq(Bridge!KeySet) /\ changed \in BOOLEAN
        /\ start \in SUBSET Bridge!KeySet
    <2>1. (pages.page - 1) * Per(per) \in Nat
      BY <1>3
    <2>2. items \in Seq(Bridge!KeySet)
      BY <1>1, <1>3, <2>1, AllRows, UptoNext DEF Bridge!pageItems, Bridge!offset
    <2> QED
      BY <1>1, <1>3, <2>2 DEF PageWalks
  <1>5. /\ pages' \in PageWalks /\ pages'.open = TRUE /\ pages'.counting = TRUE
        /\ pages'.changed = changed /\ pages'.start = start /\ pages'.items = items
        /\ pages'.per = per /\ pages'.page = pages.page /\ pages'.seen = pages.seen
    BY <1>2, <1>3, <1>4 DEF PageWalks
  <1>6. Bridge!Rows(0)' = Bridge!Rows(0)
    BY <1>2 DEF Bridge!Rows
  <1>7. ASSUME ~changed
        PROVE  start = table /\ pages.seen = Bridge!Upto(Bridge!Rows(0), (pages.page - 1) * Per(per))
    <2>1. CASE pages.open
      BY <1>1, <1>2, <1>7, <2>1 DEF PagesInv
    <2>2. CASE ~pages.open
      <3>1. pages.seen = <<>> /\ (pages.page - 1) * Per(per) = 0 /\ start = table
        BY <1>1, <1>3, <2>2 DEF PagesInv
      <3>2. Bridge!Upto(Bridge!Rows(0), 0) = <<>>
        <4>1. /\ Bridge!Upto(Bridge!Rows(0), 0) \in Seq(Bridge!KeySet)
              /\ Len(Bridge!Upto(Bridge!Rows(0), 0)) = 0
          BY <1>3, AllRows, UptoFacts
        <4> QED
          BY <4>1, EmptySeq
      <3> QED
        BY <3>1, <3>2
    <2> QED
      BY <2>1, <2>2
  <1>8. pages'.items = Bridge!pageItems(pages.page, Per(pages.per))'
    <2>1. Per(pages.per)' = Per(per)
      BY <1>5 DEF Per, Bridge!safePerPage, Bridge!Smaller
    <2>2. Bridge!pageItems(pages.page, Per(pages.per))' = Bridge!pageItems(pages.page, Per(per))
      BY <1>5, <1>6, <2>1 DEF Bridge!pageItems, Bridge!offset, Bridge!Smaller
    <2> QED
      BY <1>1, <1>5, <2>2
  <1>9. ~changed => pages'.seen = Bridge!Upto(Bridge!Rows(0), (pages.page - 1) * Per(pages.per))'
    <2>1. Per(pages.per)' = Per(per)
      BY <1>5 DEF Per, Bridge!safePerPage, Bridge!Smaller
    <2> QED
      BY <1>5, <1>6, <1>7, <2>1 DEF Bridge!Upto, Bridge!Smaller
  <1>10. /\ pages'.open /\ pages'.counting /\ pages' \in PageWalks /\ table' \subseteq Bridge!KeySet
         /\ ~pages'.changed => pages'.start = table'
    BY <1>2, <1>3, <1>5, <1>7
  <1> QED
    BY <1>5, <1>8, <1>9, <1>10 DEF PagesInv

LEMMA CountStep ==
    ASSUME PagesInv, Bridge!extractCount
    PROVE  PagesInv'
  <1>1. PICK seen, total :
           /\ seen = pages.seen \o pages.items
           /\ total = Bridge!totalPages(Cardinality(table), Per(pages.per))
    OBVIOUS
  <1>2. \A S : Bridge!Cardinality(S) = Cardinality(S)
    BY DEF Bridge!Cardinality, Cardinality
  <1>3. /\ table' = table /\ pages.counting
        /\ pages' = [pages EXCEPT !.counting = FALSE, !.page = pages.page + 1, !.seen = seen,
                                  !.total = total]
    BY <1>1, <1>2 DEF Bridge!extractCount, Per
  <1>4. /\ pages \in PageWalks /\ pages.page \in Nat \ {0} /\ pages.per \in Nat
        /\ Per(pages.per) \in Nat \ {0} /\ table \subseteq Bridge!KeySet
        /\ pages.seen \in Seq(Bridge!KeySet) /\ pages.items \in Seq(Bridge!KeySet)
    BY BridgeNumbers DEF PagesInv, PageWalks
  <1>5. seen \in Seq(Bridge!KeySet) /\ total \in Nat
    BY <1>1, <1>4, AllRows, TotalPagesFacts, ConcatProperties
  <1>6. /\ pages' \in PageWalks /\ pages'.open = pages.open /\ pages'.counting = FALSE
        /\ pages'.changed = pages.changed /\ pages'.start = pages.start
        /\ pages'.per = pages.per /\ pages'.page = pages.page + 1 /\ pages'.seen = seen
        /\ pages'.total = total
    <2>1. pages.page + 1 \in Nat \ {0}
      BY <1>4
    <2> QED
      BY <1>3, <1>4, <1>5, <2>1 DEF PageWalks
  <1>7. Bridge!Rows(0)' = Bridge!Rows(0) /\ pages.open
    BY <1>3 DEF Bridge!Rows, PagesInv
  <1>8. ASSUME ~pages.changed
        PROVE  /\ pages.start = table
               /\ seen = Bridge!Upto(Bridge!Rows(0), ((pages.page + 1) - 1) * Per(pages.per))
    <2>1. /\ pages.start = table
          /\ pages.seen = Bridge!Upto(Bridge!Rows(0), (pages.page - 1) * Per(pages.per))
          /\ pages.items = Bridge!pageItems(pages.page, Per(pages.per))
      BY <1>3, <1>7, <1>8 DEF PagesInv
    <2>2. PICK m \in Nat : m = (pages.page - 1) * Per(pages.per)
      BY <1>4
    <2>3. ((pages.page + 1) - 1) * Per(pages.per) = m + Per(pages.per)
      BY <1>4, <2>2
    <2>4. pages.items = SubSeq(Bridge!Rows(0), m + 1,
                               Bridge!Smaller(m + Per(pages.per), Len(Bridge!Rows(0))))
      BY <2>1, <2>2 DEF Bridge!pageItems, Bridge!offset
    <2>5. Bridge!Upto(Bridge!Rows(0), m) \o pages.items
             = Bridge!Upto(Bridge!Rows(0), m + Per(pages.per))
      <3>1. Bridge!Rows(0) \in Seq(Bridge!KeySet) /\ Per(pages.per) \in Nat
        BY <1>4, AllRows
      <3>2. \A s, n : s \in Seq(Bridge!KeySet) /\ n \in Nat =>
               Bridge!Upto(s, m) \o SubSeq(s, m + 1, Bridge!Smaller(m + n, Len(s)))
                  = Bridge!Upto(s, m + n)
        BY UptoNext
      <3> QED
        BY <2>4, <3>1, <3>2
    <2> QED
      BY <1>1, <2>1, <2>2, <2>3, <2>5
  <1> QED
    BY <1>1, <1>3, <1>4, <1>6, <1>7, <1>8 DEF PagesInv

LEMMA PagesChangeStep ==
    ASSUME PagesInv, NEW k \in Bridge!KeySet, Bridge!Change(k)
    PROVE  PagesInv'
  <1>1. table' \subseteq Bridge!KeySet /\ pages' = [pages EXCEPT !.changed = TRUE]
    BY DEF PagesInv, Bridge!Change
  <1>2. pages \in PageWalks
    BY DEF PagesInv
  <1>3. /\ pages' \in PageWalks /\ pages'.open = pages.open /\ pages'.changed = TRUE
        /\ pages'.counting = pages.counting /\ pages'.page = pages.page
        /\ pages'.seen = pages.seen
    BY <1>1, <1>2 DEF PageWalks
  <1> QED
    BY <1>1, <1>3 DEF PagesInv

LEMMA WalksStep ==
    ASSUME CursorInv, PagesInv, [Bridge!Next]_(Bridge!vars)
    PROVE  CursorInv' /\ PagesInv'
  <1>1. ASSUME UNCHANGED <<table, cursor>> PROVE CursorInv'
    BY <1>1 DEF CursorInv
  <1>2. ASSUME UNCHANGED <<table, pages>> PROVE PagesInv'
    <2>1. Bridge!Rows(0)' = Bridge!Rows(0)
      BY <1>2 DEF Bridge!Rows
    <2>2. Per(pages.per)' = Per(pages.per)
      BY <1>2 DEF Per, Bridge!safePerPage, Bridge!Smaller
    <2>3. Bridge!Upto(Bridge!Rows(0), (pages.page - 1) * Per(pages.per))'
             = Bridge!Upto(Bridge!Rows(0), (pages.page - 1) * Per(pages.per))
      BY <1>2, <2>1, <2>2 DEF Bridge!Upto, Bridge!Smaller
    <2>4. Bridge!pageItems(pages.page, Per(pages.per))'
             = Bridge!pageItems(pages.page, Per(pages.per))
      BY <1>2, <2>1, <2>2 DEF Bridge!pageItems, Bridge!offset, Bridge!Smaller
    <2>5. Bridge!totalPages(Cardinality(table), Per(pages.per))'
             = Bridge!totalPages(Cardinality(table), Per(pages.per))
      BY <1>2, <2>2 DEF Bridge!totalPages
    <2> QED
      BY <1>2, <2>3, <2>4, <2>5 DEF PagesInv
  <1>3. ASSUME \/ UNCHANGED Bridge!vars \/ Bridge!Begin \/ Bridge!End
               \/ Bridge!Settle \/ Bridge!_db_query_async
               \/ Bridge!lastInsertIdResponse \/ Bridge!_db_query_result
               \/ \E kind \in Bridge!Kinds :
                     Bridge!_db_execute(kind) \/ Bridge!_db_execute_async(kind)
        PROVE  UNCHANGED <<table, cursor, pages>>
    BY <1>3 DEF Bridge!vars, Bridge!walks, Bridge!Begin, Bridge!End, Bridge!Settle,
       Bridge!_db_query_async, Bridge!lastInsertIdResponse, Bridge!_db_query_result,
       Bridge!_db_execute, Bridge!_db_execute_async
  <1>4. ASSUME NEW per \in PerPages, Bridge!_db_cursor_page(per)
        PROVE  CursorInv' /\ PagesInv'
    <2>1. UNCHANGED <<table, pages>>
      BY <1>4 DEF Bridge!_db_cursor_page
    <2> QED
      BY <1>2, <1>4, <2>1, CursorPageStep
  <1>5. ASSUME NEW per \in PerPages, Bridge!_db_paginate(per)
        PROVE  CursorInv' /\ PagesInv'
    <2>1. UNCHANGED <<table, cursor>>
      BY <1>5 DEF Bridge!_db_paginate
    <2> QED
      BY <1>1, <1>5, <2>1, PaginateStep
  <1>6. ASSUME Bridge!extractCount PROVE CursorInv' /\ PagesInv'
    <2>1. UNCHANGED <<table, cursor>>
      BY <1>6 DEF Bridge!extractCount
    <2> QED
      BY <1>1, <1>6, <2>1, CountStep
  <1>7. ASSUME NEW k \in Bridge!KeySet, Bridge!Change(k) PROVE CursorInv' /\ PagesInv'
    BY <1>7, CursorChangeStep, PagesChangeStep
  <1> QED
    BY <1>1, <1>2, <1>3, <1>4, <1>5, <1>6, <1>7 DEF Bridge!Next

LEMMA WalksAlways == MCSpec => [](CursorInv /\ PagesInv)
  <1>1. MCInit => CursorInv /\ PagesInv
    <2> SUFFICES ASSUME MCInit PROVE CursorInv /\ PagesInv
      OBVIOUS
    <2>1. /\ cursor = [open |-> FALSE, per |-> 0, after |-> 0, seen |-> <<>>, more |-> TRUE,
                       stable |-> {}, ever |-> {}]
          /\ pages = [open |-> FALSE, per |-> 0, page |-> 1, items |-> <<>>, seen |-> <<>>,
                      total |-> 0, counting |-> FALSE, changed |-> FALSE, start |-> {}]
          /\ table \subseteq Bridge!KeySet
      BY DEF MCInit, Bridge!Init, Bridge!NoCursor, Bridge!NoPages
    <2>2. <<>> \in Seq(Bridge!KeySet) /\ 1 .. Len(<<>>) = {}
      OBVIOUS
    <2>3. cursor \in Cursors /\ pages \in PageWalks
      BY <2>1, <2>2 DEF Cursors, PageWalks
    <2>4. ~cursor.open /\ cursor.seen = <<>> /\ cursor.more /\ cursor.after = 0
      BY <2>1
    <2>5. ~pages.open /\ ~pages.counting /\ pages.page = 1 /\ pages.seen = <<>>
      BY <2>1
    <2> QED
      BY <2>1, <2>2, <2>3, <2>4, <2>5 DEF CursorInv, PagesInv
  <1>2. CursorInv /\ PagesInv /\ [MCNext]_allVars => (CursorInv /\ PagesInv)'
    <2>1. [MCNext]_allVars => [Bridge!Next]_(Bridge!vars)
      BY DEF MCNext, allVars, programVars, bridgeVars, ProgramIdle, Bridge!vars,
         Bridge!answers, Bridge!walks
    <2> QED
      BY <2>1, WalksStep
  <1> QED
    BY <1>1, <1>2, PTL DEF MCSpec

LEMMA CursorCovered == CursorInv => Bridge!CursorCovers
  <1> SUFFICES ASSUME CursorInv PROVE Bridge!CursorCovers
    OBVIOUS
  <1>1. cursor.seen \in Seq(Bridge!KeySet) /\ Len(cursor.seen) \in Nat
        /\ DOMAIN cursor.seen = 1 .. Len(cursor.seen)
    BY LenProperties DEF CursorInv, Cursors
  <1>2. Bridge!ToSet(cursor.seen) = {cursor.seen[i] : i \in 1 .. Len(cursor.seen)}
    BY <1>1 DEF Bridge!ToSet
  <1>3. \A i \in 1 .. Len(cursor.seen) - 1 : cursor.seen[i] < cursor.seen[i + 1]
    <2> SUFFICES ASSUME NEW i \in 1 .. Len(cursor.seen) - 1
                 PROVE  cursor.seen[i] < cursor.seen[i + 1]
      OBVIOUS
    <2>1. i \in 1 .. Len(cursor.seen) /\ i + 1 \in 1 .. Len(cursor.seen) /\ i < i + 1
      BY <1>1
    <2> QED
      BY <2>1 DEF CursorInv
  <1>4. cursor.open => Bridge!ToSet(cursor.seen) \subseteq cursor.ever
    BY <1>2 DEF CursorInv
  <1>5. cursor.open /\ ~cursor.more => cursor.stable \subseteq Bridge!ToSet(cursor.seen)
    BY <1>2 DEF CursorInv
  <1> QED
    BY <1>3, <1>4, <1>5 DEF Bridge!CursorCovers

LEMMA PagesCovered == PagesInv => Bridge!PagesCover
  <1> SUFFICES ASSUME PagesInv, pages.open, ~pages.changed, ~pages.counting
               PROVE  LET all == Bridge!Ascending(pages.start)
                      IN  /\ pages.seen = Bridge!Upto(all, (pages.page - 1) * Per(pages.per))
                          /\ pages.page > pages.total => pages.seen = all
    BY DEF Bridge!PagesCover, Per
  <1>1. /\ pages.page - 1 \in Nat /\ Per(pages.per) \in Nat \ {0} /\ pages.total \in Nat
        /\ pages.page \in Nat
    <2>1. pages.page \in Nat \ {0} /\ pages.per \in Nat /\ pages.total \in Nat
      BY DEF PagesInv, PageWalks
    <2>2. pages.page - 1 \in Nat
      BY <2>1
    <2> QED
      BY <2>1, <2>2, BridgeNumbers
  <1>2. /\ pages.start = table /\ Bridge!Rows(0) = Bridge!Ascending(pages.start)
        /\ pages.seen = Bridge!Upto(Bridge!Rows(0), (pages.page - 1) * Per(pages.per))
        /\ pages.total = Bridge!totalPages(Cardinality(table), Per(pages.per))
    BY AllRows DEF PagesInv
  <1>3. /\ Bridge!Rows(0) \in Seq(Bridge!KeySet) /\ Len(Bridge!Rows(0)) = Cardinality(table)
        /\ Cardinality(table) \in Nat
    BY AllRows DEF PagesInv
  <1>4. ASSUME pages.page > pages.total PROVE pages.seen = Bridge!Rows(0)
    <2>1. pages.page - 1 >= pages.total
      BY <1>1, <1>4
    <2>2. (pages.page - 1) * Per(pages.per) >= Cardinality(table)
      BY <1>1, <1>2, <1>3, <2>1, TotalPagesFacts
    <2>3. (pages.page - 1) * Per(pages.per) \in Nat
      BY <1>1
    <2> QED
      BY <1>2, <1>3, <2>2, <2>3, UptoFacts
  <1> QED
    BY <1>2, <1>4

\* LAST_INSERT_ID() answers with the id of the last INSERT that the same request has
\* made and waited for; no result is replaced by the one of an earlier call; a walk by
\* cursor meets every row that stays in the table exactly once; and pages by LIMIT and
\* OFFSET show a table that does not change wholly and once (bridge/database.ts).
THEOREM BridgeExact == MCSpec => []BridgeAnswersExact
  <1>1. BridgeInv => Bridge!LastInsertIdOwn
    BY DEF BridgeInv, IdsOwn, Bridge!LastInsertIdOwn
  <1>2. BridgeInv => Bridge!LatestResults
    BY UnsettledLatest
  <1>3. BridgeInv /\ CursorInv /\ PagesInv => BridgeAnswersExact
    BY <1>1, <1>2, CursorCovered, PagesCovered DEF BridgeAnswersExact, Bridge!BridgeAnswersExact
  <1> QED
    BY <1>3, BridgeInvAlways, WalksAlways, PTL

-----------------------------------------------------------------------------
(***************************************************************************)
(* The types of all parts.                                                 *)
(***************************************************************************)
\* Those of the router that its invariant leaves open.
RouterTypes ==
    /\ stage \in {"loaded", "initialized", "listening"}
    /\ Len(routes) <= MaxRoutes /\ settings \in 0 .. MaxSettings
    /\ DOMAIN configured = DOMAIN Router!Unset
    /\ stage = "loaded" => middleware = <<>>
    /\ (stage = "listening") = (address # <<>>)
    /\ \A a \in answers : a.of \in 0 .. Len(routes)

LEMMA RouterTypesStep ==
    ASSUME RouterInv, RouterTypes, Router!Next
    PROVE  RouterTypes'
  <1>1. routes \in Seq(Candidates) /\ Len(routes) \in Nat
    BY LenProperties DEF RouterInv
  <1>2. ASSUME NEW kind, NEW r \in Candidates, Router!register(kind, r) PROVE RouterTypes'
    <2>1. /\ routes' = Append(routes, r) /\ Len(routes) < MaxRoutes
          /\ UNCHANGED <<stage, configured, settings, middleware, address, answers>>
      BY <1>2 DEF Router!register, Router!push
    <2>2. Len(routes') = Len(routes) + 1
      BY <1>1, <2>1, AppendProperties
    <2>3. Len(routes') <= MaxRoutes /\ 0 .. Len(routes) \subseteq 0 .. Len(routes')
      BY <1>1, <2>1, <2>2, RoutingAssumption
    <2> QED
      BY <2>1, <2>3 DEF RouterTypes
  <1>3. ASSUME settings' = settings + 1, settings < MaxSettings,
               DOMAIN configured' = DOMAIN configured,
               UNCHANGED <<stage, routes, middleware, address, answers>>
        PROVE  RouterTypes'
    <2>1. settings' \in 0 .. MaxSettings
      BY <1>3, RoutingAssumption DEF RouterTypes
    <2> QED
      BY <1>3, <2>1 DEF RouterTypes
  <1>4. ASSUME NEW field, NEW v, Router!configure(field, v) PROVE RouterTypes'
    <2>1. DOMAIN [configured EXCEPT ![field] = v] = DOMAIN configured
      OBVIOUS
    <2> QED
      BY <1>3, <1>4, <2>1 DEF Router!configure
  <1>5. ASSUME NEW host, NEW v, Router!_http_listen_on(host, v) PROVE RouterTypes'
    <2>1. DOMAIN [configured EXCEPT !.host = host, !.port = v] = DOMAIN configured
      OBVIOUS
    <2> QED
      BY <1>3, <1>5, <2>1 DEF Router!_http_listen_on
  <1>6. CASE Router!initialize
    <2>1. /\ stage = "loaded" /\ stage' = "initialized"
          /\ UNCHANGED <<routes, configured, settings, address, answers>>
      BY <1>6 DEF Router!initialize
    <2> QED
      BY <2>1 DEF RouterTypes
  <1>7. CASE Router!start
    <2>1. /\ stage = "initialized" /\ stage' = "listening"
          /\ \E h : address' = [port |-> Router!CliPort, host |-> h]
          /\ UNCHANGED <<routes, configured, settings, middleware, answers>>
      BY <1>7 DEF Router!start
    <2>2. PICK h : address' = [port |-> Router!CliPort, host |-> h]
      BY <2>1
    <2>3. DOMAIN address' = {"port", "host"} /\ DOMAIN <<>> = {}
      BY <2>2
    <2>4. address' # <<>>
      BY <2>3
    <2> QED
      BY <2>1, <2>4 DEF RouterTypes
  <1>8. ASSUME NEW m, NEW p, NEW role, Router!handleRequest(m, p, role) PROVE RouterTypes'
    <2>1. PICK i : i = Router!match(m, p)
      OBVIOUS
    <2>2. PICK as : as = IF Router!ServedBuiltIn(m, p) THEN "builtIn"
                         ELSE Router!Disposition(i, role)
      OBVIOUS
    <2>3. PICK a : a = [method |-> m, path |-> p, role |-> role, as |-> as,
                        route |-> IF as = "builtIn" THEN 0 ELSE i, of |-> Len(routes)]
      OBVIOUS
    <2>4. /\ answers' = answers \cup {a}
          /\ UNCHANGED <<stage, routes, configured, settings, middleware, address>>
      BY <1>8, <2>1, <2>2, <2>3 DEF Router!handleRequest
    <2>5. a.of = Len(routes) /\ Len(routes) \in 0 .. Len(routes)
      BY <1>1, <2>3
    <2> QED
      BY <2>4, <2>5 DEF RouterTypes
  <1> QED
    BY <1>2, <1>4, <1>5, <1>6, <1>7, <1>8, Zenon DEF Router!Next, Router!_http_route,
       Router!_http_route_protected, Router!_http_redirect_route, Router!_http_sse_route,
       Router!registerRedirect, Router!registerSse, Router!_cors_configure,
       Router!_rate_limit_configure, Router!_http_set_global_error_handler,
       Router!_http_listen

LEMMA RouterTyped ==
    /\ MCInit => RouterTypes
    /\ RouterInv /\ RouterTypes /\ [MCNext]_allVars => RouterTypes'
    /\ RouterInv /\ RouterTypes => Router!TypeOK
  <1>1. ASSUME MCInit PROVE RouterTypes
    <2>1. /\ stage = "loaded" /\ routes = <<>> /\ configured = Router!Unset /\ settings = 0
          /\ middleware = <<>> /\ address = <<>> /\ answers = {}
      BY <1>1 DEF MCInit, Router!Init
    <2>2. Len(routes) = 0 /\ 0 <= MaxRoutes /\ 0 \in 0 .. MaxSettings
      BY <2>1, RoutingAssumption
    <2> QED
      BY <2>1, <2>2 DEF RouterTypes
  <1>2. ASSUME RouterInv, RouterTypes, [MCNext]_allVars PROVE RouterTypes'
    <2>1. Router!Next \/ UNCHANGED routerVars
      BY <1>2 DEF MCNext, allVars, ServerIdle
    <2>2. CASE UNCHANGED routerVars
      BY <1>2, <2>2 DEF RouterTypes, routerVars
    <2> QED
      BY <1>2, <2>1, <2>2, RouterTypesStep
  <1>3. ASSUME RouterInv, RouterTypes PROVE Router!TypeOK
    <2>1. routes \in Seq(Candidates) /\ Len(routes) \in Nat
      BY <1>3, LenProperties DEF RouterInv
    <2>2. \A a \in answers : a.route \in 0 .. Len(routes)
      BY <1>3, <2>1 DEF RouterInv, AnsweredBy, FirstRoute
    <2> QED
      BY <1>3, <2>1, <2>2 DEF RouterTypes, Router!TypeOK
  <1> QED
    BY <1>1, <1>2, <1>3

-----------------------------------------------------------------------------
(***************************************************************************)
(* Texts.  A text is that of the first file that has it: the locale's own, *)
(* that of its language, that of the default locale.                       *)
(***************************************************************************)
LEMMA TextsTyped ==
    /\ MCInit => Texts!TypeOK
    /\ Texts!TypeOK /\ [MCNext]_allVars => Texts!TypeOK'
  <1>1. ASSUME MCInit PROVE Texts!TypeOK
    <2>1. /\ translations = [l \in {} |-> {}] /\ currentLocale = Texts!defaultLocale
          /\ loads = 0 /\ handling = FALSE /\ localeRequests = 0 /\ setBy = 0
      BY <1>1 DEF MCInit, Texts!Init
    <2>2. DOMAIN translations = {}
      BY <2>1
    <2>3. loads \in 0 .. 3 /\ localeRequests \in 0 .. 2 /\ setBy \in 0 .. localeRequests
      BY <2>1
    <2>4. currentLocale \in {<<"en">>, <<"fr">>, <<"fr", "CA">>, <<"ru">>}
      BY <2>1 DEF Texts!defaultLocale
    <2> QED
      BY <2>1, <2>2, <2>3, <2>4 DEF Texts!TypeOK
  <1>2. ASSUME Texts!TypeOK, Texts!setRequestContext PROVE Texts!TypeOK'
    <2>1. /\ localeRequests' = localeRequests + 1 /\ localeRequests < 2 /\ handling' = TRUE
          /\ UNCHANGED <<translations, currentLocale, loads, setBy>>
      BY <1>2 DEF Texts!setRequestContext
    <2>2. localeRequests \in 0 .. 2 /\ setBy \in 0 .. localeRequests
      BY <1>2 DEF Texts!TypeOK
    <2>3. localeRequests' \in 0 .. 2 /\ setBy \in 0 .. localeRequests'
      BY <2>1, <2>2
    <2> QED
      BY <1>2, <2>1, <2>3 DEF Texts!TypeOK
  <1>3. ASSUME Texts!TypeOK, Texts!RequestEnds PROVE Texts!TypeOK'
    BY <1>3 DEF Texts!RequestEnds, Texts!TypeOK
  <1>4. ASSUME Texts!TypeOK, NEW l, l \in {<<"en">>, <<"fr">>, <<"fr", "CA">>, <<"ru">>},
               Texts!_i18n_set_locale(l)
        PROVE  Texts!TypeOK'
    BY <1>4 DEF Texts!_i18n_set_locale, Texts!TypeOK
  <1>5. ASSUME Texts!TypeOK, NEW l, l \in {<<"en">>, <<"fr">>, <<"fr", "CA">>, <<"ru">>},
               NEW f \in TextFiles, Texts!_i18n_load(l, f)
        PROVE  Texts!TypeOK'
    BY <1>5 DEF Texts!_i18n_load, Texts!TypeOK
  <1>6. ASSUME Texts!TypeOK, UNCHANGED textVars PROVE Texts!TypeOK'
    BY <1>6 DEF textVars, Texts!TypeOK
  <1>7. ASSUME [MCNext]_allVars PROVE Texts!Next \/ UNCHANGED textVars
    <2>1. CASE UNCHANGED allVars
      BY <2>1 DEF allVars, programVars
    <2>2. CASE MCNext
      BY <2>2 DEF MCNext, ProgramIdle, programVars
    <2> QED
      BY <1>7, <2>1, <2>2
  <1> QED
    BY <1>1, <1>2, <1>3, <1>4, <1>5, <1>6, <1>7, Zenon DEF Texts!Next

LEMMA LeastIs ==
    ASSUME NEW S, S \subseteq Nat, NEW i \in S, \A j \in S : i <= j
    PROVE  Texts!Min(S) = i
  <1>1. \A k \in S : (\A j \in S : k <= j) => k = i
    OBVIOUS
  <1> QED
    BY <1>1 DEF Texts!Min

Text(locale, form) == [from |-> locale, form |-> form]

LEMMA FirstOfThree ==
    ASSUME NEW a, NEW b, NEW c, NEW form
    PROVE  Texts!FirstOf(<<a, b, c>>, form) =
              IF Texts!Holds(a, form) THEN Text(a, form)
              ELSE IF Texts!Holds(b, form) THEN Text(b, form)
              ELSE IF Texts!Holds(c, form) THEN Text(c, form) ELSE Texts!NoText
  <1> DEFINE s == <<a, b, c>>
             at == {i \in DOMAIN s : Texts!Holds(s[i], form)}
  <1>1. DOMAIN s = {1, 2, 3} /\ s[1] = a /\ s[2] = b /\ s[3] = c
    OBVIOUS
  <1>2. Texts!FirstOf(s, form) = IF at = {} THEN Texts!NoText ELSE Text(s[Texts!Min(at)], form)
    BY DEF Texts!FirstOf, Text
  <1>3. at \subseteq {1, 2, 3} /\ at \subseteq Nat
    BY <1>1
  <1>4. /\ 1 \in at <=> Texts!Holds(a, form)
        /\ 2 \in at <=> Texts!Holds(b, form)
        /\ 3 \in at <=> Texts!Holds(c, form)
    BY <1>1
  <1> HIDE DEF at, s
  <1>5. CASE 1 \in at
    <2>1. 1 \in at /\ \A j \in at : 1 <= j
      BY <1>3, <1>5
    <2>2. Texts!Min(at) = 1
      BY <1>3, <2>1, LeastIs
    <2> QED
      BY <1>1, <1>2, <1>4, <1>5, <2>2 DEF s
  <1>6. CASE 1 \notin at /\ 2 \in at
    <2>1. 2 \in at /\ \A j \in at : 2 <= j
      BY <1>3, <1>6
    <2>2. Texts!Min(at) = 2
      BY <1>3, <2>1, LeastIs
    <2> QED
      BY <1>1, <1>2, <1>4, <1>6, <2>2 DEF s
  <1>7. CASE 1 \notin at /\ 2 \notin at /\ 3 \in at
    <2>1. 3 \in at /\ \A j \in at : 3 <= j
      BY <1>3, <1>7
    <2>2. Texts!Min(at) = 3
      BY <1>3, <2>1, LeastIs
    <2> QED
      BY <1>1, <1>2, <1>4, <1>7, <2>2 DEF s
  <1>8. CASE at = {}
    BY <1>2, <1>4, <1>8 DEF s
  <1> QED
    BY <1>3, <1>5, <1>6, <1>7, <1>8

\* What is found for a locale.
LEMMA LookupFacts ==
    ASSUME NEW l, l # <<>>, NEW form
    PROVE  LET text == Texts!lookupRaw(form, l)
           IN  /\ Texts!Holds(l, form) => text = Text(l, form)
               /\ ~Texts!Holds(l, form) /\ Texts!Holds(Texts!primary(l), form) =>
                     text = Text(Texts!primary(l), form)
               /\ text # Texts!NoText <=> \/ Texts!Holds(l, form)
                                          \/ Texts!Holds(Texts!primary(l), form)
                                          \/ Texts!Holds(Texts!defaultLocale, form)
               /\ text # Texts!NoText =>
                     /\ text.form = form /\ Texts!Holds(text.from, form)
                     /\ text.from \in {l, Texts!primary(l), Texts!defaultLocale}
               /\ text # Texts!NoText /\ text.from = Texts!defaultLocale =>
                     \A k \in {l, Texts!primary(l)} \ {Texts!defaultLocale} :
                        ~Texts!Holds(k, form)
  <1> DEFINE text == Texts!lookupRaw(form, l)
  <1>1. text = IF Texts!Holds(l, form) THEN Text(l, form)
               ELSE IF Texts!Holds(Texts!primary(l), form) THEN Text(Texts!primary(l), form)
               ELSE IF Texts!Holds(Texts!defaultLocale, form)
                    THEN Text(Texts!defaultLocale, form) ELSE Texts!NoText
    BY FirstOfThree DEF Texts!lookupRaw
  <1>2. \A k : k # <<>> => /\ Text(k, form).from = k /\ Text(k, form).form = form
                           /\ Text(k, form) # Texts!NoText
    <2>1. Texts!NoText.from = <<>>
      BY DEF Texts!NoText
    <2> QED
      BY <2>1 DEF Text
  <1>3. Texts!primary(l) # <<>> /\ Texts!defaultLocale # <<>>
    BY DEF Texts!primary, Texts!defaultLocale
  <1>4. PICK k : k = Texts!primary(l)
    OBVIOUS
  <1>5. PICK d : d = Texts!defaultLocale
    OBVIOUS
  <1>6. k # <<>> /\ d # <<>>
    BY <1>3, <1>4, <1>5
  <1>7. text = IF Texts!Holds(l, form) THEN Text(l, form)
               ELSE IF Texts!Holds(k, form) THEN Text(k, form)
               ELSE IF Texts!Holds(d, form) THEN Text(d, form) ELSE Texts!NoText
    BY <1>1, <1>4, <1>5
  <1> HIDE DEF text
  <1>8. /\ Texts!Holds(l, form) => text = Text(l, form)
        /\ ~Texts!Holds(l, form) /\ Texts!Holds(k, form) => text = Text(k, form)
    BY <1>7
  <1>9. text # Texts!NoText <=>
           Texts!Holds(l, form) \/ Texts!Holds(k, form) \/ Texts!Holds(d, form)
    BY <1>2, <1>6, <1>7
  <1>10. text # Texts!NoText =>
            text.form = form /\ Texts!Holds(text.from, form) /\ text.from \in {l, k, d}
    BY <1>2, <1>6, <1>7
  <1>11. text # Texts!NoText /\ text.from = d =>
            \A h \in {l, k} \ {d} : ~Texts!Holds(h, form)
    <2>1. l = d => k = d
      BY <1>4, <1>5 DEF Texts!primary, Texts!defaultLocale
    <2> QED
      BY <1>2, <1>6, <1>7, <2>1
  <1> QED
    BY <1>4, <1>5, <1>8, <1>9, <1>10, <1>11 DEF text

LEMMA FoundIs ==
    ASSUME NEW l, l # <<>>, NEW form, NEW text, text = Texts!lookupRaw(form, l),
           text # Texts!NoText
    PROVE  text.form = form /\ Texts!Holds(text.from, form)
  BY LookupFacts

LEMMA TextMostSpecific == currentLocale # <<>> => Texts!MostSpecific
  <1> SUFFICES ASSUME currentLocale # <<>> PROVE Texts!MostSpecific
    OBVIOUS
  <1>1. PICK text : text = Texts!lookupRaw(Texts!Plain, currentLocale)
    OBVIOUS
  <1>2. /\ Texts!Holds(currentLocale, Texts!Plain) => text = Text(currentLocale, Texts!Plain)
        /\ text # Texts!NoText /\ text.from = Texts!defaultLocale =>
              \A k \in {currentLocale, Texts!primary(currentLocale)} \ {Texts!defaultLocale} :
                 ~Texts!Holds(k, Texts!Plain)
    BY <1>1, LookupFacts
  <1> QED
    BY <1>1, <1>2 DEF Texts!MostSpecific, Texts!_i18n_t, Text

\* The category of a count is that of the language, and "zero" is for no things only.
LEMMA Categories ==
    ASSUME NEW l, NEW n
    PROVE  /\ Texts!pluralCategory(n, l) = Texts!pluralCategory(n, Texts!primary(l))
           /\ n # 0 => Texts!pluralCategory(n, l) # "zero"
  <1>1. Texts!primary(l)[1] = l[1]
    BY DEF Texts!primary
  <1>2. Texts!pluralCategory(n, l) = Texts!pluralCategory(n, Texts!primary(l))
    BY <1>1 DEF Texts!pluralCategory
  <1>3. n # 0 => /\ Texts!arabic(n) # "zero" /\ Texts!polish(n) # "zero"
                 /\ Texts!slavicRu(n) # "zero"
    BY DEF Texts!arabic, Texts!polish, Texts!slavicRu
  <1>4. n # 0 => Texts!pluralCategory(n, l) # "zero"
    BY <1>3 DEF Texts!pluralCategory
  <1> QED
    BY <1>2, <1>4

\* The text for a count: that for zero things, that of its category, the other one.
LEMMA CountText ==
    ASSUME NEW l, NEW n
    PROVE  LET zero == Texts!lookupRaw("zero", l)
               own == Texts!lookupRaw(Texts!pluralCategory(n, l), l)
           IN  Texts!translateCount(n, l) =
                  IF n = 0 /\ zero # Texts!NoText THEN zero
                  ELSE IF own # Texts!NoText THEN own ELSE Texts!lookupRaw("other", l)
  <1>1. PICK cat : cat = Texts!pluralCategory(n, l)
    OBVIOUS
  <1> DEFINE found(form) == Texts!lookupRaw(form, l)
             forms == (IF n = 0 THEN <<"zero">> ELSE <<>>) \o <<cat, "other">>
             at == {i \in DOMAIN forms : found(forms[i]) # Texts!NoText}
  <1>2. Texts!translateCount(n, l) =
           IF at = {} THEN Texts!NoText ELSE found(forms[Texts!Min(at)])
    BY <1>1 DEF Texts!translateCount
  <1> HIDE DEF found
  <1>3. CASE n = 0
    <2>1. DOMAIN forms = {1, 2, 3} /\ forms[1] = "zero" /\ forms[2] = cat /\ forms[3] = "other"
      BY <1>3
    <2>2. /\ at \subseteq {1, 2, 3} /\ at \subseteq Nat
          /\ 1 \in at <=> found("zero") # Texts!NoText
          /\ 2 \in at <=> found(cat) # Texts!NoText
          /\ 3 \in at <=> found("other") # Texts!NoText
      BY <2>1
    <2> HIDE DEF at, forms
    <2>3. CASE 1 \in at
      <3>1. \A j \in at : 1 <= j
        BY <2>2
      <3>2. Texts!Min(at) = 1
        BY <2>2, <2>3, <3>1, LeastIs
      <3> QED
        BY <1>1, <1>2, <1>3, <2>1, <2>2, <2>3, <3>2 DEF found
    <2>4. CASE 1 \notin at /\ 2 \in at
      <3>1. \A j \in at : 2 <= j
        BY <2>2, <2>4
      <3>2. Texts!Min(at) = 2
        BY <2>2, <2>4, <3>1, LeastIs
      <3> QED
        BY <1>1, <1>2, <2>1, <2>2, <2>4, <3>2 DEF found
    <2>5. CASE 1 \notin at /\ 2 \notin at /\ 3 \in at
      <3>1. \A j \in at : 3 <= j
        BY <2>2, <2>5
      <3>2. Texts!Min(at) = 3
        BY <2>2, <2>5, <3>1, LeastIs
      <3> QED
        BY <1>1, <1>2, <2>1, <2>2, <2>5, <3>2 DEF found
    <2>6. CASE at = {}
      BY <1>1, <1>2, <2>2, <2>6 DEF found
    <2> QED
      BY <2>2, <2>3, <2>4, <2>5, <2>6
  <1>4. CASE n # 0
    <2>1. DOMAIN forms = {1, 2} /\ forms[1] = cat /\ forms[2] = "other"
      BY <1>4
    <2>2. /\ at \subseteq {1, 2} /\ at \subseteq Nat
          /\ 1 \in at <=> found(cat) # Texts!NoText
          /\ 2 \in at <=> found("other") # Texts!NoText
      BY <2>1
    <2> HIDE DEF at, forms
    <2>3. CASE 1 \in at
      <3>1. \A j \in at : 1 <= j
        BY <2>2
      <3>2. Texts!Min(at) = 1
        BY <2>2, <2>3, <3>1, LeastIs
      <3> QED
        BY <1>1, <1>2, <1>4, <2>1, <2>2, <2>3, <3>2 DEF found
    <2>4. CASE 1 \notin at /\ 2 \in at
      <3>1. \A j \in at : 2 <= j
        BY <2>2, <2>4
      <3>2. Texts!Min(at) = 2
        BY <2>2, <2>4, <3>1, LeastIs
      <3> QED
        BY <1>1, <1>2, <1>4, <2>1, <2>2, <2>4, <3>2 DEF found
    <2>5. CASE at = {}
      BY <1>1, <1>2, <1>4, <2>2, <2>5 DEF found
    <2> QED
      BY <2>2, <2>3, <2>4, <2>5
  <1> QED
    BY <1>3, <1>4

LEMMA CountsHaveTexts == currentLocale # <<>> => Texts!CountsServed
  <1> SUFFICES ASSUME currentLocale # <<>> PROVE Texts!CountsServed
    OBVIOUS
  <1> DEFINE l == currentLocale
             language == Texts!primary(l)
             cat(n) == Texts!pluralCategory(n, language)
             complete == /\ Texts!Holds(language, "other")
                         /\ \A c \in Texts!Categories(language) : Texts!Holds(language, c)
             zeroElsewhere == \E k \in DOMAIN translations :
                                 Texts!Holds(k, "zero") /\ k # language
             ownForms == l # language /\ l \in DOMAIN translations
  <1>1. ASSUME NEW n \in {0, 1, 2, 5, 11, 12, 21, 22, 100, 101, 111},
               NEW text, text = Texts!translateCount(n, l)
        PROVE  /\ \/ Texts!Holds(language, "other")
                  \/ Texts!Holds(Texts!defaultLocale, "other")
                  => text # Texts!NoText
               /\ (complete /\ ~ownForms /\ (n = 0 => ~zeroElsewhere)) =>
                     text.from = language /\ text.form \in {"zero", cat(n)}
               /\ n # 0 => text.form # "zero"
    <2>1. PICK zero : zero = Texts!lookupRaw("zero", l)
      OBVIOUS
    <2>2. PICK own : own = Texts!lookupRaw(cat(n), l)
      OBVIOUS
    <2>3. PICK other : other = Texts!lookupRaw("other", l)
      OBVIOUS
    <2>4. text = IF n = 0 /\ zero # Texts!NoText THEN zero
                 ELSE IF own # Texts!NoText THEN own ELSE other
      <3>1. Texts!pluralCategory(n, l) = cat(n)
        BY Categories
      <3> QED
        BY <1>1, <2>1, <2>2, <2>3, <3>1, CountText
    <2> HIDE DEF language, cat
    <2>5. ASSUME Texts!Holds(language, "other") \/ Texts!Holds(Texts!defaultLocale, "other")
          PROVE  text # Texts!NoText
      <3>1. other # Texts!NoText
        BY <2>3, <2>5, LookupFacts DEF language
      <3> QED
        BY <2>4, <3>1
    <2>6. ASSUME complete, ~ownForms, n = 0 => ~zeroElsewhere
          PROVE  text.from = language /\ text.form \in {"zero", cat(n)}
      <3>1. l = language \/ \A form : ~Texts!Holds(l, form)
        BY <2>6 DEF Texts!Holds
      <3>2. Texts!Holds(language, cat(n))
        <4>1. cat(n) \in Texts!Categories(language)
          BY DEF Texts!Categories, cat
        <4> QED
          BY <2>6, <4>1
      <3>3. own = Text(language, cat(n))
        BY <2>2, <3>1, <3>2, LookupFacts DEF language
      <3>4. own # Texts!NoText
        BY <2>2, <3>1, <3>2, LookupFacts DEF language
      <3>5. CASE n = 0 /\ zero # Texts!NoText
        <4>1. zero.form = "zero" /\ Texts!Holds(zero.from, "zero")
          BY <2>1, <3>5, FoundIs
        <4>2. zero.from = language
          BY <2>6, <3>5, <4>1 DEF Texts!Holds
        <4> QED
          BY <2>4, <3>5, <4>1, <4>2
      <3>6. CASE ~(n = 0 /\ zero # Texts!NoText)
        BY <2>4, <3>3, <3>4, <3>6 DEF Text
      <3> QED
        BY <3>5, <3>6
    <2>7. ASSUME n # 0 PROVE text.form # "zero"
      <3>1. cat(n) # "zero"
        BY <2>7, Categories DEF cat
      <3>2. own # Texts!NoText => own.form = cat(n)
        BY <2>2, FoundIs
      <3>3. other # Texts!NoText => other.form = "other"
        BY <2>3, FoundIs
      <3>4. Texts!NoText.form # "zero"
        <4>1. Texts!NoText.form = Texts!Plain
          BY DEF Texts!NoText
        <4>2. Texts!Plain # "zero"
          BY Zenon DEF Texts!Plain
        <4> QED
          BY <4>1, <4>2
      <3>5. "other" # "zero"
        OBVIOUS
      <3>6. text = own \/ text = other
        BY <2>4, <2>7
      <3> QED
        BY <2>4, <2>7, <3>1, <3>2, <3>3, <3>4, <3>5, <3>6
    <2> QED
      BY <2>5, <2>6, <2>7
  <1> QED
    BY <1>1 DEF Texts!CountsServed, Texts!_i18n_t_count

-----------------------------------------------------------------------------
(***************************************************************************)
(* Numbers.  Places are counted from the right: among the characters of    *)
(* the integer part every fourth one is a separator when figures are       *)
(* grouped, and the others are the figures in their order.                 *)
(***************************************************************************)
\* The characters that show the last a figures, the figures among the last m
\* characters, and which places are separators.
Characters(g, a) == IF g /\ a > 0 THEN a + (a - 1) \div 3 ELSE a
FiguresOf(g, m) == IF g THEN m - m \div 4 ELSE m
Separates(g, m) == g /\ m % 4 = 0
SeparatorAfter(g, a) == g /\ a > 0 /\ a % 3 = 0

LEMMA FigureNumbers ==
    ASSUME NEW g \in BOOLEAN, NEW m \in Nat
    PROVE  /\ FiguresOf(g, m) \in Nat /\ FiguresOf(g, m) <= m /\ FiguresOf(g, 0) = 0
           /\ Separates(g, m + 1) => FiguresOf(g, m + 1) = FiguresOf(g, m)
           /\ ~Separates(g, m + 1) => FiguresOf(g, m + 1) = FiguresOf(g, m) + 1
  <1>1. PICK q, r : q \in Nat /\ r \in 0 .. 3 /\ m = 4 * q + r
    <2>1. m \div 4 \in Nat /\ m % 4 \in 0 .. 3 /\ m = 4 * (m \div 4) + (m % 4)
      OBVIOUS
    <2> QED
      BY <2>1
  <1>2. m \div 4 = q /\ m % 4 = r
    BY <1>1
  <1>3. r # 3 => (m + 1) \div 4 = q /\ (m + 1) % 4 = r + 1
    BY <1>1
  <1>4. r = 3 => (m + 1) \div 4 = q + 1 /\ (m + 1) % 4 = 0
    BY <1>1
  <1> QED
    BY <1>1, <1>2, <1>3, <1>4 DEF FiguresOf, Separates

LEMMA FiguresGrow ==
    ASSUME NEW g \in BOOLEAN, NEW m \in Nat, NEW k \in Nat, m <= k
    PROVE  FiguresOf(g, m) <= FiguresOf(g, k)
  <1>1. /\ m \div 4 \in Nat /\ m % 4 \in 0 .. 3 /\ m = 4 * (m \div 4) + (m % 4)
        /\ k \div 4 \in Nat /\ k % 4 \in 0 .. 3 /\ k = 4 * (k \div 4) + (k % 4)
    OBVIOUS
  <1>2. m - m \div 4 <= k - k \div 4
    BY <1>1
  <1> QED
    BY <1>2 DEF FiguresOf

LEMMA CharacterNumbers ==
    ASSUME NEW g \in BOOLEAN, NEW a \in Nat
    PROVE  /\ Characters(g, a) \in Nat /\ Characters(g, 0) = 0
           /\ Characters(g, a + 1) =
                 Characters(g, a) + (IF SeparatorAfter(g, a) THEN 2 ELSE 1)
           /\ ~Separates(g, Characters(g, a + 1))
           /\ FiguresOf(g, Characters(g, a + 1)) = a + 1
           /\ FiguresOf(g, Characters(g, a + 1) - 1) = a
           /\ SeparatorAfter(g, a) => Separates(g, Characters(g, a + 1) - 1)
  <1>1. PICK q, r : q \in Nat /\ r \in 0 .. 2 /\ a = 3 * q + r
    <2>1. a \div 3 \in Nat /\ a % 3 \in 0 .. 2 /\ a = 3 * (a \div 3) + (a % 3)
      OBVIOUS
    <2> QED
      BY <2>1
  <1>2. a \div 3 = q /\ a % 3 = r /\ (a + 1) - 1 = a /\ a + 1 > 0
    BY <1>1
  <1>3. (4 * q + r + 1) \div 4 = q /\ (4 * q + r + 1) % 4 = r + 1
    BY <1>1
  <1>4. (4 * q + r) \div 4 = q /\ (4 * q + r) % 4 = r
    BY <1>1
  <1>5. a > 0 => (r = 0 => (a - 1) \div 3 = q - 1) /\ (r # 0 => (a - 1) \div 3 = q)
    BY <1>1
  <1>6. CASE g
    <2>1. Characters(g, a + 1) = 4 * q + r + 1 /\ Characters(g, a + 1) - 1 = 4 * q + r
      BY <1>1, <1>2, <1>6 DEF Characters
    <2>2. a = 0 => Characters(g, a) = 0 /\ q = 0 /\ r = 0
      BY <1>1 DEF Characters
    <2>3. a > 0 => Characters(g, a) = IF r = 0 THEN 4 * q - 1 ELSE 4 * q + r
      BY <1>1, <1>5, <1>6 DEF Characters
    <2>4. Characters(g, a) \in Nat
      BY <1>1, <2>2, <2>3
    <2>5. Characters(g, a + 1) = Characters(g, a) + (IF SeparatorAfter(g, a) THEN 2 ELSE 1)
      <3>1. CASE a = 0
        BY <1>2, <2>1, <2>2, <3>1 DEF SeparatorAfter
      <3>2. CASE a > 0 /\ r = 0
        <4>1. SeparatorAfter(g, a)
          BY <1>2, <1>6, <3>2 DEF SeparatorAfter
        <4> QED
          BY <1>1, <2>1, <2>3, <3>2, <4>1
      <3>3. CASE a > 0 /\ r # 0
        <4>1. ~SeparatorAfter(g, a)
          BY <1>2, <3>3 DEF SeparatorAfter
        <4> QED
          BY <1>1, <2>1, <2>3, <3>3, <4>1
      <3> QED
        BY <3>1, <3>2, <3>3
    <2>6. ~Separates(g, Characters(g, a + 1))
      BY <1>1, <1>3, <2>1 DEF Separates
    <2>7. FiguresOf(g, Characters(g, a + 1)) = a + 1
      <3>1. FiguresOf(g, 4 * q + r + 1) = (4 * q + r + 1) - q
        BY <1>3, <1>6 DEF FiguresOf
      <3> QED
        BY <1>1, <2>1, <3>1
    <2>8. FiguresOf(g, Characters(g, a + 1) - 1) = a
      <3>1. FiguresOf(g, 4 * q + r) = (4 * q + r) - q
        BY <1>4, <1>6 DEF FiguresOf
      <3> QED
        BY <1>1, <2>1, <3>1
    <2>9. SeparatorAfter(g, a) => Separates(g, Characters(g, a + 1) - 1)
      BY <1>1, <1>2, <1>4, <2>1 DEF SeparatorAfter, Separates
    <2> QED
      BY <2>4, <2>5, <2>6, <2>7, <2>8, <2>9 DEF Characters
  <1>7. CASE ~g
    BY <1>7 DEF Characters, FiguresOf, Separates, SeparatorAfter
  <1> QED
    BY <1>6, <1>7

\* The pieces formatNumber joins, and the character at a place of what it joins them to.
Pieces(int, g, group) ==
    [i \in DOMAIN int |-> IF SeparatorAfter(g, Len(int) - i) THEN <<int[i], group>> ELSE <<int[i]>>]
CharacterAt(int, g, group, p) ==
    IF Separates(g, Characters(g, Len(int)) + 1 - p) THEN group
    ELSE int[Len(int) - FiguresOf(g, Characters(g, Len(int)) - p)]
ShowsUpTo(int, g, group, s, a) ==
    /\ s \in Seq({int[i] : i \in DOMAIN int} \cup {group})
    /\ Len(s) = Characters(g, Len(int)) - Characters(g, a)
    /\ \A p \in 1 .. Len(s) : s[p] = CharacterAt(int, g, group, p)

LEMMA ShowsNext ==
    ASSUME NEW D, NEW int \in Seq(D), NEW g \in BOOLEAN, NEW group, NEW i \in 1 .. Len(int),
           NEW s, ShowsUpTo(int, g, group, s, Len(int) - i + 1)
    PROVE  ShowsUpTo(int, g, group, s \o Pieces(int, g, group)[i], Len(int) - i)
  <1>1. PICK n : n = Len(int) /\ n \in Nat /\ DOMAIN int = 1 .. n
    BY LenProperties
  <1>2. PICK a : a = n - i /\ a \in Nat /\ Len(int) - i = a /\ Len(int) - i + 1 = a + 1
                 /\ n - a = i
    BY <1>1
  <1>3. PICK total : total = Characters(g, n) /\ total \in Nat
    BY <1>1, CharacterNumbers
  <1>4. PICK E : E = {int[k] : k \in DOMAIN int} \cup {group}
    OBVIOUS
  <1>5. PICK piece : piece = Pieces(int, g, group)[i]
    OBVIOUS
  <1>6. i \in DOMAIN int /\ int[i] \in E /\ group \in E
    BY <1>1, <1>4
  <1>7. piece = IF SeparatorAfter(g, a) THEN <<int[i], group>> ELSE <<int[i]>>
    BY <1>2, <1>5, <1>6 DEF Pieces
  <1>8. /\ piece \in Seq(E) /\ piece[1] = int[i]
        /\ Len(piece) = IF SeparatorAfter(g, a) THEN 2 ELSE 1
        /\ SeparatorAfter(g, a) => piece[2] = group
    BY <1>6, <1>7
  <1>9. PICK c : c = Characters(g, a + 1) /\ c \in Nat
    BY <1>2, CharacterNumbers
  <1>10. /\ Characters(g, a) \in Nat /\ c = Characters(g, a) + Len(piece)
         /\ ~Separates(g, c) /\ FiguresOf(g, c - 1) = a
         /\ SeparatorAfter(g, a) => Separates(g, c - 1)
    BY <1>2, <1>8, <1>9, CharacterNumbers
  <1>11. /\ s \in Seq(E) /\ Len(s) = total - c
         /\ \A p \in 1 .. Len(s) : s[p] = CharacterAt(int, g, group, p)
    BY <1>1, <1>2, <1>3, <1>4, <1>9 DEF ShowsUpTo
  <1>12. PICK t : t = s \o piece
    OBVIOUS
  <1>13. PICK ls, lp : /\ ls = Len(s) /\ ls \in Nat /\ ls = total - c
                       /\ lp = Len(piece) /\ lp \in {1, 2}
    BY <1>8, <1>11, LenProperties
  <1>14. /\ t \in Seq(E) /\ Len(t) = ls + lp
         /\ \A p \in 1 .. ls + lp : t[p] = IF p <= ls THEN s[p] ELSE piece[p - ls]
    <2>1. /\ t \in Seq(E) /\ Len(t) = Len(s) + Len(piece)
          /\ \A p \in 1 .. Len(s) + Len(piece) :
                t[p] = IF p <= Len(s) THEN s[p] ELSE piece[p - Len(s)]
      BY <1>8, <1>11, <1>12, ConcatProperties
    <2> QED
      BY <1>13, <2>1
  <1>15. Len(t) = total - Characters(g, a)
    BY <1>3, <1>10, <1>13, <1>14
  <1>16. ls \in Nat /\ lp \in {1, 2} /\ total \in Nat /\ c \in Nat /\ ls = total - c
    BY <1>3, <1>9, <1>13
  <1>17. ASSUME NEW p \in 1 .. ls + lp PROVE t[p] = CharacterAt(int, g, group, p)
    <2>1. CASE p <= ls
      <3>1. p \in 1 .. ls /\ p \in 1 .. ls + lp
        BY <1>13, <1>14, <2>1
      <3> QED
        BY <1>11, <1>13, <1>14, <2>1, <3>1
    <2>2. CASE p = ls + 1
      <3>1. p \in 1 .. ls + lp /\ ~(p <= ls) /\ p - ls = 1
        BY <1>13, <2>2
      <3>2. t[p] = int[i]
        BY <1>8, <1>14, <3>1
      <3>3. total + 1 - p = c /\ total - p = c - 1
        BY <1>16, <2>2
      <3> QED
        BY <1>1, <1>2, <1>3, <1>10, <3>2, <3>3 DEF CharacterAt
    <2>3. CASE p = ls + 2
      <3>1. SeparatorAfter(g, a)
        BY <1>8, <1>13, <2>3
      <3>2. p \in 1 .. ls + lp /\ ~(p <= ls) /\ p - ls = 2
        BY <1>8, <1>13, <2>3, <3>1
      <3>3. t[p] = group
        BY <1>8, <1>14, <3>1, <3>2
      <3>4. total + 1 - p = c - 1
        BY <1>16, <2>3
      <3> QED
        BY <1>1, <1>3, <1>10, <3>1, <3>3, <3>4 DEF CharacterAt
    <2> QED
      <3>1. p <= ls \/ p = ls + 1 \/ p = ls + 2
        BY <1>16
      <3> QED
        BY <2>1, <2>2, <2>3, <3>1
  <1> QED
    BY <1>1, <1>2, <1>3, <1>4, <1>5, <1>12, <1>14, <1>15, <1>17 DEF ShowsUpTo

LEMMA TextsFlatten == \A s : Texts!FlattenSeq(s) = FlattenSeq(s)
  BY DEF Texts!FlattenSeq, FlattenSeq

LEMMA ShownFigures ==
    ASSUME NEW D, NEW int \in Seq(D), Len(int) # 0, NEW g \in BOOLEAN, NEW group
    PROVE  ShowsUpTo(int, g, group, Texts!FlattenSeq(Pieces(int, g, group)), 0)
  <1>1. PICK n : n = Len(int) /\ n \in Nat \ {0} /\ DOMAIN int = 1 .. n
    BY LenProperties
  <1>2. PICK E : E = {int[k] : k \in DOMAIN int} \cup {group}
    OBVIOUS
  <1>3. PICK ps : ps = Pieces(int, g, group)
    OBVIOUS
  <1>4. ASSUME NEW i \in 1 .. n PROVE ps[i] \in Seq(E)
    <2>1. int[i] \in E /\ group \in E
      BY <1>1, <1>2
    <2> QED
      BY <1>1, <1>3, <2>1 DEF Pieces
  <1>5. DOMAIN ps = 1 .. n /\ ps = [i \in 1 .. n |-> ps[i]]
    BY <1>1, <1>3 DEF Pieces
  <1>6. ps \in Seq(Seq(E)) /\ Len(ps) = n
    <2>1. ps \in [1 .. n -> Seq(E)]
      BY <1>4, <1>5
    <2> QED
      BY <1>1, <2>1
  <1>7. PICK f : /\ f[1] = ps[1] /\ FlattenSeq(ps) = f[n]
                 /\ \A i \in 1 .. n : i # 1 => f[i] = f[i - 1] \o ps[i]
    <2>1. Len(ps) # 0
      BY <1>1, <1>6
    <2>2. \E f : /\ f[1] = ps[1] /\ FlattenSeq(ps) = f[Len(ps)]
                 /\ \A i \in 1 .. Len(ps) : i # 1 => f[i] = f[i - 1] \o ps[i]
      BY <1>6, <2>1, FlattenFacts
    <2> QED
      BY <1>6, <2>2
  <1> DEFINE S == {k \in Nat : ShowsUpTo(int, g, group, f[k + 1], n - (k + 1))}
  <1>8. 0 \in S
    <2>1. n - 1 + 1 = n /\ 1 \in 1 .. n
      BY <1>1
    <2>2. ShowsUpTo(int, g, group, <<>>, n - 1 + 1)
      <3>1. Characters(g, n) \in Nat
        BY <1>1, CharacterNumbers
      <3>2. Characters(g, n) - Characters(g, n) = 0
        BY <3>1
      <3>3. <<>> \in Seq(E) /\ Len(<<>>) = 0 /\ 1 .. 0 = {}
        OBVIOUS
      <3> QED
        BY <1>1, <1>2, <2>1, <3>2, <3>3 DEF ShowsUpTo
    <2>3. ShowsUpTo(int, g, group, <<>> \o ps[1], n - 1)
      BY <1>1, <1>3, <2>1, <2>2, ShowsNext
    <2>4. <<>> \o ps[1] = ps[1]
      BY <1>4, <2>1, ConcatEmptySeq
    <2> QED
      BY <1>7, <2>3, <2>4
  <1>9. ASSUME NEW k \in 0 .. n - 1, k \in S, k < n - 1 PROVE k + 1 \in S
    <2>1. PICK i : i = (k + 1) + 1 /\ i \in 1 .. n /\ i # 1 /\ i - 1 = k + 1
                   /\ n - (k + 1) = n - i + 1
      BY <1>1, <1>9
    <2>2. f[i] = f[k + 1] \o ps[i]
      BY <1>7, <2>1
    <2>3. ShowsUpTo(int, g, group, f[k + 1], n - i + 1)
      BY <1>9, <2>1
    <2>4. ShowsUpTo(int, g, group, f[k + 1] \o ps[i], n - i)
      BY <1>1, <1>3, <2>1, <2>3, ShowsNext
    <2>5. ShowsUpTo(int, g, group, f[i], n - i)
      BY <2>2, <2>4
    <2>6. ShowsUpTo(int, g, group, f[(k + 1) + 1], n - ((k + 1) + 1))
      BY <2>1, <2>5
    <2>7. k + 1 \in Nat
      OBVIOUS
    <2> QED
      BY <2>6, <2>7
  <1>10. n - 1 \in Nat /\ n - 1 \in 0 .. n - 1 /\ (n - 1) + 1 = n /\ n - n = 0
    BY <1>1
  <1> HIDE DEF S
  <1>11. 0 .. n - 1 \subseteq S
    BY <1>8, <1>9, <1>10, HoldsUpTo
  <1>12. n - 1 \in S
    BY <1>10, <1>11
  <1> USE DEF S
  <1>13. ShowsUpTo(int, g, group, f[n], 0)
    BY <1>10, <1>12
  <1> QED
    BY <1>3, <1>7, <1>13, TextsFlatten

\* How many figures are among the first characters of the integer part.
Marked(marks, g, total) == \A i \in 1 .. total : i \in marks <=> Separates(g, total + 1 - i)
CountsFigures(marks, g, n, total) ==
    \A p \in 0 .. total : Cardinality((1 .. p) \ marks) = n - FiguresOf(g, total - p)

LEMMA CountedFigures ==
    ASSUME NEW g \in BOOLEAN, NEW n \in Nat \ {0}, NEW total, total = Characters(g, n),
           NEW marks, Marked(marks, g, total)
    PROVE  CountsFigures(marks, g, n, total)
  <1> DEFINE S == {p \in 0 .. total : /\ IsFiniteSet((1 .. p) \ marks)
                                      /\ Cardinality((1 .. p) \ marks) = n - FiguresOf(g, total - p)}
  <1>0. /\ total \in Nat
        /\ \A i \in 1 .. total : i \in marks <=> Separates(g, total + 1 - i)
    BY CharacterNumbers DEF Marked
  <1>1. 0 \in S
    <2>1. (1 .. 0) \ marks = {} /\ total - 0 = total /\ n - n = 0 /\ 0 \in 0 .. total
      BY <1>0
    <2>2. FiguresOf(g, total) = n
      <3>1. n - 1 \in Nat /\ (n - 1) + 1 = n
        OBVIOUS
      <3> QED
        BY <3>1, CharacterNumbers
    <2>3. IsFiniteSet({}) /\ Cardinality({}) = 0
      BY FS_EmptySet
    <2> QED
      BY <2>1, <2>2, <2>3
  <1>2. ASSUME NEW p \in 0 .. total, p \in S, p < total PROVE p + 1 \in S
    <2>1. PICK m : m = total - (p + 1) /\ m \in Nat /\ m + 1 = total - p
                   /\ total + 1 - (p + 1) = m + 1
      BY <1>0, <1>2
    <2>2. PICK A : A = (1 .. p) \ marks
      OBVIOUS
    <2>3. /\ IsFiniteSet(A) /\ Cardinality(A) = n - FiguresOf(g, m + 1)
          /\ p + 1 \in 0 .. total /\ p + 1 \in 1 .. total /\ p + 1 \notin A
          /\ p \in Nat
      BY <1>0, <1>2, <2>1, <2>2
    <2>4. /\ FiguresOf(g, m) \in Nat /\ FiguresOf(g, m + 1) \in Nat
          /\ Separates(g, m + 1) => FiguresOf(g, m + 1) = FiguresOf(g, m)
          /\ ~Separates(g, m + 1) => FiguresOf(g, m + 1) = FiguresOf(g, m) + 1
      BY <2>1, FigureNumbers
    <2>5. p + 1 \in marks <=> Separates(g, m + 1)
      BY <1>0, <2>1, <2>3
    <2>6. 1 .. p + 1 = (1 .. p) \cup {p + 1}
      BY <2>3
    <2>7. CASE p + 1 \in marks
      <3>1. (1 .. p + 1) \ marks = A
        BY <2>2, <2>6, <2>7
      <3> QED
        BY <2>1, <2>3, <2>4, <2>5, <2>7, <3>1
    <2>8. CASE p + 1 \notin marks
      <3>1. (1 .. p + 1) \ marks = A \cup {p + 1}
        BY <2>2, <2>6, <2>8
      <3>2. IsFiniteSet(A \cup {p + 1}) /\ Cardinality(A \cup {p + 1}) = Cardinality(A) + 1
        BY <2>3, FS_AddElement
      <3>3. Cardinality(A) + 1 = n - FiguresOf(g, m)
        BY <2>3, <2>4, <2>5, <2>8
      <3> QED
        BY <2>1, <2>3, <3>1, <3>2, <3>3
    <2> QED
      BY <2>7, <2>8
  <1> HIDE DEF S
  <1>3. 0 .. total \subseteq S
    BY <1>0, <1>1, <1>2, HoldsUpTo
  <1> USE DEF S
  <1> QED
    BY <1>3 DEF CountsFigures

\* Which figure stands at a place that separates nothing.
LEMMA FigureAt ==
    ASSUME NEW g \in BOOLEAN, NEW n \in Nat \ {0}, NEW total \in Nat, total = Characters(g, n),
           NEW p \in 1 .. total
    PROVE  n - FiguresOf(g, total - p) \in 1 .. n
  <1>1. n - 1 \in Nat /\ (n - 1) + 1 = n
    OBVIOUS
  <1>2. FiguresOf(g, total - 1) = n - 1
    BY <1>1, CharacterNumbers
  <1>3. total - p \in Nat /\ total - 1 \in Nat /\ total - p <= total - 1
    OBVIOUS
  <1>4. FiguresOf(g, total - p) <= n - 1
    BY <1>2, <1>3, FiguresGrow
  <1>5. FiguresOf(g, total - p) \in Nat
    BY <1>3, FigureNumbers
  <1> QED
    BY <1>1, <1>4, <1>5

\* What is shown of a number whose figures are no separators, place by place.
Shows(x, g, group, decimal, characters, total, shown) ==
    /\ shown \in Seq(characters)
    /\ Len(shown) = total + (IF x.frac = <<>> THEN 0 ELSE 1 + Len(x.frac))
    /\ \A p \in 1 .. total : shown[p] = CharacterAt(x.int, g, group, p)
    /\ x.frac # <<>> =>
          /\ shown[total + 1] = decimal
          /\ \A j \in 1 .. Len(x.frac) : shown[total + 1 + j] = x.frac[j]

LEMMA ShownIs ==
    ASSUME NEW D, NEW x, x.int \in Seq(D), Len(x.int) # 0, x.frac \in Seq(D), NEW l,
           NEW g \in BOOLEAN, NEW group, NEW decimal,
           Texts!numberFormatFor(l).group = group, Texts!numberFormatFor(l).decimal = decimal,
           NEW whole, whole = Characters(g, Len(x.int)), NEW text, text = Texts!formatNumber(x, l, g)
    PROVE  whole \in Nat /\ Shows(x, g, group, decimal, D \cup {group, decimal}, whole, text)
  <1>1. PICK int, frac : int = x.int /\ frac = x.frac
    OBVIOUS
  <1>2. PICK n : n = Len(int) /\ n \in Nat \ {0} /\ DOMAIN int = 1 .. n
    BY <1>1, LenProperties
  <1>3. PICK total : total = Characters(g, n) /\ total \in Nat
    BY <1>2, CharacterNumbers
  <1>4. PICK fig : fig = Texts!FlattenSeq(Pieces(int, g, group))
    OBVIOUS
  <1>5. PICK E : E = D \cup {group, decimal}
    OBVIOUS
  <1>6. fig \in Seq(E) /\ Len(fig) = total
        /\ \A p \in 1 .. total : fig[p] = CharacterAt(int, g, group, p)
    <2>1. ShowsUpTo(int, g, group, fig, 0)
      BY <1>1, <1>2, <1>4, ShownFigures
    <2>2. {int[i] : i \in DOMAIN int} \cup {group} \subseteq E
      <3>1. \A i \in 1 .. n : int[i] \in D
        BY <1>1, <1>2, ElementOfSeq
      <3> QED
        BY <1>2, <1>5, <3>1
    <2>3. fig \in Seq({int[i] : i \in DOMAIN int} \cup {group})
      BY <2>1 DEF ShowsUpTo
    <2>4. fig \in Seq(E)
      BY <2>2, <2>3, SeqMonotonic
    <2>5. Characters(g, 0) = 0 /\ total - 0 = total
      BY <1>3, CharacterNumbers
    <2>6. Len(fig) = total
      BY <1>2, <1>3, <2>1, <2>5 DEF ShowsUpTo
    <2> QED
      BY <2>1, <2>4, <2>6 DEF ShowsUpTo
  <1>7. PICK tail : tail = IF frac = <<>> THEN <<>> ELSE <<decimal>> \o frac
    OBVIOUS
  <1>8. PICK shown : shown = fig \o tail
    OBVIOUS
  <1>9. Texts!formatNumber(x, l, g) = shown
    <2>1. Pieces(int, g, group) =
             [i \in DOMAIN int |->
                 IF g /\ Len(int) - i > 0 /\ (Len(int) - i) % 3 = 0
                 THEN <<int[i], group>> ELSE <<int[i]>>]
      BY DEF Pieces, SeparatorAfter
    <2> QED
      BY <1>1, <1>4, <1>7, <1>8, <2>1, Zenon DEF Texts!formatNumber
  <1>10. whole = total /\ text = shown
    BY <1>1, <1>2, <1>3, <1>9
  <1>11. Len(frac) \in Nat /\ (frac = <<>> <=> Len(frac) = 0)
    BY <1>1, EmptySeq, LenProperties
  <1>12. CASE frac = <<>>
    <2>1. tail = <<>> /\ shown = fig
      BY <1>6, <1>7, <1>8, <1>12, ConcatEmptySeq
    <2> QED
      BY <1>1, <1>2, <1>3, <1>5, <1>6, <1>10, <1>12, <2>1 DEF Shows
  <1>13. CASE frac # <<>>
    <2>1. <<decimal>> \in Seq(E) /\ Len(<<decimal>>) = 1 /\ <<decimal>>[1] = decimal
      BY <1>5
    <2>2. frac \in Seq(E)
      BY <1>1, <1>5, SeqMonotonic
    <2>3. tail = <<decimal>> \o frac
      BY <1>7, <1>13
    <2>4. /\ tail \in Seq(E) /\ Len(tail) = 1 + Len(frac)
          /\ \A j \in 1 .. 1 + Len(frac) :
                tail[j] = IF j <= 1 THEN <<decimal>>[j] ELSE frac[j - 1]
      BY <2>1, <2>2, <2>3, ConcatProperties
    <2>5. /\ shown \in Seq(E) /\ Len(shown) = total + Len(tail)
          /\ \A p \in 1 .. total + Len(tail) :
                shown[p] = IF p <= total THEN fig[p] ELSE tail[p - total]
      <3>1. /\ shown \in Seq(E) /\ Len(shown) = Len(fig) + Len(tail)
            /\ \A p \in 1 .. Len(fig) + Len(tail) :
                  shown[p] = IF p <= Len(fig) THEN fig[p] ELSE tail[p - Len(fig)]
        BY <1>6, <1>8, <2>4, ConcatProperties
      <3> QED
        BY <1>6, <3>1
    <2>6. PICK f : f = Len(frac) /\ f \in Nat /\ Len(tail) = 1 + f
      BY <1>11, <2>4
    <2>7. \A p \in 1 .. total : shown[p] = fig[p]
      BY <1>3, <2>5, <2>6
    <2>8. shown[total + 1] = decimal
      <3>1. total + 1 \in 1 .. total + (1 + f) /\ ~(total + 1 <= total) /\ (total + 1) - total = 1
            /\ 1 \in 1 .. 1 + f /\ 1 <= 1
        BY <1>3, <2>6
      <3>2. shown[total + 1] = tail[1]
        BY <2>5, <2>6, <3>1
      <3>3. tail[1] = decimal
        BY <2>1, <2>4, <2>6, <3>1
      <3> QED
        BY <3>2, <3>3
    <2>9. ASSUME NEW j \in 1 .. f PROVE shown[total + 1 + j] = frac[j]
      <3>1. /\ total + 1 + j \in 1 .. total + (1 + f) /\ ~(total + 1 + j <= total)
            /\ (total + 1 + j) - total = j + 1
            /\ j + 1 \in 1 .. 1 + f /\ ~(j + 1 <= 1) /\ (j + 1) - 1 = j
        BY <1>3, <2>6
      <3>2. shown[total + 1 + j] = tail[j + 1]
        BY <2>5, <2>6, <3>1
      <3>3. tail[j + 1] = frac[j]
        BY <2>4, <2>6, <3>1
      <3> QED
        BY <3>2, <3>3
    <2> QED
      <3>1. whole = total /\ text = shown
        BY <1>10
      <3>2. Len(shown) = total + (IF x.frac = <<>> THEN 0 ELSE 1 + Len(x.frac))
        BY <1>1, <1>13, <2>5, <2>6
      <3>3. \A p \in 1 .. total : shown[p] = CharacterAt(x.int, g, group, p)
        BY <1>1, <1>6, <2>7
      <3>4. \A j \in 1 .. Len(x.frac) : shown[total + 1 + j] = x.frac[j]
        BY <1>1, <2>6, <2>9
      <3>5. total \in Nat /\ shown \in Seq(D \cup {group, decimal})
        BY <1>3, <1>5, <2>5
      <3> QED
        BY <2>8, <3>1, <3>2, <3>3, <3>4, <3>5 DEF Shows
  <1> QED
    BY <1>12, <1>13

\* NumbersReadBack of one number.
ReadBack(x, g, shown, group, decimal) ==
    LET sign == {i \in DOMAIN shown : shown[i] = decimal}
        end == IF sign = {} THEN Len(shown) + 1 ELSE CHOOSE i \in sign : TRUE
        marks == {i \in DOMAIN shown : shown[i] = group}
        digits(final) == (1 .. final) \ marks
    IN  /\ Texts!Cardinality(digits(end - 1)) = Len(x.int)
        /\ \A i \in digits(end - 1) : shown[i] = x.int[Texts!Cardinality(digits(i))]
        /\ SubSeq(shown, end + 1, Len(shown)) = x.frac
        /\ marks = {i \in 2 .. end - 1 : g /\ (end - i) % 4 = 0}

LEMMA TextsCount == \A S : Texts!Cardinality(S) = Cardinality(S)
  BY DEF Texts!Cardinality, Cardinality

LEMMA ReadsBack ==
    ASSUME NEW D, NEW x, x.int \in Seq(D), Len(x.int) # 0, x.frac \in Seq(D), NEW l,
           NEW g \in BOOLEAN, NEW group, NEW decimal,
           Texts!numberFormatFor(l).group = group, Texts!numberFormatFor(l).decimal = decimal,
           group \notin D, decimal \notin D, group # decimal,
           NEW shown, shown = Texts!formatNumber(x, l, g)
    PROVE  ReadBack(x, g, shown, group, decimal)
  <1>1. PICK total :
              /\ total = Characters(g, Len(x.int))
              /\ total \in Nat /\ shown \in Seq(D \cup {group, decimal})
              /\ Len(shown) = total + (IF x.frac = <<>> THEN 0 ELSE 1 + Len(x.frac))
              /\ \A p \in 1 .. total : shown[p] = CharacterAt(x.int, g, group, p)
              /\ x.frac # <<>> =>
                    /\ shown[total + 1] = decimal
                    /\ \A j \in 1 .. Len(x.frac) : shown[total + 1 + j] = x.frac[j]
    <2>1. PICK total : total = Characters(g, Len(x.int))
      OBVIOUS
    <2>2. total \in Nat /\ Shows(x, g, group, decimal, D \cup {group, decimal}, total, shown)
      BY <2>1, ShownIs
    <2> QED
      BY <2>1, <2>2 DEF Shows
  <1>2. PICK int, frac : int = x.int /\ frac = x.frac
    OBVIOUS
  <1>3. PICK n, f : /\ n = Len(int) /\ n \in Nat \ {0} /\ DOMAIN int = 1 .. n
                    /\ f = Len(frac) /\ f \in Nat /\ (frac = <<>> <=> f = 0)
    BY <1>2, EmptySeq, LenProperties
  <1>4. PICK size : /\ size = Len(shown) /\ size \in Nat /\ DOMAIN shown = 1 .. size
                    /\ size = (IF f = 0 THEN total ELSE total + 1 + f) /\ total \in Nat
    <2>1. Len(shown) \in Nat /\ DOMAIN shown = 1 .. Len(shown)
      BY <1>1, LenProperties
    <2>2. Len(shown) = total + (IF f = 0 THEN 0 ELSE 1 + f) /\ total \in Nat
      BY <1>1, <1>2, <1>3
    <2>3. Len(shown) = IF f = 0 THEN total ELSE total + 1 + f
      BY <1>3, <2>2
    <2> QED
      BY <2>1, <2>2, <2>3
  <1>5. /\ total = Characters(g, n) /\ total \in Nat
        /\ f # 0 => shown[total + 1] = decimal
        /\ \A j \in 1 .. f : f # 0 => shown[total + 1 + j] = frac[j]
    BY <1>1, <1>2, <1>3
  <1>6. \A p \in 1 .. total :
           shown[p] = IF Separates(g, total + 1 - p) THEN group ELSE int[n - FiguresOf(g, total - p)]
    BY <1>1, <1>2, <1>3, <1>5 DEF CharacterAt
  <1>7. \A j \in 1 .. f : frac[j] \in D
    BY <1>2, <1>3, ElementOfSeq
  <1>8. \A p \in 1 .. total : ~Separates(g, total + 1 - p) => shown[p] \in D
    <2> SUFFICES ASSUME NEW p \in 1 .. total, ~Separates(g, total + 1 - p) PROVE shown[p] \in D
      OBVIOUS
    <2>1. n - FiguresOf(g, total - p) \in 1 .. n
      BY <1>3, <1>5, FigureAt
    <2>2. int[n - FiguresOf(g, total - p)] \in D
      BY <1>2, <1>3, <2>1, ElementOfSeq
    <2> QED
      BY <1>6, <2>2
  <1> DEFINE sign == {i \in DOMAIN shown : shown[i] = decimal}
             marks == {i \in DOMAIN shown : shown[i] = group}
  <1>9. \A i \in 1 .. size :
           /\ i \in 1 .. total \/ i = total + 1 \/ i > total + 1
           /\ i = total + 1 => f # 0
           /\ i > total + 1 => /\ f # 0 /\ i - (total + 1) \in 1 .. f
                              /\ i = total + 1 + (i - (total + 1))
    <2> SUFFICES ASSUME NEW i \in 1 .. size
                 PROVE  /\ i \in 1 .. total \/ i = total + 1 \/ i > total + 1
                        /\ i = total + 1 => f # 0
                        /\ i > total + 1 => /\ f # 0 /\ i - (total + 1) \in 1 .. f
                                           /\ i = total + 1 + (i - (total + 1))
      OBVIOUS
    <2>1. i \in Nat /\ i >= 1 /\ i <= size /\ f \in Nat /\ total \in Nat
      BY <1>3, <1>4
    <2>2. CASE f = 0
      <3>1. size = total
        BY <1>4, <2>2
      <3> QED
        BY <2>1, <3>1
    <2>3. CASE f # 0
      <3>1. size = total + 1 + f
        BY <1>4, <2>3
      <3> QED
        BY <2>1, <2>3, <3>1
    <2> QED
      BY <2>2, <2>3
  <1>10. \A i \in 1 .. size : i > total + 1 => shown[i] \in D
    <2> SUFFICES ASSUME NEW i \in 1 .. size, i > total + 1 PROVE shown[i] \in D
      OBVIOUS
    <2>1. PICK j : j = i - (total + 1) /\ j \in 1 .. f /\ i = total + 1 + j /\ f # 0
      BY <1>3, <1>9
    <2> QED
      BY <1>5, <1>7, <2>1
  <1>11. 1 .. total \subseteq 1 .. size /\ (f # 0 => total + 1 \in 1 .. size)
    BY <1>3, <1>4
  <1>12. marks = {i \in 1 .. total : Separates(g, total + 1 - i)}
    <2>1. ASSUME NEW i \in marks PROVE i \in 1 .. total /\ Separates(g, total + 1 - i)
      <3>1. i \in 1 .. size /\ shown[i] = group
        BY <1>4
      <3>2. i \in 1 .. total
        BY <1>5, <1>9, <1>10, <3>1
      <3> QED
        BY <1>8, <3>1, <3>2
    <2>2. ASSUME NEW i \in 1 .. total, Separates(g, total + 1 - i) PROVE i \in marks
      BY <1>4, <1>6, <1>11, <2>2
    <2> QED
      BY <2>1, <2>2
  <1>13. sign = IF f = 0 THEN {} ELSE {total + 1}
    <2>1. ASSUME NEW i \in sign PROVE f # 0 /\ i = total + 1
      <3>1. i \in 1 .. size /\ shown[i] = decimal
        BY <1>4
      <3>2. i \notin 1 .. total
        BY <1>6, <1>8, <3>1
      <3>3. ~(i > total + 1)
        BY <1>10, <3>1
      <3> QED
        BY <1>4, <3>1, <3>2, <3>3
    <2>2. f # 0 => total + 1 \in sign
      BY <1>4, <1>5, <1>11
    <2> QED
      BY <2>1, <2>2
  <1> HIDE DEF sign, marks
  <1> DEFINE end == IF sign = {} THEN Len(shown) + 1 ELSE CHOOSE i \in sign : TRUE
  <1>14. end = total + 1
    <2>1. CASE f = 0
      BY <1>4, <1>13, <2>1
    <2>2. CASE f # 0
      <3>1. sign = {total + 1} /\ sign # {}
        BY <1>13, <2>2
      <3> QED
        BY <3>1
    <2> QED
      BY <2>1, <2>2
  <1>15. end - 1 = total
    <2>1. end = total + 1
      BY <1>14
    <2> HIDE DEF end
    <2> QED
      BY <1>4, <2>1
  <1> HIDE DEF end
  <1>16. \A p \in 0 .. total : Cardinality((1 .. p) \ marks) = n - FiguresOf(g, total - p)
    <2>1. PICK m : m = marks
      OBVIOUS
    <2>2. Marked(m, g, total)
      BY <1>12, <2>1 DEF Marked
    <2>3. n \in Nat \ {0} /\ total \in Nat /\ total = Characters(g, n)
      BY <1>3, <1>5
    <2>4. CountsFigures(m, g, n, total)
      BY <2>2, <2>3, CountedFigures
    <2> QED
      BY <2>1, <2>4 DEF CountsFigures
  <1>17. Cardinality((1 .. end - 1) \ marks) = n
    <2>1. total - total = 0 /\ n - 0 = n /\ total \in 0 .. total
      BY <1>3, <1>5
    <2>2. FiguresOf(g, 0) = 0
      BY FigureNumbers
    <2> QED
      BY <1>15, <1>16, <2>1, <2>2
  <1>18. \A i \in (1 .. end - 1) \ marks : shown[i] = int[Cardinality((1 .. i) \ marks)]
    <2> SUFFICES ASSUME NEW i \in (1 .. total) \ marks
                 PROVE  shown[i] = int[Cardinality((1 .. i) \ marks)]
      BY <1>15
    <2>1. i \in 1 .. total /\ i \in 0 .. total /\ ~Separates(g, total + 1 - i)
      BY <1>12
    <2> QED
      BY <1>6, <1>16, <2>1
  <1>19. SubSeq(shown, end + 1, Len(shown)) = frac
    <2>1. CASE f = 0
      <3>1. end + 1 > Len(shown) /\ end + 1 \in Int /\ Len(shown) \in Int
        BY <1>4, <1>14, <2>1
      <3>2. SubSeq(shown, end + 1, Len(shown)) = <<>>
        BY <3>1, SubSeqEmpty
      <3> QED
        BY <1>3, <2>1, <3>2
    <2>2. CASE f # 0
      <3>1. PICK t : t = SubSeq(shown, end + 1, Len(shown))
        OBVIOUS
      <3>2. /\ end + 1 = total + 2 /\ Len(shown) = size /\ size = total + 1 + f
            /\ total + 2 <= size + 1 /\ size - (total + 2) + 1 = f
        <4>1. /\ Len(shown) = size /\ size = total + 1 + f /\ total \in Nat
              /\ f \in Nat \ {0} /\ end = total + 1
          BY <1>3, <1>4, <1>14, <2>2
        <4>2. end + 1 = total + 2
          BY <4>1
        <4>3. total + 2 <= size + 1 /\ size - (total + 2) + 1 = f
          BY <4>1
        <4> QED
          BY <4>1, <4>2, <4>3
      <3>3. \A i \in total + 2 .. size : shown[i] \in D
        BY <1>3, <1>4, <1>10
      <3>4. /\ t \in Seq(D) /\ Len(t) = f
            /\ \A j \in 1 .. f : t[j] = shown[total + 2 + j - 1]
        <4>1. PICK m : m = total + 2
          OBVIOUS
        <4>2. t = SubSeq(shown, m, size)
          BY <3>1, <3>2, <4>1
        <4>3. m \in Int /\ size \in Int /\ m <= size /\ size - m + 1 = f
          BY <1>3, <1>4, <2>2, <3>2, <4>1
        <4>4. \A i \in m .. size : shown[i] \in D
          BY <3>3, <4>1
        <4>5. /\ t \in Seq(D) /\ Len(t) = IF m <= size THEN size - m + 1 ELSE 0
              /\ \A j \in 1 .. size - m + 1 : t[j] = shown[m + j - 1]
          BY <4>2, <4>3, <4>4, SubSeqProperties
        <4> QED
          BY <4>1, <4>3, <4>5
      <3>5. ASSUME NEW j \in 1 .. f PROVE t[j] = frac[j]
        <4>1. total + 2 + j - 1 = total + 1 + j
          BY <1>3, <1>5
        <4> QED
          BY <1>5, <2>2, <3>4, <4>1
      <3>6. frac \in Seq(D) /\ Len(frac) = f
        BY <1>2, <1>3
      <3> QED
        BY <3>1, <3>4, <3>5, <3>6, SeqEqual
    <2> QED
      BY <2>1, <2>2
  <1>20. marks = {i \in 2 .. end - 1 : g /\ (end - i) % 4 = 0}
    <2>1. ~Separates(g, total)
      <3>1. n - 1 \in Nat /\ (n - 1) + 1 = n
        BY <1>3
      <3> QED
        BY <1>5, <3>1, CharacterNumbers
    <2>2. \A i \in 1 .. total : i # 1 => i \in 2 .. total
      BY <1>5
    <2>3. (total + 1) - 1 = total
      BY <1>5
    <2>4. 2 .. total \subseteq 1 .. total /\ 1 \notin 2 .. total
      BY <1>5
    <2>5. \A i : i \in marks <=> i \in 1 .. total /\ Separates(g, total + 1 - i)
      BY <1>12
    <2>6. 1 \notin marks
      <3>1. PICK k : k = 1
        OBVIOUS
      <3>2. total + 1 - k = total
        BY <1>5, <3>1
      <3>3. k \in marks => Separates(g, total + 1 - k)
        BY <2>5
      <3>4. k \notin marks
        BY <2>1, <3>2, <3>3
      <3> QED
        BY <3>1, <3>4
    <2>7. \A i : i \in marks <=> i \in 2 .. total /\ Separates(g, total + 1 - i)
      BY <2>2, <2>4, <2>5, <2>6
    <2>8. marks = {i \in 2 .. total : Separates(g, total + 1 - i)}
      BY <2>7
    <2> QED
      BY <1>14, <1>15, <2>8 DEF Separates
  <1>21. /\ Texts!Cardinality((1 .. end - 1) \ marks) = Len(x.int)
         /\ \A i \in (1 .. end - 1) \ marks :
               shown[i] = x.int[Texts!Cardinality((1 .. i) \ marks)]
         /\ SubSeq(shown, end + 1, Len(shown)) = x.frac
    BY <1>2, <1>3, <1>17, <1>18, <1>19, TextsCount, Zenon
  <1> QED
    BY <1>20, <1>21, Zenon DEF ReadBack, sign, marks, end

Figure == {"1", "2", "3", "4", "5", "6", "7"}

LEMMA FormatFacts ==
    ASSUME NEW l
    PROVE  /\ Texts!numberFormatFor(l).group \notin Figure
           /\ Texts!numberFormatFor(l).decimal \notin Figure
           /\ Texts!numberFormatFor(l).group # Texts!numberFormatFor(l).decimal
  <1>1. Texts!numberFormatFor(l) \in {[group |-> ".", decimal |-> ","],
                                      [group |-> " ", decimal |-> ","],
                                      [group |-> ",", decimal |-> "."]}
    BY Zenon DEF Texts!numberFormatFor
  <1>2. "." \notin Figure /\ "," \notin Figure /\ " " \notin Figure
    BY DEF Figure
  <1>3. "." # "," /\ " " # ","
    OBVIOUS
  <1>4. ASSUME NEW group, NEW decimal, group \notin Figure, decimal \notin Figure,
               group # decimal,
               Texts!numberFormatFor(l) = [group |-> group, decimal |-> decimal]
        PROVE  /\ Texts!numberFormatFor(l).group \notin Figure
               /\ Texts!numberFormatFor(l).decimal \notin Figure
               /\ Texts!numberFormatFor(l).group # Texts!numberFormatFor(l).decimal
    BY <1>4
  <1>5. CASE Texts!numberFormatFor(l) = [group |-> ".", decimal |-> ","]
    BY <1>2, <1>3, <1>4, <1>5, Zenon
  <1>6. CASE Texts!numberFormatFor(l) = [group |-> " ", decimal |-> ","]
    BY <1>2, <1>3, <1>4, <1>6, Zenon
  <1>7. CASE Texts!numberFormatFor(l) = [group |-> ",", decimal |-> "."]
    BY <1>2, <1>3, <1>4, <1>7, Zenon
  <1> QED
    BY <1>1, <1>5, <1>6, <1>7, Zenon

LEMMA NumbersAreRead == Texts!NumbersReadBack
  <1> DEFINE fmt == Texts!numberFormatFor(currentLocale)
             Numbers == [int : {SubSeq(Figures, 1, n) : n \in 1 .. Len(Figures)},
                         frac : {<<>>, <<"5">>}]
  <1>1. ASSUME NEW x \in Numbers, NEW g \in BOOLEAN
        PROVE  ReadBack(x, g, Texts!_i18n_format_number(x, g), fmt.group, fmt.decimal)
    <2>1. Len(Figures) = 7 /\ \A i \in 1 .. 7 : Figures[i] \in Figure
      BY DEF Figures, Figure
    <2>2. PICK n \in 1 .. 7 : x.int = SubSeq(Figures, 1, n)
      BY <2>1
    <2>3. x.int \in Seq(Figure) /\ Len(x.int) # 0
      <3>1. \A i \in 1 .. n : Figures[i] \in Figure
        BY <2>1
      <3>2. /\ SubSeq(Figures, 1, n) \in Seq(Figure)
            /\ Len(SubSeq(Figures, 1, n)) = IF 1 <= n THEN n - 1 + 1 ELSE 0
        BY <3>1, SubSeqProperties
      <3> QED
        BY <2>2, <3>2
    <2>4. x.frac \in Seq(Figure)
      <3>1. <<>> \in Seq(Figure) /\ <<"5">> \in Seq(Figure)
        BY DEF Figure
      <3> QED
        BY <3>1
    <2>5. PICK shown : shown = Texts!formatNumber(x, currentLocale, g)
      OBVIOUS
    <2>6. PICK group, decimal : group = fmt.group /\ decimal = fmt.decimal
      OBVIOUS
    <2>7. group \notin Figure /\ decimal \notin Figure /\ group # decimal
      BY <2>6, FormatFacts
    <2>8. ReadBack(x, g, shown, group, decimal)
      BY <2>3, <2>4, <2>5, <2>6, <2>7, ReadsBack
    <2> QED
      BY <2>5, <2>6, <2>8, Zenon DEF Texts!_i18n_format_number
  <1> QED
    BY <1>1, Zenon DEF Texts!NumbersReadBack, ReadBack

\* THEOREM: texts and numbers are those of the locale a request asks in: every count
\* has a text as soon as the language or the default locale has one, a text comes from
\* a less specific file only when no more specific one has it, and what is shown of a
\* number reads back as that number (bridge/i18n.ts, locale.ts).
THEOREM TextsStayExact == MCSpec => []TextsExact
  <1>1. Texts!TypeOK => TextsExact
    <2>1. Texts!TypeOK => currentLocale # <<>>
      <3>1. <<"en">> # <<>> /\ <<"fr">> # <<>> /\ <<"fr", "CA">> # <<>> /\ <<"ru">> # <<>>
        OBVIOUS
      <3> QED
        BY <3>1 DEF Texts!TypeOK
    <2> QED
      BY <2>1, TextMostSpecific, CountsHaveTexts, NumbersAreRead
         DEF TextsExact, Texts!TextsExact
  <1>2. MCInit => Texts!TypeOK
    BY TextsTyped
  <1>3. Texts!TypeOK /\ [MCNext]_allVars => Texts!TypeOK'
    BY TextsTyped
  <1> QED
    BY <1>1, <1>2, <1>3, PTL DEF MCSpec

-----------------------------------------------------------------------------
LEMMA AccessTyped == SessionInv /\ TokenInv => Access!TypeOK
  <1> SUFFICES ASSUME SessionInv, TokenInv PROVE Access!TypeOK
    OBVIOUS
  <1>1. /\ lastSession \in 0 .. MaxSessions /\ jar \in [Clients -> 0 .. MaxSessions]
        /\ now \in 0 .. Lifetime + 1 /\ DOMAIN sessions \subseteq 1 .. lastSession
    BY DEF SessionInv, SessionTypes, TokenInv, TokenTypes
  <1>2. DOMAIN sessions \subseteq Access!Sids
    BY <1>1, AccessFacts DEF Access!Sids
  <1>3. \A t \in Threads : /\ served[t].sid \in 0 .. MaxSessions
                           /\ cookies[t] \in Seq(0 .. MaxSessions)
                           /\ resetTokens[t] \subseteq Access!Toks
    BY DEF SessionInv, SessionTypes, TokenInv, TokenTypes
  <1> QED
    BY <1>1, <1>2, <1>3 DEF Access!TypeOK

\* A thread holds an address once, and its scopes at most once more.
LEMMA WorkerTyped == WorkerInv => Worker!TypeOK
  <1> SUFFICES ASSUME WorkerInv PROVE Worker!TypeOK
    OBVIOUS
  <1>1. /\ refs \in [Worker!Addresses -> Nat] /\ held \in [Worker!Addresses -> 0 .. 1]
        /\ \A a \in Worker!Addresses : refs[a] = held[a] + (IF InScope(a) THEN 1 ELSE 0)
    BY DEF WorkerInv, WorkerTypes, Counted
  <1>2. ASSUME NEW a \in Worker!Addresses PROVE refs[a] \in 0 .. 2
    BY <1>1
  <1>3. refs \in [Worker!Addresses -> 0 .. 2]
    BY <1>1, <1>2
  <1> QED
    BY <1>3 DEF WorkerInv, WorkerTypes, Worker!TypeOK

LEMMA BridgeTyped == BridgeInv /\ CursorInv /\ PagesInv => Bridge!TypeOK
  <1> SUFFICES ASSUME BridgeInv, CursorInv, PagesInv PROVE Bridge!TypeOK
    OBVIOUS
  <1>1. /\ reports \in BOOLEAN /\ running \in BOOLEAN /\ bridgeRequest \in 0 .. MaxHandlers
        /\ calls \in 0 .. MaxCalls /\ rowid \in 0 .. MaxInserts
        /\ lastInsertId \in 0 .. MaxInserts /\ inserted \in 0 .. MaxInserts
    BY DEF BridgeInv, BridgeTypes, Ids
  <1>2. /\ table \subseteq Bridge!KeySet /\ cursor.stable \subseteq Bridge!KeySet
        /\ cursor.seen \in Seq(Bridge!KeySet)
    BY DEF CursorInv, Cursors
  <1>3. pages.seen \in Seq(Bridge!KeySet)
    BY DEF PagesInv, PageWalks
  <1> QED
    BY <1>1, <1>2, <1>3 DEF Bridge!TypeOK

\* THEOREM: the variables of each part have their types: no queue, heap, table or
\* counter leaves its bounds (workers/request-pool.ts, workers/request-worker.ts,
\* wasm/pool.ts, router/index.ts, bridge/auth.ts, bridge/database.ts, locale.ts).
THEOREM PoolTyped == MCSpec => []TypesOK
  <1>1. MCSpec => [](RouterInv /\ RouterTypes)
    <2>1. MCInit => RouterTypes
      BY RouterTyped
    <2>2. RouterInv /\ RouterTypes /\ [MCNext]_allVars => RouterTypes'
      BY RouterTyped
    <2> QED
      BY <2>1, <2>2, RouterInvAlways, PTL DEF MCSpec
  <1>2. MCSpec => []Texts!TypeOK
    <2>1. MCInit => Texts!TypeOK
      BY TextsTyped
    <2>2. Texts!TypeOK /\ [MCNext]_allVars => Texts!TypeOK'
      BY TextsTyped
    <2> QED
      BY <2>1, <2>2, PTL DEF MCSpec
  <1>3. MCSpec => []InstanceInv
    <2>1. MCInit => InstanceInv
      BY InstanceInvInit DEF MCInit
    <2>2. InstanceInv /\ [MCNext]_allVars => InstanceInv'
      <3>1. [MCNext]_allVars => [Instance!Next]_(Instance!vars)
        BY DEF MCNext, allVars, instanceVars, ServerIdle, Instance!vars, Instance!poolState
      <3> QED
        BY <3>1, InstanceInvStep
    <2> QED
      BY <2>1, <2>2, PTL DEF MCSpec
  <1>4. MCSpec => []TypeOK
    <2>1. [MCNext]_allVars => [Next]_vars
      BY DEF MCNext, allVars, ServerIdle
    <2>2. MCSpec => Spec
      BY <2>1, PTL DEF MCSpec, MCInit, Spec
    <2> QED
      BY <2>2, PoolTypeCorrect, PTL
  <1>5. /\ TypeOK /\ InstanceInv /\ SessionInv /\ TokenInv /\ RouterInv /\ RouterTypes
        /\ WorkerInv /\ BridgeInv /\ CursorInv /\ PagesInv /\ Texts!TypeOK
        => TypesOK
    <2> SUFFICES ASSUME TypeOK, InstanceInv, SessionInv, TokenInv, RouterInv, RouterTypes,
                        WorkerInv, BridgeInv, CursorInv, PagesInv, Texts!TypeOK
                 PROVE  TypesOK
      OBVIOUS
    <2>1. Instance!TypeOK
      BY DEF InstanceInv, InstanceTypes
    <2>2. Access!TypeOK /\ Router!TypeOK /\ Worker!TypeOK /\ Bridge!TypeOK
      BY AccessTyped, RouterTyped, WorkerTyped, BridgeTyped
    <2> QED
      BY <2>1, <2>2 DEF TypesOK
  <1> QED
    BY <1>1, <1>2, <1>3, <1>4, <1>5, AccessInvAlways, WorkerInvAlways, BridgeInvAlways,
       WalksAlways, PTL

=============================================================================
