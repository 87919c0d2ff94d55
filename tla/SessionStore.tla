---------------------------- MODULE SessionStore ----------------------------
(***************************************************************************)
(* The session stores behind the session channel: InMemorySessionStore     *)
(* (session/store.ts), whose operations run to their end on the main       *)
(* thread, and RedisSessionStore (session/redis-store.ts), whose           *)
(* operations await the server between commands, so that those of several  *)
(* request workers interleave.  The callers are the session functions of   *)
(* bridge/session.ts in the workers; one worker waits for one operation.   *)
(*                                                                         *)
(* A session's user, role and creation time never change and are left out; *)
(* its expiry is abstracted to whether expiresAt has been reached.         *)
(***************************************************************************)
EXTENDS Integers, FiniteSets, Functions

CONSTANTS
    Sessions,  \* session ids, created in any order, each once (32 random bytes)
    Workers,   \* request workers
    Keys,      \* keys of claims the program uses
    Values,
    Backends,  \* of "memory" and "redis" (--session-redis)
    Unset,     \* no value
    MaxOps     \* bound: operations that change the store

Claims  == [Keys -> Values \cup {Unset}]
Empty   == [k \in Keys |-> Unset]
Absent  == [live |-> FALSE, claims |-> Empty]
Idle    == [kind |-> "idle"]

VARIABLES
    backend,   \* the store the server was started with
    store,     \* the sessions of the store
    created,   \* ids that were returned by create()
    expired,   \* sessions whose expiresAt has been reached
    op,        \* the operation each worker waits for, after its first command
    destroyed, \* sessions whose destroy() has returned true
    truth,     \* the claims if each successful call took effect at once
    ops

vars == <<backend, store, created, expired, op, destroyed, truth, ops>>

Live(s)  == store[s].live
Valid(s) == Live(s) /\ s \notin expired
Put(s, claims) == store' = [store EXCEPT ![s] = [live |-> TRUE, claims |-> claims]]
MarkGone(s)    == store' = [store EXCEPT ![s].live = FALSE]    \* seeded fault
Remove(s)      == store' = [store EXCEPT ![s] = Absent]

\* The worker may call: it waits for nothing and the bound allows a change.
MayChange(w) == op[w] = Idle /\ ops < MaxOps /\ ops' = ops + 1

-----------------------------------------------------------------------------
(* Operations that are one step in both stores                             *)

\* create(): a single SETEX in Redis
Create(w, s) ==
    /\ MayChange(w) /\ s \notin created
    /\ Put(s, Empty)
    /\ created' = created \cup {s}
    /\ UNCHANGED <<backend, expired, op, destroyed, truth>>

\* destroy(): a single DEL in Redis.  The id comes from the session cookie.
Destroy(w, s) ==
    /\ MayChange(w) /\ Live(s)
    /\ Remove(s)
    /\ destroyed' = destroyed \cup {s}
    /\ UNCHANGED <<backend, created, expired, op, truth>>

\* Date.now() passes expiresAt
Expire(s) ==
    /\ s \in created \ expired
    /\ expired' = expired \cup {s}
    /\ UNCHANGED <<backend, store, created, op, destroyed, truth, ops>>

-----------------------------------------------------------------------------
(* InMemorySessionStore                                                    *)

\* get() of an expired session, from any operation that starts with it
MemoryGetExpired(w, s) ==
    /\ backend = "memory" /\ op[w] = Idle
    /\ Live(s) /\ s \in expired
    /\ Remove(s)
    /\ UNCHANGED <<backend, created, expired, op, destroyed, truth, ops>>

ReplaceAll(claims, k, v) == [Empty EXCEPT ![k] = v]         \* seeded fault
Changed(claims, k, v) == [claims EXCEPT ![k] = v]

\* storeValue() of a value, deleteValue() when v is Unset and the key is set
MemoryChange(w, s, k, v) ==
    /\ backend = "memory" /\ MayChange(w) /\ Valid(s)
    /\ v = Unset => store[s].claims[k] # Unset
    /\ Put(s, Changed(store[s].claims, k, v))
    /\ truth' = [truth EXCEPT ![s][k] = v]
    /\ UNCHANGED <<backend, created, expired, op, destroyed>>

\* cleanup(), every cleanupIntervalMs
Swept == {s \in Sessions : Live(s) /\ s \in expired}

Cleanup ==
    /\ backend = "memory" /\ Swept # {}
    /\ store' = [s \in Sessions |-> IF s \in Swept THEN Absent ELSE store[s]]
    /\ UNCHANGED <<backend, created, expired, op, destroyed, truth, ops>>

-----------------------------------------------------------------------------
(* RedisSessionStore                                                       *)

\* get(): GET, and a DEL when the session turns out to be expired
RedisGetExpired(w, s) ==
    /\ backend = "redis" /\ op[w] = Idle /\ Live(s) /\ s \in expired
    /\ op' = [op EXCEPT ![w] = [kind |-> "del", session |-> s]]
    /\ UNCHANGED <<backend, store, created, expired, destroyed, truth, ops>>

RedisDel(w) ==
    /\ op[w].kind = "del"
    /\ Remove(op[w].session)
    /\ op' = [op EXCEPT ![w] = Idle]
    /\ UNCHANGED <<backend, created, expired, destroyed, truth, ops>>

\* storeValue() and deleteValue(): GET, then SETEX of the whole session
RedisRead(w, s, k, v) ==
    /\ backend = "redis" /\ MayChange(w) /\ Valid(s)
    /\ v = Unset => store[s].claims[k] # Unset
    /\ op' = [op EXCEPT ![w] = [kind |-> "setex", session |-> s, key |-> k, value |-> v,
                                claims |-> Changed(store[s].claims, k, v)]]
    /\ UNCHANGED <<backend, store, created, expired, destroyed, truth>>

RedisSetex(w) ==
    /\ op[w].kind = "setex"
    /\ Put(op[w].session, op[w].claims)
    /\ truth' = [truth EXCEPT ![op[w].session][op[w].key] = op[w].value]
    /\ op' = [op EXCEPT ![w] = Idle]
    /\ UNCHANGED <<backend, created, expired, destroyed, ops>>

\* The time to live of the key ends, at expiresAt or up to a second later.
NeverLapses(s) == FALSE                                     \* seeded fault
Lapses(s) == Live(s) /\ s \in expired

RedisExpire(s) ==
    /\ backend = "redis" /\ Lapses(s)
    /\ Remove(s)
    /\ UNCHANGED <<backend, created, expired, op, destroyed, truth, ops>>

-----------------------------------------------------------------------------
Init ==
    /\ backend \in Backends
    /\ store = [s \in Sessions |-> Absent]
    /\ created = {} /\ expired = {} /\ destroyed = {}
    /\ op = [w \in Workers |-> Idle]
    /\ truth = [s \in Sessions |-> Empty]
    /\ ops = 0

Next ==
    \/ \E w \in Workers, s \in Sessions :
          \/ Create(w, s) \/ Destroy(w, s)
          \/ MemoryGetExpired(w, s) \/ RedisGetExpired(w, s)
          \/ \E k \in Keys, v \in Values \cup {Unset} :
                MemoryChange(w, s, k, v) \/ RedisRead(w, s, k, v)
    \/ \E w \in Workers : RedisDel(w) \/ RedisSetex(w)
    \/ \E s \in Sessions : Expire(s) \/ RedisExpire(s)
    \/ Cleanup

\* The interval timer runs, Redis drops expired keys, its replies arrive.
Fairness ==
    /\ WF_vars(Cleanup)
    /\ \A s \in Sessions : WF_vars(RedisExpire(s))
    /\ \A w \in Workers : WF_vars(RedisDel(w) \/ RedisSetex(w))

Spec == Init /\ [][Next]_vars /\ Fairness

-----------------------------------------------------------------------------
Commands ==
    {Idle} \cup [kind : {"del"}, session : Sessions]
    \cup [kind : {"setex"}, session : Sessions, key : Keys, value : Values \cup {Unset},
          claims : Claims]

\* Sessions, pending commands and the history keep their types; only created
\* sessions are in the store, and nothing is left of a removed one.
TypeOK ==
    /\ backend \in Backends
    /\ store \in [Sessions -> [live : BOOLEAN, claims : Claims]]
    /\ created \subseteq Sessions /\ expired \subseteq created
    /\ destroyed \subseteq created
    /\ \A s \in Sessions : IF Live(s) THEN s \in created ELSE store[s] = Absent
    /\ op \in [Workers -> Commands]
    /\ truth \in [Sessions -> Claims]
    /\ ops \in 0 .. MaxOps

\* In the memory store the operations of several workers on one session do not
\* undo each other: every value whose storing or deleting returned true is in
\* effect, a session that was destroyed is never found again (logging out is
\* final), and none is dropped before it expires.
ClaimsKept ==
    backend = "memory" =>
        /\ \A s \in Sessions : Live(s) => store[s].claims = truth[s]
        /\ \A s \in destroyed : ~Live(s)
        /\ \A s \in created \ (expired \cup destroyed) : Live(s)

\* A session that has expired leaves the store, even if nobody asks for it, and
\* even if a write that was under way brings it back.
ExpiredLeaves == \A s \in Sessions : s \in expired ~> ~Live(s)
=============================================================================
