----------------------------- MODULE MCDatabase -----------------------------
(***************************************************************************)
(* The database as handlers reach it, checked side by side: the MySQL      *)
(* channel, the connections of its thread (MysqlConnections), the          *)
(* transactions of the bridge (DbTransactions) and the migrations          *)
(* (Migrations).  They share no state: the channel carries any operation,  *)
(* and the others say what the operations do.  An instance that runs one   *)
(* of them therefore shows all that any of them can do.                    *)
(***************************************************************************)
EXTENDS MysqlChannel

CONSTANTS
    Workers, Pools, Faults, MaxRuns,                            \* DbTransactions
    Conns, Limit, MaxRequests,                                  \* MysqlConnections
    Threads, Count, MaxMigrationRuns, MaxRollbacks, MaxFaults   \* Migrations

VARIABLES
    pooled, faulty, begun, run, pc, txId, failed, transactions, inTx, uncommitted,
    lock, durable, answers,
    request, stage, conn, posted, given_up, connState, commands, broken,
    inTransaction, openTransactions, rolledBack,
    kind, database, registered, migrating, applied, back, exists, recorded, ups, downs,
    tried, runs, rollbacks, faults, overlapped,
    part  \* which of them runs

Db == INSTANCE DbTransactions

ASSUME DbAssumption == Db!None \notin Workers /\ MaxRuns \in Nat

Pool == INSTANCE MysqlConnections WITH
    state <- connState, transactions <- openTransactions

ASSUME PoolAssumption ==
    Pool!None \notin Conns /\ IsFiniteSet(Conns) /\ Limit \in Nat /\ MaxRequests \in Nat

Migrate == INSTANCE Migrations WITH
    Kinds <- {"sql", "wasm"}, MaxRuns <- MaxMigrationRuns, run <- migrating

ASSUME MigrateAssumption ==
    /\ IsFiniteSet(Threads) /\ Count \in Nat
    /\ MaxMigrationRuns \in Nat /\ MaxRollbacks \in Nat /\ MaxFaults \in Nat

dbVars ==
    <<pooled, faulty, begun, run, pc, txId, failed, transactions, inTx, uncommitted,
      lock, durable, answers>>
poolVars ==
    <<request, stage, conn, posted, given_up, connState, commands, broken,
      inTransaction, openTransactions, rolledBack>>
migrateVars ==
    <<kind, database, registered, migrating, applied, back, exists, recorded, ups, downs,
      tried, runs, rollbacks, faults, overlapped>>
allVars == <<vars, dbVars, poolVars, migrateVars, part>>

\* A part that does not run keeps one initial state.  Over a pool handlers do not trap,
\* as nothing is claimed of those that do.  Of the two migrations one is an SQL
\* statement and one an export.
MCInit ==
    /\ Init /\ Db!Init /\ Pool!Init /\ Migrate!Init
    /\ part \in {"channel", "transactions", "connections", "migrations"}
    /\ pooled => ~faulty
    /\ part = "transactions" \/ pooled
    /\ kind[1] # kind[2] /\ (part = "migrations" \/ kind[1] = "sql")

MCNext ==
    \/ part = "channel" /\ Next /\ UNCHANGED <<dbVars, poolVars, migrateVars, part>>
    \/ /\ part = "transactions" /\ Db!Next
       /\ UNCHANGED <<vars, poolVars, migrateVars, part>>
    \/ /\ part = "connections" /\ Pool!Next
       /\ UNCHANGED <<vars, dbVars, migrateVars, part>>
    \/ /\ part = "migrations" /\ Migrate!Next
       /\ UNCHANGED <<vars, dbVars, poolVars, part>>

\* While one of them runs, nothing is due in the initial states of the others.
MCSpec == MCInit /\ [][MCNext]_allVars /\ Fairness /\ Db!Fairness /\ Pool!Fairness

-----------------------------------------------------------------------------
\* The types of all parts.  Here and below a part that does not run is in an initial
\* state, where its own instance checks it.
TypesOK ==
    /\ part = "channel" => TypeOK
    /\ part = "transactions" => Db!TypeOK
    /\ part = "connections" => Pool!TypeOK
    /\ part = "migrations" => Migrate!TypeOK

\* See MysqlChannel: a call gets its own answer, whole, or it times out.
CallsExact == part = "channel" => ExactOrTimedOut /\ PayloadIntact

\* See DbTransactions: all or nothing with SQLite, and no transaction is left open.
SqliteTransactions ==
    part = "transactions" => Db!SqliteTransactions /\ Db!IdleHasNoTransaction

\* See MysqlConnections: each connection of the pool is free, used by one request or
\* transaction, or gone, and none returns with a transaction open.
ConnectionsAccounted == part = "connections" => Pool!ConnectionsAccounted

\* See Migrations: the table _migrations says what has been executed.
MigrationsRecorded == part = "migrations" => Migrate!MigrationsRecorded

\* Every call through the channel returns, the write lock of SQLite is given back,
\* and the thread answers close.
EveryCallReturns == CallsReturn /\ Db!LockReleased /\ Pool!CloseAnswered
=============================================================================
