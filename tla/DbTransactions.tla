--------------------------- MODULE DbTransactions ---------------------------
(***************************************************************************)
(* Transactions as programs use them (docs/database.md): a handler calls   *)
(* _db_begin(), executes two statements that belong together, and calls    *)
(* _db_commit() or, if a statement failed, _db_rollback().  Handlers run   *)
(* in several request workers; each worker has its own driver, and the     *)
(* statements of bridge/database.ts carry no transaction id.               *)
(*                                                                         *)
(* With SQLite (database/sqlite.ts) a driver is one connection, so that    *)
(* the statements join the transaction that is open on it.  With a pool of *)
(* connections (database/sync-postgres.ts, database/mysql.ts) _db_begin()  *)
(* takes a connection of its own and a statement takes another one.        *)
(***************************************************************************)
EXTENDS Integers, FiniteSets

CONSTANTS
    Workers,   \* request workers
    Pools,     \* subset of BOOLEAN: the values of pooled
    Faults,    \* subset of BOOLEAN: the values of faulty
    MaxRuns    \* bound: handlers started

Runs == 1 .. MaxRuns
None == 0
NoId == 0
Statements == {"debit", "credit"}
Writes(t) == {t} \X Statements

VARIABLES
    pooled,       \* the driver has a pool of connections (PostgreSQL, MySQL)
    faulty,       \* a handler may trap between two calls, a COMMIT may fail
    begun,        \* number of handlers started
    run, pc,      \* the handler of each worker, and its next call
    txId,         \* the id _db_begin() returned to it: its run, or NoId
    failed,       \* a statement of it failed
    transactions, \* driver.transactions
    inTx,         \* a transaction is open on the worker's connection
    uncommitted,  \* writes of that transaction
    lock,         \* the worker that holds SQLite's write lock, or None
    durable,      \* writes that are committed
    answers       \* what the last call of each handler answered

config == <<pooled, faulty>>
driverVars == <<transactions, inTx, uncommitted, lock>>
vars == <<config, begun, run, pc, txId, failed, driverVars, durable, answers>>

Go(w, next) == pc' = [pc EXCEPT ![w] = next]

-----------------------------------------------------------------------------
(* _db_begin(): an error is answered with an empty id.                     *)

Begun(w, id) ==
    /\ txId' = [txId EXCEPT ![w] = id]
    /\ transactions' = [transactions EXCEPT ![w] = @ \cup ({id} \ {NoId})]

\* BEGIN within a transaction is an error of SQLite.
BeginSqlite(w) ==
    /\ ~pooled
    /\ IF inTx[w]
       THEN Begun(w, NoId) /\ UNCHANGED inTx
       ELSE Begun(w, run'[w]) /\ inTx' = [inTx EXCEPT ![w] = TRUE]

BeginPooled(w) ==
    /\ pooled
    /\ \E id \in {NoId, run'[w]} : Begun(w, id)
    /\ UNCHANGED inTx

Begin(w) ==
    /\ pc[w] = "idle" /\ begun < MaxRuns
    /\ begun' = begun + 1
    /\ run' = [run EXCEPT ![w] = begun + 1]
    /\ failed' = [failed EXCEPT ![w] = FALSE]
    /\ Go(w, "debit")
    /\ BeginSqlite(w) \/ BeginPooled(w)
    /\ UNCHANGED <<config, uncommitted, lock, durable, answers>>

-----------------------------------------------------------------------------
(* _db_execute()                                                           *)

Autocommits(w) == pooled \/ ~inTx[w]
AlwaysAutocommits(w) == TRUE                              \* seeded fault
RunsAlone(w) == Autocommits(w)

\* Another connection writes: SQLITE_BUSY when the busy timeout is over.
Busy(w) == ~pooled /\ lock \notin {None, w}

Execute(w, statement, next) ==
    /\ pc[w] = statement
    /\ Go(w, next)
    /\ \/ /\ failed' = [failed EXCEPT ![w] = TRUE]
          /\ UNCHANGED <<uncommitted, lock, durable>>
       \/ /\ ~Busy(w) /\ UNCHANGED failed
          /\ IF RunsAlone(w)
             THEN durable' = durable \cup {<<run[w], statement>>} /\ UNCHANGED <<uncommitted, lock>>
             ELSE /\ uncommitted' = [uncommitted EXCEPT ![w] = @ \cup {<<run[w], statement>>}]
                  /\ lock' = w
                  /\ UNCHANGED durable
    /\ UNCHANGED <<config, begun, run, txId, transactions, inTx, answers>>

-----------------------------------------------------------------------------
(* _db_commit() and _db_rollback()                                         *)

Known(w) == txId[w] \in transactions[w]

\* The transaction of the connection ends.
Release(w) ==
    /\ inTx' = [inTx EXCEPT ![w] = FALSE]
    /\ uncommitted' = [uncommitted EXCEPT ![w] = {}]
    /\ lock' = IF lock = w THEN None ELSE lock

RollBackAll(w) == Release(w)

Remember(w) == transactions                                \* seeded fault
Forget(w) == [transactions EXCEPT ![w] = @ \ {txId[w]}]

Answer(w, answer) ==
    /\ answers' = [answers EXCEPT ![run[w]] = answer]
    /\ transactions' = Forget(w)
    /\ Go(w, "idle")
    /\ UNCHANGED <<config, begun, run, txId, failed>>

Apply(w) == durable \cup uncommitted[w]

Commit(w) ==
    /\ pc[w] = "end" /\ ~failed[w] /\ Known(w)
    /\ durable' = Apply(w)
    /\ Release(w)
    /\ Answer(w, "committed")

Rollback(w) ==
    /\ pc[w] = "end" /\ failed[w] /\ Known(w)
    /\ RollBackAll(w)
    /\ Answer(w, "rolledBack")
    /\ UNCHANGED durable

\* COMMIT or ROLLBACK throws; the driver forgets the id all the same, and with
\* SQLite the transaction stays open.
EndThrows(w) ==
    /\ pc[w] = "end" /\ Known(w) /\ (pooled \/ faulty)
    /\ Answer(w, "error")
    /\ UNCHANGED <<inTx, uncommitted, lock, durable>>

UnknownId(w) ==
    /\ pc[w] = "end" /\ ~Known(w)
    /\ Answer(w, "error")
    /\ UNCHANGED <<inTx, uncommitted, lock, durable>>

\* The worker answers 500 and takes its next request.
Trap(w) ==
    /\ faulty /\ pc[w] # "idle"
    /\ answers' = [answers EXCEPT ![run[w]] = "trap"]
    /\ Go(w, "idle")
    /\ UNCHANGED <<config, begun, run, txId, failed, driverVars, durable>>

-----------------------------------------------------------------------------
Init ==
    /\ pooled \in Pools /\ faulty \in Faults
    /\ begun = 0
    /\ run = [w \in Workers |-> 0] /\ pc = [w \in Workers |-> "idle"]
    /\ txId = [w \in Workers |-> NoId] /\ failed = [w \in Workers |-> FALSE]
    /\ transactions = [w \in Workers |-> {}] /\ inTx = [w \in Workers |-> FALSE]
    /\ uncommitted = [w \in Workers |-> {}]
    /\ lock = None /\ durable = {}
    /\ answers = [t \in Runs |-> "none"]

Step(w) ==
    \/ Execute(w, "debit", "credit") \/ Execute(w, "credit", "end")
    \/ Commit(w) \/ Rollback(w) \/ EndThrows(w) \/ UnknownId(w)

Next == \E w \in Workers : Begin(w) \/ Step(w) \/ Trap(w)

\* A handler that was started goes on.
Fairness == \A w \in Workers : WF_vars(Step(w))

Spec == Init /\ [][Next]_vars /\ Fairness

-----------------------------------------------------------------------------
\* Types; the write lock is held by an open transaction that has written.
TypeOK ==
    /\ pooled \in Pools /\ faulty \in Faults
    /\ begun \in 0 .. MaxRuns
    /\ run \in [Workers -> Runs \cup {0}]
    /\ pc \in [Workers -> {"idle", "debit", "credit", "end"}]
    /\ txId \in [Workers -> Runs \cup {NoId}] /\ failed \in [Workers -> BOOLEAN]
    /\ transactions \in [Workers -> SUBSET Runs]
    /\ inTx \in [Workers -> BOOLEAN]
    /\ uncommitted \in [Workers -> SUBSET (Runs \X Statements)]
    /\ lock \in Workers \cup {None}
    /\ \A w \in Workers : lock = w <=> (inTx[w] /\ uncommitted[w] # {})
    /\ durable \subseteq Runs \X Statements
    /\ answers \in [Runs -> {"none", "committed", "rolledBack", "error", "trap"}]

\* The statements between _db_begin() and _db_commit() succeed or fail
\* together: of a handler that is over, both are durable or none is.
AllOrNothing ==
    \A t \in Runs :
        answers[t] # "none" => Writes(t) \subseteq durable \/ Writes(t) \cap durable = {}

\* With SQLite that is so, and what _db_commit() and _db_rollback() answer is
\* true, whatever fails and whatever other workers do at the same time.
SqliteTransactions ==
    ~pooled =>
        /\ AllOrNothing
        /\ \A t \in Runs :
              /\ answers[t] = "committed" => Writes(t) \subseteq durable
              /\ answers[t] = "rolledBack" => Writes(t) \cap durable = {}

\* A worker that waits for a request has no transaction open, so that no handler
\* writes into the transaction of an earlier one.  With SQLite this needs
\* handlers that end their transactions and a COMMIT that does not throw.
IdleHasNoTransaction ==
    pooled \/ ~faulty =>
        \A w \in Workers :
            pc[w] = "idle" =>
                /\ ~inTx[w] /\ lock # w
                /\ ~faulty => transactions[w] = {}

\* The write lock is given back, so that the other workers can write again.
LockReleased == \A w \in Workers : ~faulty /\ lock = w ~> lock # w
=============================================================================
