--------------------------- MODULE Database_proofs ---------------------------
(***************************************************************************)
(* Theorems about the parts of MCDatabase: the transactions of             *)
(* DbTransactions, the runs of Migrations, the calls of MysqlChannel and   *)
(* the connections of MysqlConnections, for any number of workers,         *)
(* handlers, threads, migrations, calls, requests and connections.         *)
(***************************************************************************)
EXTENDS MCDatabase, SequenceFacts, FiniteSetTheorems

USE DbAssumption

-----------------------------------------------------------------------------
(***************************************************************************)
(* The inductive invariant.  What makes a transaction atomic with SQLite   *)
(* is that durable writes come from COMMIT alone (InTransaction: no        *)
(* statement of a handler autocommits), and that what COMMIT writes are    *)
(* the statements of its own handler, all of them (OwnWrites).  A handler  *)
(* that could not begin, because an earlier one trapped and left its       *)
(* transaction open, adds to what that one left; it has no id (NoId), so   *)
(* that it cannot commit.                                                  *)
(***************************************************************************)
Active(w) == pc[w] # "idle"
Began(w) == Active(w) /\ txId[w] # Db!NoId

\* Each handler has a number of its own, and no answer while it runs.
RunsNumbered ==
    /\ \A w \in Workers : run[w] <= begun /\ (Active(w) => run[w] # 0)
    /\ \A v, w \in Workers : Active(v) /\ run[v] = run[w] => v = w
    /\ \A t \in Db!Runs : t > begun => answers[t] = "none"
    /\ \A w \in Workers : Active(w) => answers[run[w]] = "none"

IdsKnown ==
    /\ \A w \in Workers : Active(w) => txId[w] \in {run[w], Db!NoId}
    /\ \A w \in Workers : Began(w) => txId[w] \in transactions[w]

\* What the connection of a worker has open.
InTransaction ==
    \A w \in Workers :
        /\ ~inTx[w] => uncommitted[w] = {}
        /\ IF pooled THEN ~inTx[w] ELSE Active(w) => inTx[w]

\* The writes of the open transaction of a handler that began.
OwnWrites ==
    ~pooled => \A w \in Workers : Began(w) =>
        /\ uncommitted[w] \subseteq Db!Writes(run[w])
        /\ ~failed[w] /\ pc[w] \in {"credit", "end"} =>
              <<run[w], "debit">> \in uncommitted[w]
        /\ ~failed[w] /\ pc[w] = "end" => <<run[w], "credit">> \in uncommitted[w]

DurableCommitted ==
    ~pooled =>
        /\ \A t \in Db!Runs : answers[t] = "committed" => Db!Writes(t) \subseteq durable
        /\ \A t \in Db!Runs : answers[t] # "committed" => Db!Writes(t) \cap durable = {}

\* Without traps a handler takes its transaction with it.
NothingLeft ==
    ~faulty => \A w \in Workers :
        /\ ~Active(w) => ~inTx[w] /\ transactions[w] = {}
        /\ transactions[w] \subseteq {txId[w]}
        /\ ~pooled => (Active(w) => Began(w))

DbInv ==
    /\ Db!TypeOK
    /\ RunsNumbered
    /\ IdsKnown
    /\ InTransaction
    /\ OwnWrites
    /\ DurableCommitted
    /\ NothingLeft

\* It holds before any handler has begun.
LEMMA DbInvInit == Db!Init => DbInv
  BY DEF Db!Init, DbInv, Db!TypeOK, RunsNumbered, IdsKnown, InTransaction, OwnWrites,
     DurableCommitted, NothingLeft, Active, Began, Db!Runs, Db!None, Db!NoId, Db!Writes,
     Db!Statements

\* _db_begin() opens a transaction, or the handler has no id.
LEMMA BeginStep ==
    ASSUME DbInv, NEW w \in Workers, Db!Begin(w)
    PROVE  DbInv'
  <1> USE DEF Active, Began, Db!NoId
  <1>1. /\ begun' = begun + 1 /\ begun' \in Db!Runs
        /\ run' = [run EXCEPT ![w] = begun'] /\ failed' = [failed EXCEPT ![w] = FALSE]
        /\ pc[w] = "idle" /\ pc' = [pc EXCEPT ![w] = "debit"]
        /\ UNCHANGED <<pooled, faulty, uncommitted, lock, durable, answers>>
    <2>1. begun \in Nat /\ begun < MaxRuns /\ begun' = begun + 1
      BY DEF Db!Begin, DbInv, Db!TypeOK
    <2>2. begun' \in Db!Runs
      BY <2>1 DEF Db!Runs, DbInv
    <2>3. run' = [run EXCEPT ![w] = begun'] /\ failed' = [failed EXCEPT ![w] = FALSE]
      BY <2>1 DEF Db!Begin
    <2>4. pc[w] = "idle" /\ pc' = [pc EXCEPT ![w] = "debit"]
        /\ UNCHANGED <<pooled, faulty, uncommitted, lock, durable, answers>>
      BY DEF Db!Begin, Db!Go, Db!config
    <2> QED
      BY <2>1, <2>2, <2>3, <2>4
  <1>2. PICK id \in {Db!NoId, begun'} :
           /\ txId' = [txId EXCEPT ![w] = id]
           /\ transactions' = [transactions EXCEPT ![w] = @ \cup ({id} \ {Db!NoId})]
           /\ IF ~pooled /\ ~inTx[w]
              THEN id # Db!NoId /\ inTx' = [inTx EXCEPT ![w] = TRUE]
              ELSE inTx' = inTx
           /\ ~pooled /\ inTx[w] => id = Db!NoId
    <2>1. begun' # Db!NoId /\ run'[w] = begun'
      BY <1>1 DEF DbInv, Db!TypeOK, Db!Runs
    <2>2. CASE Db!BeginSqlite(w)
      BY <2>1, <2>2 DEF Db!BeginSqlite, Db!Begun
    <2>3. CASE Db!BeginPooled(w)
      BY <2>1, <2>3 DEF Db!BeginPooled, Db!Begun
    <2> QED
      BY <2>2, <2>3 DEF Db!Begin
  <1>3. Db!TypeOK'
    <2>1. /\ run' \in [Workers -> Db!Runs \cup {0}]
          /\ txId' \in [Workers -> Db!Runs \cup {Db!NoId}]
          /\ transactions' \in [Workers -> SUBSET Db!Runs]
      BY <1>1, <1>2 DEF DbInv, Db!TypeOK
    <2>2. \A v \in Workers : lock = v <=> (inTx'[v] /\ uncommitted[v] # {})
      BY <1>2 DEF DbInv, Db!TypeOK, InTransaction
    <2>3. begun' \in 0 .. MaxRuns
      BY <1>1 DEF Db!Runs
    <2>4. inTx' \in [Workers -> BOOLEAN]
      BY <1>2 DEF DbInv, Db!TypeOK
    <2> QED
      BY <1>1, <2>1, <2>2, <2>3, <2>4 DEF DbInv, Db!TypeOK
  <1>4. RunsNumbered'
    BY <1>1 DEF RunsNumbered, DbInv, Db!TypeOK, Db!Runs
  <1>5. IdsKnown'
    BY <1>1, <1>2 DEF IdsKnown, DbInv, Db!TypeOK, Db!Runs
  <1>6. InTransaction'
    BY <1>1, <1>2 DEF InTransaction, DbInv, Db!TypeOK
  <1>7. OwnWrites'
    BY <1>1, <1>2 DEF OwnWrites, InTransaction, DbInv, Db!TypeOK
  <1>8. DurableCommitted'
    BY <1>1 DEF DurableCommitted, DbInv
  <1>9. NothingLeft'
    BY <1>1, <1>2 DEF NothingLeft, InTransaction, DbInv, Db!TypeOK, Db!Runs
  <1> QED
    BY <1>3, <1>4, <1>5, <1>6, <1>7, <1>8, <1>9 DEF DbInv

\* With SQLite a statement joins the transaction of its connection.
LEMMA ExecuteStep ==
    ASSUME DbInv, NEW w \in Workers,
           NEW statement \in Db!Statements, NEW next,
           next = IF statement = "debit" THEN "credit" ELSE "end",
           Db!Execute(w, statement, next)
    PROVE  DbInv'
  <1> USE DEF Active, Began, Db!NoId
  <1> DEFINE write == <<run[w], statement>>
  <1>1. /\ pc[w] = statement /\ pc' = [pc EXCEPT ![w] = next]
        /\ UNCHANGED <<pooled, faulty, begun, run, txId, transactions, inTx, answers>>
    BY DEF Db!Execute, Db!Go, Db!config
  <1>2. /\ pc[w] \in {"debit", "credit"} /\ next \in {"credit", "end"}
        /\ run[w] \in Db!Runs /\ write \in Db!Runs \X Db!Statements
    BY <1>1 DEF DbInv, Db!TypeOK, RunsNumbered, Db!Statements
  <1>3. CASE /\ failed' = [failed EXCEPT ![w] = TRUE]
             /\ UNCHANGED <<uncommitted, lock, durable>>
    <2>1. Db!TypeOK' /\ RunsNumbered' /\ IdsKnown'
      BY <1>1, <1>2, <1>3 DEF DbInv, Db!TypeOK, RunsNumbered, IdsKnown
    <2>2. InTransaction' /\ DurableCommitted' /\ NothingLeft'
      BY <1>1, <1>2, <1>3 DEF DbInv, Db!TypeOK, InTransaction, DurableCommitted, NothingLeft
    <2>3. OwnWrites'
      BY <1>1, <1>2, <1>3 DEF DbInv, Db!TypeOK, OwnWrites
    <2> QED
      BY <2>1, <2>2, <2>3 DEF DbInv
  <1>4. CASE /\ Db!RunsAlone(w) /\ durable' = durable \cup {write}
             /\ UNCHANGED <<failed, uncommitted, lock>>
    <2>1. pooled
      BY <1>1, <1>2, <1>4 DEF DbInv, InTransaction, Db!RunsAlone, Db!Autocommits
    <2>2. Db!TypeOK' /\ RunsNumbered' /\ IdsKnown'
      BY <1>1, <1>2, <1>4 DEF DbInv, Db!TypeOK, RunsNumbered, IdsKnown
    <2>3. InTransaction' /\ OwnWrites' /\ DurableCommitted' /\ NothingLeft'
      BY <1>1, <1>2, <1>4, <2>1
         DEF DbInv, Db!TypeOK, InTransaction, OwnWrites, DurableCommitted, NothingLeft
    <2> QED
      BY <2>2, <2>3 DEF DbInv
  <1>5. CASE /\ ~Db!RunsAlone(w) /\ ~Db!Busy(w)
             /\ uncommitted' = [uncommitted EXCEPT ![w] = @ \cup {write}]
             /\ lock' = w /\ UNCHANGED <<failed, durable>>
    <2>1. inTx[w] /\ ~pooled /\ lock \in {Db!None, w}
      BY <1>5 DEF DbInv, Db!TypeOK, Db!RunsAlone, Db!Autocommits, Db!Busy
    <2>2. \A v \in Workers : v # w => lock # v /\ uncommitted'[v] = uncommitted[v]
      BY <1>5, <2>1 DEF Db!None, DbInv, Db!TypeOK
    <2>3. Db!TypeOK'
      <3>1. uncommitted' \in [Workers -> SUBSET (Db!Runs \X Db!Statements)]
        BY <1>2, <1>5 DEF DbInv, Db!TypeOK
      <3>2. write \in uncommitted'[w]
        BY <1>5 DEF DbInv, Db!TypeOK
      <3>3. \A v \in Workers : lock' = v <=> (inTx'[v] /\ uncommitted'[v] # {})
        BY <1>1, <1>5, <2>1, <2>2, <3>2 DEF DbInv, Db!TypeOK
      <3> QED
        BY <1>1, <1>2, <1>5, <3>1, <3>3 DEF DbInv, Db!TypeOK
    <2>4. RunsNumbered' /\ IdsKnown'
      BY <1>1, <1>2, <1>5 DEF DbInv, Db!TypeOK, RunsNumbered, IdsKnown
    <2>5. InTransaction' /\ DurableCommitted' /\ NothingLeft'
      BY <1>1, <1>2, <1>5, <2>1
         DEF DbInv, Db!TypeOK, InTransaction, DurableCommitted, NothingLeft
    <2>6. OwnWrites'
      <3>1. write \in Db!Writes(run[w])
        BY DEF Db!Writes
      <3>2. uncommitted'[w] = uncommitted[w] \cup {write}
        BY <1>5 DEF DbInv, Db!TypeOK
      <3> QED
        BY <1>1, <1>2, <1>5, <2>2, <3>1, <3>2 DEF DbInv, Db!TypeOK, OwnWrites
    <2> QED
      BY <2>3, <2>4, <2>5, <2>6 DEF DbInv
  <1> QED
    BY <1>3, <1>4, <1>5 DEF Db!Execute

\* An answer ends a handler: what COMMIT and ROLLBACK have in common.
LEMMA AnswerStep ==
    ASSUME DbInv, NEW w \in Workers, Active(w),
           NEW reply \in {"committed", "rolledBack", "error"}, Db!Answer(w, reply)
    PROVE  /\ RunsNumbered' /\ IdsKnown'
           /\ run[w] \in Db!Runs /\ answers[run[w]] = "none"
           /\ transactions' = [transactions EXCEPT ![w] = @ \ {txId[w]}]
           /\ transactions' \in [Workers -> SUBSET Db!Runs]
           /\ answers' = [answers EXCEPT ![run[w]] = reply]
           /\ answers' \in [Db!Runs -> {"none", "committed", "rolledBack", "error", "trap"}]
           /\ pc' = [pc EXCEPT ![w] = "idle"]
           /\ UNCHANGED <<pooled, faulty, begun, run, txId, failed>>
  <1>1. /\ run[w] \in Db!Runs /\ answers[run[w]] = "none"
        /\ transactions' = [transactions EXCEPT ![w] = @ \ {txId[w]}]
        /\ answers' = [answers EXCEPT ![run[w]] = reply]
        /\ pc' = [pc EXCEPT ![w] = "idle"]
        /\ UNCHANGED <<pooled, faulty, begun, run, txId, failed>>
    BY DEF Db!Answer, Db!Forget, Db!Go, Db!config, DbInv, Db!TypeOK, RunsNumbered
  <1>2. RunsNumbered' /\ IdsKnown'
    BY <1>1 DEF DbInv, Db!TypeOK, RunsNumbered, IdsKnown, Active, Began, Db!NoId, Db!Runs
  <1>3. /\ transactions' \in [Workers -> SUBSET Db!Runs]
        /\ answers' \in [Db!Runs -> {"none", "committed", "rolledBack", "error", "trap"}]
    BY <1>1 DEF DbInv, Db!TypeOK
  <1> QED
    BY <1>1, <1>2, <1>3

\* COMMIT makes durable what its own handler has written, and all of it.
LEMMA CommitStep ==
    ASSUME DbInv, NEW w \in Workers, Db!Commit(w)
    PROVE  DbInv'
  <1> USE DEF Active, Began
  <1>1. Active(w) /\ Began(w) /\ pc[w] = "end" /\ ~failed[w] /\ Db!Known(w)
    BY DEF Db!Commit, Db!Known, DbInv, Db!TypeOK, Db!NoId, Db!Runs
  <1>2. /\ durable' = durable \cup uncommitted[w]
        /\ inTx' = [inTx EXCEPT ![w] = FALSE]
        /\ uncommitted' = [uncommitted EXCEPT ![w] = {}]
        /\ lock' = IF lock = w THEN Db!None ELSE lock
    BY DEF Db!Commit, Db!Apply, Db!Release
  <1>3. /\ RunsNumbered' /\ IdsKnown'
        /\ run[w] \in Db!Runs /\ answers[run[w]] = "none"
        /\ transactions' = [transactions EXCEPT ![w] = @ \ {txId[w]}]
        /\ transactions' \in [Workers -> SUBSET Db!Runs]
        /\ answers' = [answers EXCEPT ![run[w]] = "committed"]
        /\ answers' \in [Db!Runs -> {"none", "committed", "rolledBack", "error", "trap"}]
        /\ pc' = [pc EXCEPT ![w] = "idle"]
        /\ UNCHANGED <<pooled, faulty, begun, run, txId, failed>>
    BY <1>1, AnswerStep DEF Db!Commit
  <1>4. Db!TypeOK'
    BY <1>2, <1>3 DEF DbInv, Db!TypeOK, Db!None
  <1>5. InTransaction'
    BY <1>2, <1>3 DEF DbInv, Db!TypeOK, InTransaction
  <1>6. OwnWrites'
    BY <1>2, <1>3 DEF DbInv, Db!TypeOK, OwnWrites
  <1>7. DurableCommitted'
    <2>1. ~pooled => uncommitted[w] = Db!Writes(run[w])
      <3>1. ~pooled => /\ uncommitted[w] \subseteq Db!Writes(run[w])
                       /\ <<run[w], "debit">> \in uncommitted[w]
                       /\ <<run[w], "credit">> \in uncommitted[w]
        BY <1>1 DEF DbInv, OwnWrites
      <3> QED
        BY <3>1 DEF Db!Writes, Db!Statements
    <2>2. \A t \in Db!Runs : t # run[w] => Db!Writes(t) \cap Db!Writes(run[w]) = {}
      BY DEF Db!Writes
    <2> QED
      BY <1>2, <1>3, <2>1, <2>2 DEF DbInv, Db!TypeOK, DurableCommitted
  <1>8. NothingLeft'
    BY <1>2, <1>3 DEF DbInv, Db!TypeOK, NothingLeft
  <1> QED
    BY <1>3, <1>4, <1>5, <1>6, <1>7, <1>8 DEF DbInv

\* ROLLBACK forgets them.
LEMMA RollbackStep ==
    ASSUME DbInv, NEW w \in Workers, Db!Rollback(w)
    PROVE  DbInv'
  <1> USE DEF Active, Began
  <1>1. Active(w)
    BY DEF Db!Rollback
  <1>2. /\ inTx' = [inTx EXCEPT ![w] = FALSE]
        /\ uncommitted' = [uncommitted EXCEPT ![w] = {}]
        /\ lock' = IF lock = w THEN Db!None ELSE lock
        /\ durable' = durable
    BY DEF Db!Rollback, Db!RollBackAll, Db!Release
  <1>3. /\ RunsNumbered' /\ IdsKnown'
        /\ run[w] \in Db!Runs /\ answers[run[w]] = "none"
        /\ transactions' = [transactions EXCEPT ![w] = @ \ {txId[w]}]
        /\ transactions' \in [Workers -> SUBSET Db!Runs]
        /\ answers' = [answers EXCEPT ![run[w]] = "rolledBack"]
        /\ answers' \in [Db!Runs -> {"none", "committed", "rolledBack", "error", "trap"}]
        /\ pc' = [pc EXCEPT ![w] = "idle"]
        /\ UNCHANGED <<pooled, faulty, begun, run, txId, failed>>
    BY <1>1, AnswerStep DEF Db!Rollback
  <1>4. Db!TypeOK'
    BY <1>2, <1>3 DEF DbInv, Db!TypeOK, Db!None
  <1>5. InTransaction' /\ OwnWrites'
    BY <1>2, <1>3 DEF DbInv, Db!TypeOK, InTransaction, OwnWrites
  <1>6. DurableCommitted' /\ NothingLeft'
    BY <1>2, <1>3 DEF DbInv, Db!TypeOK, DurableCommitted, NothingLeft
  <1> QED
    BY <1>3, <1>4, <1>5, <1>6 DEF DbInv

\* An error leaves the connection as it is.
LEMMA ErrorStep ==
    ASSUME DbInv, NEW w \in Workers, Db!EndThrows(w) \/ Db!UnknownId(w)
    PROVE  DbInv'
  <1> USE DEF Active, Began
  <1>1. Active(w) /\ Db!Answer(w, "error") /\ UNCHANGED <<inTx, uncommitted, lock, durable>>
    BY DEF Db!EndThrows, Db!UnknownId
  <1>2. pooled \/ faulty
    BY DEF Db!EndThrows, Db!UnknownId, Db!Known, DbInv, NothingLeft, IdsKnown
  <1>3. /\ RunsNumbered' /\ IdsKnown'
        /\ run[w] \in Db!Runs /\ answers[run[w]] = "none"
        /\ transactions' = [transactions EXCEPT ![w] = @ \ {txId[w]}]
        /\ transactions' \in [Workers -> SUBSET Db!Runs]
        /\ answers' = [answers EXCEPT ![run[w]] = "error"]
        /\ answers' \in [Db!Runs -> {"none", "committed", "rolledBack", "error", "trap"}]
        /\ pc' = [pc EXCEPT ![w] = "idle"]
        /\ UNCHANGED <<pooled, faulty, begun, run, txId, failed>>
    BY <1>1, AnswerStep
  <1>4. Db!TypeOK'
    BY <1>1, <1>3 DEF DbInv, Db!TypeOK
  <1>5. InTransaction' /\ OwnWrites'
    BY <1>1, <1>3 DEF DbInv, Db!TypeOK, InTransaction, OwnWrites
  <1>6. DurableCommitted' /\ NothingLeft'
    BY <1>1, <1>2, <1>3 DEF DbInv, Db!TypeOK, DurableCommitted, NothingLeft, InTransaction
  <1> QED
    BY <1>3, <1>4, <1>5, <1>6 DEF DbInv

\* A trap leaves the transaction open: nothing of it becomes durable.
LEMMA TrapStep ==
    ASSUME DbInv, NEW w \in Workers, Db!Trap(w)
    PROVE  DbInv'
  <1> USE DEF Active, Began
  <1>1. /\ faulty /\ Active(w) /\ run[w] \in Db!Runs /\ answers[run[w]] = "none"
        /\ answers' = [answers EXCEPT ![run[w]] = "trap"]
        /\ pc' = [pc EXCEPT ![w] = "idle"]
        /\ UNCHANGED <<pooled, faulty, begun, run, txId, failed, transactions, inTx,
                       uncommitted, lock, durable>>
    BY DEF Db!Trap, Db!Go, Db!config, Db!driverVars, DbInv, Db!TypeOK, RunsNumbered
  <1>2. Db!TypeOK' /\ IdsKnown'
    BY <1>1 DEF DbInv, Db!TypeOK, IdsKnown
  <1>3. RunsNumbered'
    BY <1>1 DEF DbInv, Db!TypeOK, RunsNumbered, Db!Runs
  <1>4. InTransaction' /\ OwnWrites'
    BY <1>1 DEF DbInv, Db!TypeOK, InTransaction, OwnWrites
  <1>5. DurableCommitted' /\ NothingLeft'
    BY <1>1 DEF DbInv, Db!TypeOK, DurableCommitted, NothingLeft
  <1> QED
    BY <1>2, <1>3, <1>4, <1>5 DEF DbInv

\* Every call of a handler preserves the invariant.
LEMMA DbInvStep == DbInv /\ [Db!Next]_(Db!vars) => DbInv'
  <1> SUFFICES ASSUME DbInv, [Db!Next]_(Db!vars) PROVE DbInv'
    OBVIOUS
  <1>1. ASSUME NEW w \in Workers, Db!Step(w) PROVE DbInv'
    <2>1. CASE Db!Execute(w, "debit", "credit") \/ Db!Execute(w, "credit", "end")
      BY <2>1, ExecuteStep DEF Db!Statements
    <2>2. CASE Db!Commit(w) \/ Db!Rollback(w) \/ Db!EndThrows(w) \/ Db!UnknownId(w)
      BY <2>2, CommitStep, RollbackStep, ErrorStep
    <2> QED
      BY <1>1, <2>1, <2>2 DEF Db!Step
  <1>2. CASE UNCHANGED Db!vars
    BY <1>2 DEF Db!vars, Db!config, Db!driverVars, DbInv, Db!TypeOK, RunsNumbered, IdsKnown,
       InTransaction, OwnWrites, DurableCommitted, NothingLeft, Active, Began
  <1> QED
    BY <1>1, <1>2, BeginStep, TrapStep DEF Db!Next

LEMMA DbInvariant == MCSpec => []DbInv
  <1>1. MCInit => DbInv
    BY DbInvInit DEF MCInit
  <1>2. DbInv /\ [MCNext]_allVars => DbInv'
    <2> SUFFICES ASSUME DbInv, [MCNext]_allVars PROVE DbInv'
      OBVIOUS
    <2>1. [Db!Next]_(Db!vars)
      BY DEF MCNext, allVars, dbVars, Db!vars, Db!config, Db!driverVars
    <2> QED
      BY <2>1, DbInvStep
  <1> QED
    BY <1>1, <1>2, PTL DEF MCSpec

\* With SQLite (database/sqlite.ts) the statements of a handler are durable together or
\* not at all, and what _db_commit() and _db_rollback() answer is true, whatever
\* traps, fails or runs in other workers; and a worker that waits for a request
\* has no transaction open, unless a handler trapped.
THEOREM TransactionsAtomic == MCSpec => []SqliteTransactions
  <1>1. DbInv => Db!SqliteTransactions
    <2> SUFFICES ASSUME DbInv, ~pooled PROVE Db!SqliteTransactions
      BY DEF Db!SqliteTransactions
    <2>1. \A t \in Db!Runs : answers[t] = "committed" => Db!Writes(t) \subseteq durable
      BY DEF DbInv, DurableCommitted
    <2>2. \A t \in Db!Runs : answers[t] # "committed" => Db!Writes(t) \cap durable = {}
      BY DEF DbInv, DurableCommitted
    <2> QED
      BY <2>1, <2>2 DEF Db!SqliteTransactions, Db!AllOrNothing
  <1>2. DbInv => Db!IdleHasNoTransaction
    BY DEF DbInv, Db!TypeOK, InTransaction, NothingLeft, Db!IdleHasNoTransaction, Active
  <1>3. DbInv => SqliteTransactions
    BY <1>1, <1>2 DEF SqliteTransactions
  <1> QED
    BY <1>3, DbInvariant, PTL

-----------------------------------------------------------------------------
(***************************************************************************)
(* Migrations.  A run executes the migrations it does not know to be       *)
(* applied, in order, and so whatever lies behind it has been attempted    *)
(* (Attempted).  What it knows it has read once: that this is still so     *)
(* when it goes on (Followed) needs that no other task is under way        *)
(* (Alone) and that the list could be read.                                *)
(***************************************************************************)
MigrationRuns ==
    [stage : {"none", "create", "list", "next", "insert"}, at : 0 .. Count,
     known : SUBSET Migrate!Names, count : Nat]
MigrationBacks == [stage : {"none", "check", "down", "delete"}, at : 0 .. Count]

Going(t) == migrating[t].stage # "none"
Undoing(t) == back[t].stage # "none"
ToUndo == {t \in Threads : back[t].stage \in {"check", "down"}}

MigrateTypes ==
    /\ kind \in [Migrate!Names -> {"sql", "wasm"}]
    /\ database \in [Threads -> {"none", "connecting", "set"}]
    /\ registered \in [Threads -> 0 .. Count]
    /\ migrating \in [Threads -> MigrationRuns] /\ back \in [Threads -> MigrationBacks]
    /\ \A t \in Threads : ~Going(t) => migrating[t] = Migrate!NoRun
    /\ \A t \in Threads : migrating[t].stage = "insert" => migrating[t].at \in Migrate!Names
    /\ \A t \in Threads : IF Undoing(t) THEN back[t].at \in Migrate!Names
                                        ELSE back[t] = Migrate!NoBack
    /\ applied \in [Threads -> Nat] /\ exists \in BOOLEAN
    /\ recorded \subseteq Migrate!Names /\ tried \subseteq Migrate!Names
    /\ ups \in [Migrate!Names -> 0 .. MaxMigrationRuns] /\ downs \in [Migrate!Names -> Nat]
    /\ runs \in Nat /\ faults \in Nat /\ rollbacks \in 0 .. MaxRollbacks
    /\ overlapped \in BOOLEAN

\* A rollback undoes one migration once.
UndoneOnce ==
    \A m \in Migrate!Names : downs[m] + Cardinality(ToUndo) <= rollbacks

Attempted ==
    /\ recorded \subseteq tried
    /\ \A m \in tried : 1 .. m - 1 \subseteq tried
    /\ \A t \in Threads :
          migrating[t].known \subseteq tried /\ 1 .. migrating[t].at \subseteq tried

Alone ==
    ~overlapped => \A t, u \in Threads :
        /\ Going(t) => ~Undoing(u)
        /\ Going(t) /\ Going(u) => t = u
        /\ Undoing(t) /\ Undoing(u) => t = u

Followed ==
    ~overlapped /\ faults = 0 => \A t \in Threads :
        /\ migrating[t].stage \in {"list", "next", "insert"} => exists
        /\ migrating[t].stage \in {"next", "insert"} => \A m \in Migrate!Names :
              m > migrating[t].at => (m \in migrating[t].known <=> m \in recorded)
        /\ migrating[t].stage = "insert" => migrating[t].at \notin recorded
        /\ back[t].stage \in {"down", "delete"} => back[t].at \in recorded

MigrateInv ==
    MigrateTypes /\ UndoneOnce /\ Attempted /\ Alone /\ Followed /\ Migrate!OnceEach

LEMMA MigrateInvInit == MCInit => MigrateInv
  <1> SUFFICES ASSUME Migrate!Init PROVE MigrateInv
    BY DEF MCInit
  <1> USE MigrateAssumption
  <1>1. ToUndo = {} /\ Cardinality(ToUndo) = 0
    <2>1. ToUndo = {}
      BY DEF Migrate!Init, ToUndo, Migrate!NoBack
    <2> QED
      BY <2>1, FS_EmptySet
  <1>2. MigrateTypes
    <2>1. Migrate!NoRun \in MigrationRuns /\ Migrate!NoBack \in MigrationBacks
      BY DEF Migrate!NoRun, Migrate!NoBack, MigrationRuns, MigrationBacks
    <2>2. migrating \in [Threads -> MigrationRuns] /\ back \in [Threads -> MigrationBacks]
      BY <2>1 DEF Migrate!Init
    <2>3. \A t \in Threads : migrating[t].stage = "none" /\ back[t].stage = "none"
      BY DEF Migrate!Init, Migrate!NoRun, Migrate!NoBack
    <2>4. /\ ups \in [Migrate!Names -> 0 .. MaxMigrationRuns]
          /\ downs \in [Migrate!Names -> Nat] /\ applied \in [Threads -> Nat]
          /\ registered \in [Threads -> 0 .. Count]
          /\ runs \in Nat /\ faults \in Nat /\ rollbacks \in 0 .. MaxRollbacks
      BY DEF Migrate!Init
    <2> QED
      BY <2>2, <2>3, <2>4 DEF Migrate!Init, MigrateTypes, Going, Undoing
  <1>3. UndoneOnce
    BY <1>1 DEF Migrate!Init, UndoneOnce
  <1>4. Attempted /\ Alone /\ Followed
    BY DEF Migrate!Init, Attempted, Alone, Followed, Migrate!NoRun, Migrate!NoBack, Going, Undoing
  <1>5. Migrate!OnceEach
    BY DEF Migrate!Init, Migrate!OnceEach, Migrate!NoRun, Migrate!NoBack
  <1> QED
    BY <1>2, <1>3, <1>4, <1>5 DEF MigrateInv

\* The run of a thread comes to its next stage.
LEMMA StageFacts ==
    ASSUME MigrateTypes, NEW t \in Threads,
           NEW s \in {"none", "create", "list", "next", "insert"}, Migrate!Stage(t, s)
    PROVE  /\ migrating' \in [Threads -> MigrationRuns]
           /\ \A u \in Threads : u # t => migrating'[u] = migrating[u]
           /\ migrating'[t].stage = s /\ migrating'[t].at = migrating[t].at
           /\ migrating'[t].known = migrating[t].known
  <1>1. migrating[t] \in MigrationRuns /\ DOMAIN migrating = Threads
    BY DEF MigrateTypes
  <1>2. migrating' = [migrating EXCEPT ![t] = [migrating[t] EXCEPT !.stage = s]]
    BY DEF Migrate!Stage
  <1>3. [migrating[t] EXCEPT !.stage = s] \in MigrationRuns
    BY <1>1 DEF MigrationRuns
  <1> QED
    BY <1>1, <1>2, <1>3 DEF MigrationRuns, MigrateTypes

\* What the rollbacks have still to undo is the same if no rollback moves.
LEMMA SameToUndo ==
    ASSUME UndoneOnce, UNCHANGED <<back, downs, rollbacks>>
    PROVE  UndoneOnce'
  BY DEF UndoneOnce, ToUndo

\* The driver is configured, and start() registers the migrations.
LEMMA ConfigureStep ==
    ASSUME MigrateInv, NEW t \in Threads,
           \/ Migrate!_db_configure(t) \/ Migrate!Configured(t)
           \/ Migrate!_db_register_migration(t)
    PROVE  MigrateInv'
  <1>1. /\ database' \in [Threads -> {"none", "connecting", "set"}]
        /\ registered' \in [Threads -> 0 .. Count]
        /\ UNCHANGED <<kind, migrating, applied, back, exists, recorded, ups, downs, tried,
                       runs, rollbacks, faults, overlapped>>
    <2>1. /\ database \in [Threads -> {"none", "connecting", "set"}]
          /\ registered \in [Threads -> 0 .. Count] /\ Count \in Nat
      BY MigrateAssumption DEF MigrateInv, MigrateTypes
    <2> QED
      BY <2>1 DEF Migrate!_db_configure, Migrate!Configured,
         Migrate!_db_register_migration, Migrate!table, Migrate!bounds
  <1>2. MigrateTypes'
    BY <1>1 DEF MigrateInv, MigrateTypes, Going, Undoing
  <1>3. UndoneOnce'
    BY <1>1, SameToUndo DEF MigrateInv
  <1>4. Attempted' /\ Alone' /\ Followed'
    BY <1>1 DEF MigrateInv, Attempted, Alone, Followed, Going, Undoing
  <1>5. Migrate!OnceEach'
    BY <1>1 DEF MigrateInv, Migrate!OnceEach
  <1> QED
    BY <1>2, <1>3, <1>4, <1>5 DEF MigrateInv

\* A task that starts while another is under way is remembered (overlapped).
LEMMA StartsAlone ==
    ASSUME MigrateInv, Migrate!Starting
    PROVE  /\ overlapped' \in BOOLEAN /\ (~overlapped' => ~overlapped)
           /\ ~overlapped' => \A u \in Threads : ~Going(u) /\ ~Undoing(u)
  <1>1. overlapped \in BOOLEAN /\ overlapped' = (overlapped \/ Migrate!Busy # {})
    BY DEF Migrate!Starting, MigrateInv, MigrateTypes
  <1>2. \A u \in Threads : Going(u) \/ Undoing(u) => u \in Migrate!Busy
    BY DEF Migrate!Busy, Going, Undoing, Migrate!NoRun, Migrate!NoBack
  <1> QED
    BY <1>1, <1>2

LEMMA RunStartStep ==
    ASSUME MigrateInv, NEW t \in Threads, Migrate!_db_run_migrations(t)
    PROVE  MigrateInv'
  <1>1. /\ migrating[t] = Migrate!NoRun /\ runs' = runs + 1 /\ Migrate!Starting
        /\ Migrate!Stage(t, "create")
        /\ UNCHANGED <<kind, database, registered, applied, back, exists, recorded, ups, downs,
                       tried, rollbacks, faults>>
    BY DEF Migrate!_db_run_migrations, Migrate!table
  <1>2. /\ migrating' \in [Threads -> MigrationRuns]
        /\ \A u \in Threads : u # t => migrating'[u] = migrating[u]
        /\ migrating'[t].stage = "create" /\ migrating'[t].at = 0
        /\ migrating'[t].known = {}
    BY <1>1, StageFacts DEF MigrateInv, Migrate!NoRun
  <1>3. /\ overlapped' \in BOOLEAN /\ (~overlapped' => ~overlapped)
        /\ ~overlapped' => \A u \in Threads : ~Going(u) /\ ~Undoing(u)
    BY <1>1, StartsAlone
  <1>4. MigrateTypes'
    <2>1. \A u \in Threads : ~Going(u)' => migrating'[u] = Migrate!NoRun
      BY <1>2 DEF MigrateInv, MigrateTypes, Going
    <2>2. \A u \in Threads :
             migrating'[u].stage = "insert" => migrating'[u].at \in Migrate!Names
      BY <1>2 DEF MigrateInv, MigrateTypes
    <2> QED
      BY <1>1, <1>2, <1>3, <2>1, <2>2 DEF MigrateInv, MigrateTypes, Undoing
  <1>5. UndoneOnce'
    BY <1>1, SameToUndo DEF MigrateInv
  <1>6. Attempted'
    BY <1>1, <1>2 DEF MigrateInv, Attempted
  <1>7. Alone'
    BY <1>1, <1>2, <1>3 DEF Alone, Going, Undoing
  <1>8. Followed'
    BY <1>1, <1>2, <1>3 DEF MigrateInv, Followed
  <1>9. Migrate!OnceEach'
    BY <1>1, <1>2, <1>3 DEF MigrateInv, Migrate!OnceEach, Migrate!NoRun
  <1> QED
    BY <1>4, <1>5, <1>6, <1>7, <1>8, <1>9 DEF MigrateInv

\* A fault leaves nothing to claim of how often a migration is executed.
LEMMA FaultFacts ==
    ASSUME MigrateInv, Migrate!Fault
    PROVE  /\ faults' \in Nat /\ faults' # 0
           /\ UNCHANGED <<runs, rollbacks, overlapped>>
  BY DEF Migrate!Fault, MigrateInv, MigrateTypes

\* A run goes on: the other tasks stay as they are.
LEMMA RunMoves ==
    ASSUME MigrateInv, NEW t \in Threads, Going(t),
           \A u \in Threads : u # t => migrating'[u] = migrating[u],
           UNCHANGED <<back, downs, rollbacks, overlapped>>
    PROVE  /\ UndoneOnce' /\ Alone'
           /\ ~overlapped => \A u \in Threads : ~Undoing(u) /\ (u # t => ~Going(u))
  <1>1. UndoneOnce'
    BY SameToUndo DEF MigrateInv
  <1>2. Alone'
    BY DEF MigrateInv, Alone, Going, Undoing
  <1>3. ~overlapped => \A u \in Threads : ~Undoing(u) /\ (u # t => ~Going(u))
    BY DEF MigrateInv, Alone
  <1> QED
    BY <1>1, <1>2, <1>3

LEMMA CreateTableStep ==
    ASSUME MigrateInv, NEW t \in Threads, Migrate!CreateTable(t)
    PROVE  MigrateInv'
  <1>1. /\ migrating[t].stage = "create" /\ Going(t) /\ Migrate!Stage(t, "list")
        /\ UNCHANGED <<kind, database, registered, applied, back, recorded, ups, downs, tried>>
    BY DEF Migrate!CreateTable, Going
  <1>2. /\ migrating' \in [Threads -> MigrationRuns]
        /\ \A u \in Threads : u # t => migrating'[u] = migrating[u]
        /\ migrating'[t].stage = "list" /\ migrating'[t].at = migrating[t].at
        /\ migrating'[t].known = migrating[t].known
    BY <1>1, StageFacts DEF MigrateInv
  <1>3. /\ faults' \in Nat /\ exists' \in BOOLEAN /\ UNCHANGED <<runs, rollbacks, overlapped>>
        /\ (exists' /\ faults' = faults) \/ faults' # 0
    <2>1. CASE exists' = TRUE /\ UNCHANGED Migrate!bounds
      BY <2>1 DEF Migrate!bounds, MigrateInv, MigrateTypes
    <2>2. CASE Migrate!Fault /\ UNCHANGED exists
      BY <2>2, FaultFacts DEF MigrateInv, MigrateTypes
    <2> QED
      BY <2>1, <2>2 DEF Migrate!CreateTable
  <1>4. /\ UndoneOnce' /\ Alone'
        /\ ~overlapped => \A u \in Threads : ~Undoing(u) /\ (u # t => ~Going(u))
    BY <1>1, <1>2, <1>3, RunMoves
  <1>5. MigrateTypes'
    BY <1>1, <1>2, <1>3 DEF MigrateInv, MigrateTypes, Going, Undoing
  <1>6. Attempted'
    BY <1>1, <1>2 DEF MigrateInv, Attempted
  <1>7. Followed'
    BY <1>1, <1>2, <1>3 DEF MigrateInv, Followed
  <1>8. Migrate!OnceEach'
    BY <1>1, <1>2, <1>3 DEF MigrateInv, Migrate!OnceEach
  <1> QED
    BY <1>4, <1>5, <1>6, <1>7, <1>8 DEF MigrateInv

LEMMA ListStep ==
    ASSUME MigrateInv, NEW t \in Threads, Migrate!ListApplied(t)
    PROVE  MigrateInv'
  <1>1. /\ migrating[t].stage = "list" /\ Going(t)
        /\ UNCHANGED <<kind, database, registered, applied, back, exists, recorded, ups, downs,
                       tried>>
    BY DEF Migrate!ListApplied, Migrate!table, Going
  <1>2. /\ migrating' \in [Threads -> MigrationRuns]
        /\ \A u \in Threads : u # t => migrating'[u] = migrating[u]
        /\ migrating'[t].stage = "next" /\ migrating'[t].at = migrating[t].at
        /\ faults' \in Nat /\ UNCHANGED <<runs, rollbacks, overlapped>>
        /\ \/ migrating'[t].known = recorded /\ faults' = faults
           \/ migrating'[t].known = migrating[t].known /\ faults' # 0
    <2>1. CASE Migrate!Fault /\ Migrate!Stage(t, "next")
      BY <2>1, FaultFacts, StageFacts DEF MigrateInv
    <2>2. CASE /\ migrating' = [migrating EXCEPT
                     ![t] = [migrating[t] EXCEPT !.stage = "next", !.known = recorded]]
               /\ UNCHANGED Migrate!bounds
      <3>1. migrating[t] \in MigrationRuns /\ recorded \subseteq Migrate!Names
        BY DEF MigrateInv, MigrateTypes
      <3>2. [migrating[t] EXCEPT !.stage = "next", !.known = recorded] \in MigrationRuns
        BY <3>1 DEF MigrationRuns
      <3>3. migrating' \in [Threads -> MigrationRuns]
        BY <2>2, <3>2 DEF MigrateInv, MigrateTypes
      <3>4. migrating'[t] = [migrating[t] EXCEPT !.stage = "next", !.known = recorded]
        BY <2>2 DEF MigrateInv, MigrateTypes
      <3> QED
        BY <2>2, <3>1, <3>3, <3>4 DEF MigrationRuns, Migrate!bounds, MigrateInv, MigrateTypes
    <2> QED
      BY <2>1, <2>2 DEF Migrate!ListApplied
  <1>3. /\ UndoneOnce' /\ Alone'
        /\ ~overlapped => \A u \in Threads : ~Undoing(u) /\ (u # t => ~Going(u))
    BY <1>1, <1>2, RunMoves
  <1>4. MigrateTypes'
    BY <1>1, <1>2 DEF MigrateInv, MigrateTypes, Going, Undoing
  <1>5. Attempted'
    BY <1>1, <1>2 DEF MigrateInv, Attempted
  <1>6. Followed'
    BY <1>1, <1>2, <1>3 DEF MigrateInv, Followed, Going, Undoing
  <1>7. Migrate!OnceEach'
    BY <1>1, <1>2 DEF MigrateInv, Migrate!OnceEach
  <1> QED
    BY <1>3, <1>4, <1>5, <1>6, <1>7 DEF MigrateInv

LEMMA LeastIsLeast ==
    ASSUME NEW S, S \subseteq Nat, S # {}
    PROVE  Migrate!Least(S) \in S /\ \A n \in S : Migrate!Least(S) <= n
  BY LeastNatural DEF Migrate!Least

\* The migration a run takes next: all before it have been attempted.
LEMMA NextFacts ==
    ASSUME MigrateInv, NEW t \in Threads, Migrate!AppliesNext(t),
           NEW m, m = Migrate!Least(Migrate!ToApply(t))
    PROVE  /\ m \in Migrate!Names /\ m > migrating[t].at /\ m \notin migrating[t].known
           /\ 1 .. m - 1 \subseteq tried
           /\ migrating[t].stage = "next" /\ Going(t)
  <1> USE MigrateAssumption DEF Migrate!Names
  <1>1. /\ Migrate!ToApply(t) \subseteq 1 .. Count /\ Migrate!ToApply(t) # {}
        /\ migrating[t].stage = "next"
    BY DEF Migrate!AppliesNext, Migrate!ToApply
  <1>2. m \in Migrate!ToApply(t) /\ \A n \in Migrate!ToApply(t) : m <= n
    BY <1>1, LeastIsLeast DEF Migrate!Names
  <1>3. /\ m \in 1 .. Count /\ m > migrating[t].at /\ m <= registered[t]
        /\ m \notin migrating[t].known
    BY <1>2 DEF Migrate!ToApply
  <1>4. \A n \in 1 .. m - 1 : n \in 1 .. migrating[t].at \/ n \in migrating[t].known
    <2>1. migrating[t].at \in 0 .. Count /\ registered[t] \in 0 .. Count
      BY DEF MigrateInv, MigrateTypes, MigrationRuns
    <2> QED
      BY <1>2, <1>3, <2>1 DEF Migrate!ToApply
  <1> QED
    BY <1>1, <1>3, <1>4 DEF MigrateInv, Attempted, Going

LEMMA RunUpStep ==
    ASSUME MigrateInv, NEW t \in Threads, Migrate!RunUp(t)
    PROVE  MigrateInv'
  <1> DEFINE m == Migrate!Least(Migrate!ToApply(t))
  <1>1. /\ m \in Migrate!Names /\ m > migrating[t].at /\ m \notin migrating[t].known
        /\ 1 .. m - 1 \subseteq tried /\ migrating[t].stage = "next" /\ Going(t)
    BY NextFacts DEF Migrate!RunUp
  <1>2. /\ migrating' = [migrating EXCEPT
                            ![t] = [migrating[t] EXCEPT !.stage = "insert", !.at = m]]
        /\ tried' = tried \cup {m}
        /\ UNCHANGED <<kind, database, registered, applied, back, exists, recorded, downs>>
        /\ \/ /\ kind[m] # "none" => ups[m] < MaxMigrationRuns
              /\ ups' = [ups EXCEPT ![m] = IF kind[m] = "none" THEN @ ELSE @ + 1]
              /\ UNCHANGED Migrate!bounds
           \/ kind[m] = "sql" /\ Migrate!Fault /\ UNCHANGED ups
    BY DEF Migrate!RunUp
  <1> HIDE DEF m
  <1>3. /\ migrating' \in [Threads -> MigrationRuns]
        /\ \A u \in Threads : u # t => migrating'[u] = migrating[u]
        /\ migrating'[t].stage = "insert" /\ migrating'[t].at = m
        /\ migrating'[t].known = migrating[t].known
    <2>1. migrating[t] \in MigrationRuns /\ DOMAIN migrating = Threads
      BY DEF MigrateInv, MigrateTypes
    <2>2. m \in 0 .. Count
      BY <1>1, MigrateAssumption DEF Migrate!Names
    <2>3. [migrating[t] EXCEPT !.stage = "insert", !.at = m] \in MigrationRuns
      BY <2>1, <2>2 DEF MigrationRuns
    <2> QED
      BY <1>2, <2>1, <2>3 DEF MigrationRuns, MigrateInv, MigrateTypes
  <1>4. /\ ups' \in [Migrate!Names -> 0 .. MaxMigrationRuns] /\ faults' \in Nat
        /\ UNCHANGED <<runs, rollbacks, overlapped>>
        /\ \/ ups' = [ups EXCEPT ![m] = @ + 1] /\ faults' = faults
           \/ faults' # 0
    <2>1. CASE Migrate!Fault /\ UNCHANGED ups
      BY <2>1, FaultFacts DEF MigrateInv, MigrateTypes
    <2>2. CASE /\ kind[m] # "none" => ups[m] < MaxMigrationRuns
               /\ ups' = [ups EXCEPT ![m] = IF kind[m] = "none" THEN @ ELSE @ + 1]
               /\ UNCHANGED Migrate!bounds
      <3>1. kind[m] # "none" /\ ups[m] \in 0 .. MaxMigrationRuns
        BY <1>1 DEF MigrateInv, MigrateTypes
      <3>2. ups' = [ups EXCEPT ![m] = @ + 1] /\ ups[m] + 1 \in 0 .. MaxMigrationRuns
        BY <2>2, <3>1, MigrateAssumption
      <3>3. UNCHANGED <<runs, rollbacks, faults, overlapped>>
        BY <2>2 DEF Migrate!bounds
      <3> QED
        BY <3>2, <3>3 DEF MigrateInv, MigrateTypes
    <2> QED
      BY <1>2, <2>1, <2>2
  <1>5. /\ UndoneOnce' /\ Alone'
        /\ ~overlapped => \A u \in Threads : ~Undoing(u) /\ (u # t => ~Going(u))
    BY <1>1, <1>2, <1>3, <1>4, RunMoves
  <1>6. MigrateTypes'
    BY <1>1, <1>2, <1>3, <1>4 DEF MigrateInv, MigrateTypes, Going, Undoing
  <1>7. Attempted'
    <2>1. m \in Nat /\ 1 .. m \subseteq tried'
      BY <1>1, <1>2 DEF Migrate!Names
    <2>2. tried \subseteq tried' /\ recorded' \subseteq tried'
      BY <1>2 DEF MigrateInv, Attempted
    <2>3. \A n \in tried' : 1 .. n - 1 \subseteq tried'
      BY <1>1, <1>2, <2>2 DEF MigrateInv, Attempted
    <2>4. \A u \in Threads : /\ migrating'[u].known \subseteq tried'
                             /\ 1 .. migrating'[u].at \subseteq tried'
      BY <1>3, <2>1, <2>2 DEF MigrateInv, Attempted
    <2> QED
      BY <2>2, <2>3, <2>4 DEF Attempted
  <1>8. Followed'
    <2> SUFFICES ASSUME ~overlapped, faults' = faults, faults = 0 PROVE Followed'
      BY <1>4 DEF Followed
    <2>1. exists /\ m \notin recorded
      BY <1>1 DEF MigrateInv, Followed
    <2>2. \A n \in Migrate!Names :
             n > m => (n \in migrating[t].known <=> n \in recorded)
      <3>1. m \in Nat /\ migrating[t].at \in Nat /\ Migrate!Names \subseteq Nat
        BY <1>1 DEF MigrateInv, MigrateTypes, MigrationRuns, Migrate!Names
      <3> QED
        BY <1>1, <3>1 DEF MigrateInv, Followed
    <2>3. \A u \in Threads : u # t =>
             migrating'[u].stage = "none" /\ back'[u].stage = "none"
      BY <1>2, <1>3, <1>5 DEF Going, Undoing
    <2>4. back'[t].stage = "none"
      BY <1>2, <1>5 DEF Undoing
    <2> QED
      BY <1>2, <1>3, <2>1, <2>2, <2>3, <2>4 DEF Followed
  <1>9. Migrate!OnceEach'
    <2> SUFFICES ASSUME ~overlapped, faults' = faults, faults = 0 PROVE Migrate!OnceEach'
      BY <1>4 DEF Migrate!OnceEach
    <2>1. m \notin recorded /\ ups' = [ups EXCEPT ![m] = @ + 1]
      BY <1>1, <1>4 DEF MigrateInv, Followed
    <2>2. \A u \in Threads : back[u].stage = "none" /\ migrating[u].stage # "insert"
      BY <1>1, <1>5 DEF Going, Undoing
    <2>3. \A n \in Migrate!Names :
             kind[n] # "none" => ups[n] - downs[n] = IF n \in recorded THEN 1 ELSE 0
      BY <2>2 DEF MigrateInv, Migrate!OnceEach
    <2>4. \A n \in Migrate!Names :
             /\ ups'[n] = IF n = m THEN ups[n] + 1 ELSE ups[n]
             /\ ups[n] \in Nat /\ downs[n] \in Nat
      BY <1>1, <2>1 DEF MigrateInv, MigrateTypes
    <2>5. \A n \in Migrate!Names : kind[n] # "none" =>
             ups'[n] - downs[n] = IF n \in recorded \/ n = m THEN 1 ELSE 0
      BY <2>1, <2>3, <2>4
    <2>6. \A n : (\E u \in Threads : migrating'[u].stage = "insert" /\ migrating'[u].at = n)
                    <=> n = m
      BY <1>3, <2>2
    <2>7. \A n : ~\E u \in Threads : back[u].stage = "delete" /\ back[u].at = n
      BY <2>2
    <2> QED
      BY <1>2, <2>5, <2>6, <2>7 DEF Migrate!OnceEach
  <1> QED
    BY <1>5, <1>6, <1>7, <1>8, <1>9 DEF MigrateInv

\* A run ends, as nothing is left to apply or as an export has thrown.
LEMMA FinishStep ==
    ASSUME MigrateInv, NEW t \in Threads, Migrate!UpThrows(t) \/ Migrate!RunEnds(t)
    PROVE  MigrateInv'
  <1>1. /\ migrating[t].stage = "next" /\ Going(t)
        /\ migrating' = [migrating EXCEPT ![t] = Migrate!NoRun]
        /\ applied' = [applied EXCEPT ![t] = migrating[t].count]
        /\ UNCHANGED <<kind, database, registered, back, exists, recorded, ups, downs, tried>>
    BY DEF Migrate!UpThrows, Migrate!RunEnds, Migrate!AppliesNext, Migrate!Finish,
       Migrate!table, Going
  <1>2. /\ migrating' \in [Threads -> MigrationRuns]
        /\ \A u \in Threads : u # t => migrating'[u] = migrating[u]
        /\ migrating'[t] = Migrate!NoRun /\ migrating'[t].stage = "none"
        /\ migrating'[t].at = 0 /\ migrating'[t].known = {}
        /\ applied' \in [Threads -> Nat]
    <2>1. Migrate!NoRun \in MigrationRuns
      BY MigrateAssumption DEF Migrate!NoRun, MigrationRuns
    <2>2. migrating[t].count \in Nat
      BY DEF MigrateInv, MigrateTypes, MigrationRuns
    <2> QED
      BY <1>1, <2>1, <2>2 DEF MigrateInv, MigrateTypes, Migrate!NoRun
  <1>3. /\ faults' \in Nat /\ UNCHANGED <<runs, rollbacks, overlapped>>
        /\ faults' = faults \/ faults' # 0
    <2>1. CASE Migrate!Fault
      BY <2>1, FaultFacts
    <2>2. CASE UNCHANGED Migrate!bounds
      BY <2>2 DEF Migrate!bounds, MigrateInv, MigrateTypes
    <2> QED
      BY <2>1, <2>2 DEF Migrate!UpThrows, Migrate!RunEnds
  <1>4. /\ UndoneOnce' /\ Alone'
        /\ ~overlapped => \A u \in Threads : ~Undoing(u) /\ (u # t => ~Going(u))
    BY <1>1, <1>2, <1>3, RunMoves
  <1>5. MigrateTypes'
    BY <1>1, <1>2, <1>3 DEF MigrateInv, MigrateTypes, Going, Undoing
  <1>6. Attempted'
    BY <1>1, <1>2 DEF MigrateInv, Attempted
  <1>7. Followed'
    BY <1>1, <1>2, <1>3 DEF MigrateInv, Followed
  <1>8. Migrate!OnceEach'
    BY <1>1, <1>2, <1>3 DEF MigrateInv, Migrate!OnceEach
  <1> QED
    BY <1>4, <1>5, <1>6, <1>7, <1>8 DEF MigrateInv

LEMMA InsertStep ==
    ASSUME MigrateInv, NEW t \in Threads, Migrate!InsertRow(t)
    PROVE  MigrateInv'
  <1> DEFINE m == migrating[t].at
  <1>1. /\ migrating[t].stage = "insert" /\ Going(t) /\ m \in Migrate!Names
        /\ migrating' = [migrating EXCEPT
               ![t] = [migrating[t] EXCEPT !.stage = "next", !.count = migrating[t].count + 1]]
        /\ UNCHANGED <<kind, database, registered, applied, back, exists, ups, downs, tried>>
    BY DEF Migrate!InsertRow, Going, MigrateInv, MigrateTypes
  <1>2. /\ migrating' \in [Threads -> MigrationRuns]
        /\ \A u \in Threads : u # t => migrating'[u] = migrating[u]
        /\ migrating'[t].stage = "next" /\ migrating'[t].at = m
        /\ migrating'[t].known = migrating[t].known
    <2>1. migrating[t] \in MigrationRuns /\ DOMAIN migrating = Threads
      BY DEF MigrateInv, MigrateTypes
    <2>2. migrating[t].count + 1 \in Nat
      BY <2>1 DEF MigrationRuns
    <2>3. [migrating[t] EXCEPT !.stage = "next", !.count = migrating[t].count + 1]
             \in MigrationRuns
      BY <2>1, <2>2 DEF MigrationRuns
    <2> QED
      BY <1>1, <2>1, <2>3 DEF MigrationRuns, MigrateInv, MigrateTypes
  <1>3. /\ faults' \in Nat /\ UNCHANGED <<runs, rollbacks, overlapped>>
        /\ recorded' = recorded \cup {m} \/ recorded' = recorded
        /\ \/ exists /\ recorded' = recorded \cup {m} /\ faults' = faults
           \/ ~exists /\ recorded' = recorded /\ faults' = faults
           \/ faults' # 0
    <2>1. CASE Migrate!Fault /\ UNCHANGED recorded
      BY <2>1, FaultFacts
    <2>2. CASE /\ UNCHANGED Migrate!bounds
               /\ \/ exists /\ recorded' = recorded \cup {m}
                  \/ ~exists /\ recorded' = recorded
      BY <2>2 DEF Migrate!bounds, MigrateInv, MigrateTypes
    <2> QED
      BY <2>1, <2>2 DEF Migrate!InsertRow, Migrate!bounds
  <1>4. /\ UndoneOnce' /\ Alone'
        /\ ~overlapped => \A u \in Threads : ~Undoing(u) /\ (u # t => ~Going(u))
    BY <1>1, <1>2, <1>3, RunMoves
  <1>5. MigrateTypes'
    BY <1>1, <1>2, <1>3 DEF MigrateInv, MigrateTypes, Going, Undoing
  <1>6. Attempted'
    <2>1. m \in tried
      BY <1>1 DEF MigrateInv, Attempted, Migrate!Names
    <2> QED
      BY <1>1, <1>2, <1>3, <2>1 DEF MigrateInv, Attempted
  <1>7. CASE ~overlapped /\ faults' = faults /\ faults = 0
    <2>1. recorded' = recorded \cup {m} /\ m \notin recorded
      BY <1>1, <1>3, <1>7 DEF MigrateInv, Followed
    <2>2. \A u \in Threads : back[u].stage = "none" /\ (u # t => migrating[u].stage = "none")
      BY <1>4, <1>7 DEF Going, Undoing
    <2>3. Followed'
      <3>1. m \in Nat /\ Migrate!Names \subseteq Nat
        BY <1>1 DEF Migrate!Names
      <3>2. \A n \in Migrate!Names :
               n > m => (n \in migrating[t].known <=> n \in recorded')
        BY <1>1, <1>7, <2>1, <3>1 DEF MigrateInv, Followed
      <3> QED
        BY <1>1, <1>2, <1>7, <2>2, <3>2 DEF MigrateInv, Followed
    <2>4. \A n : (\E u \in Threads : migrating[u].stage = "insert" /\ migrating[u].at = n)
                    <=> n = m
      BY <1>1, <2>2
    <2>5. \A u \in Threads : migrating'[u].stage # "insert"
      BY <1>2, <2>2
    <2>6. Migrate!OnceEach'
      BY <1>1, <1>7, <2>1, <2>2, <2>4, <2>5 DEF MigrateInv, Migrate!OnceEach
    <2> QED
      BY <1>4, <1>5, <1>6, <2>3, <2>6 DEF MigrateInv
  <1>8. CASE ~(~overlapped /\ faults' = faults /\ faults = 0)
    <2>1. Followed' /\ Migrate!OnceEach'
      BY <1>3, <1>8 DEF Followed, Migrate!OnceEach
    <2> QED
      BY <1>4, <1>5, <1>6, <2>1 DEF MigrateInv
  <1> QED
    BY <1>7, <1>8

-----------------------------------------------------------------------------
\* A rollback starts: one more to undo.
LEMMA RollbackStartStep ==
    ASSUME MigrateInv, NEW t \in Threads, NEW m \in Migrate!Names,
           Migrate!_db_rollback_migration(t, m)
    PROVE  MigrateInv'
  <1>1. /\ back[t] = Migrate!NoBack /\ back[t].stage = "none"
        /\ rollbacks < MaxRollbacks /\ rollbacks' = rollbacks + 1 /\ Migrate!Starting
        /\ back' = [back EXCEPT ![t] = [stage |-> "check", at |-> m]]
        /\ UNCHANGED <<kind, database, registered, migrating, applied, exists, recorded, ups,
                       downs, tried, runs, faults>>
    BY DEF Migrate!_db_rollback_migration, Migrate!table, Migrate!NoBack
  <1>2. /\ back' \in [Threads -> MigrationBacks]
        /\ \A u \in Threads : u # t => back'[u] = back[u]
        /\ back'[t].stage = "check" /\ back'[t].at = m
    <2>1. [stage |-> "check", at |-> m] \in MigrationBacks
      BY MigrateAssumption DEF MigrationBacks, Migrate!Names
    <2> QED
      BY <1>1, <2>1 DEF MigrateInv, MigrateTypes
  <1>3. /\ overlapped' \in BOOLEAN /\ (~overlapped' => ~overlapped)
        /\ ~overlapped' => \A u \in Threads : ~Going(u) /\ ~Undoing(u)
    BY <1>1, StartsAlone
  <1>4. MigrateTypes'
    <2>1. rollbacks' \in 0 .. MaxRollbacks
      BY <1>1, MigrateAssumption DEF MigrateInv, MigrateTypes
    <2> QED
      BY <1>1, <1>2, <1>3, <2>1 DEF MigrateInv, MigrateTypes, Going, Undoing
  <1>5. UndoneOnce'
    <2>1. ToUndo' = ToUndo \cup {t} /\ t \notin ToUndo
      BY <1>1, <1>2 DEF ToUndo
    <2>2. IsFiniteSet(ToUndo)
      BY MigrateAssumption, FS_Subset DEF ToUndo
    <2>3. Cardinality(ToUndo) \in Nat /\ Cardinality(ToUndo') = Cardinality(ToUndo) + 1
      BY <2>1, <2>2, FS_AddElement, FS_CardinalityType
    <2>4. rollbacks \in Nat /\ downs \in [Migrate!Names -> Nat]
      BY DEF MigrateInv, MigrateTypes
    <2> QED
      BY <1>1, <2>3, <2>4 DEF MigrateInv, UndoneOnce
  <1>6. Attempted'
    BY <1>1 DEF MigrateInv, Attempted
  <1>7. Alone'
    BY <1>1, <1>2, <1>3 DEF Alone, Going, Undoing
  <1>8. Followed'
    BY <1>1, <1>2, <1>3 DEF MigrateInv, Followed
  <1>9. Migrate!OnceEach'
    BY <1>1, <1>2, <1>3 DEF MigrateInv, Migrate!OnceEach, Migrate!NoBack
  <1> QED
    BY <1>4, <1>5, <1>6, <1>7, <1>8, <1>9 DEF MigrateInv

\* A rollback goes on: the other tasks stay as they are.
LEMMA BackMoves ==
    ASSUME MigrateInv, NEW t \in Threads, Undoing(t),
           \A u \in Threads : u # t => back'[u] = back[u],
           UNCHANGED <<migrating, overlapped>>
    PROVE  /\ Alone'
           /\ ~overlapped => \A u \in Threads : ~Going(u) /\ (u # t => ~Undoing(u))
  <1>1. Alone'
    BY DEF MigrateInv, Alone, Going, Undoing
  <1>2. ~overlapped => \A u \in Threads : ~Going(u) /\ (u # t => ~Undoing(u))
    BY DEF MigrateInv, Alone
  <1> QED
    BY <1>1, <1>2

\* It is one fewer to undo, once it has tried or has found nothing to undo.
LEMMA OneUndone ==
    ASSUME MigrateInv, NEW t \in ToUndo, t \notin ToUndo',
           \A u \in Threads : u # t => back'[u] = back[u]
    PROVE  /\ Cardinality(ToUndo') \in Nat
           /\ Cardinality(ToUndo) = Cardinality(ToUndo') + 1
  <1>1. ToUndo' = ToUndo \ {t}
    BY DEF ToUndo
  <1>2. IsFiniteSet(ToUndo)
    BY MigrateAssumption, FS_Subset DEF ToUndo
  <1>3. Cardinality(ToUndo') \in Nat /\ IsFiniteSet(ToUndo') /\ Cardinality(ToUndo) \in Nat
    BY <1>1, <1>2, FS_RemoveElement, FS_CardinalityType
  <1>4. Cardinality(ToUndo') = Cardinality(ToUndo) - 1
    BY <1>1, <1>2, FS_RemoveElement
  <1> QED
    BY <1>3, <1>4

LEMMA CheckAppliedStep ==
    ASSUME MigrateInv, NEW t \in Threads, Migrate!CheckApplied(t)
    PROVE  MigrateInv'
  <1>1. /\ back[t].stage = "check" /\ Undoing(t) /\ back[t].at \in Migrate!Names
        /\ back' = [back EXCEPT ![t] = IF back[t].at \in recorded
                                       THEN [back[t] EXCEPT !.stage = "down"]
                                       ELSE Migrate!NoBack]
        /\ UNCHANGED <<kind, database, registered, migrating, applied, exists, recorded, ups,
                       downs, tried, runs, rollbacks, faults, overlapped>>
    BY DEF Migrate!CheckApplied, Migrate!table, Migrate!bounds, Undoing, MigrateInv, MigrateTypes
  <1>2. /\ back' \in [Threads -> MigrationBacks]
        /\ \A u \in Threads : u # t => back'[u] = back[u]
        /\ \/ /\ back'[t].stage = "down" /\ back'[t].at = back[t].at
              /\ back[t].at \in recorded
           \/ back'[t] = Migrate!NoBack /\ back'[t].stage = "none"
    <2>1. back[t] \in MigrationBacks /\ Migrate!NoBack \in MigrationBacks
      BY MigrateAssumption DEF MigrateInv, MigrateTypes, Migrate!NoBack, MigrationBacks
    <2>2. [back[t] EXCEPT !.stage = "down"] \in MigrationBacks
      BY <2>1 DEF MigrationBacks
    <2>3. back' \in [Threads -> MigrationBacks]
      BY <1>1, <2>1, <2>2 DEF MigrateInv, MigrateTypes
    <2>4. back'[t] = IF back[t].at \in recorded
                     THEN [back[t] EXCEPT !.stage = "down"] ELSE Migrate!NoBack
      BY <1>1 DEF MigrateInv, MigrateTypes
    <2> QED
      BY <1>1, <2>1, <2>3, <2>4 DEF MigrateInv, MigrateTypes, Migrate!NoBack, MigrationBacks
  <1>3. /\ Alone'
        /\ ~overlapped => \A u \in Threads : ~Going(u) /\ (u # t => ~Undoing(u))
    BY <1>1, <1>2, BackMoves
  <1>4. MigrateTypes'
    BY <1>1, <1>2 DEF MigrateInv, MigrateTypes, Going, Undoing
  <1>5. UndoneOnce'
    <2>1. CASE back'[t].stage = "down"
      <3>1. ToUndo' = ToUndo
        BY <1>1, <1>2, <2>1 DEF ToUndo
      <3> QED
        BY <1>1, <3>1 DEF MigrateInv, UndoneOnce
    <2>2. CASE back'[t].stage = "none"
      <3>1. t \in ToUndo /\ t \notin ToUndo'
        BY <1>1, <2>2 DEF ToUndo
      <3>2. /\ Cardinality(ToUndo') \in Nat
            /\ Cardinality(ToUndo) = Cardinality(ToUndo') + 1
        BY <1>2, <3>1, OneUndone
      <3>3. rollbacks \in Nat /\ downs \in [Migrate!Names -> Nat]
        BY DEF MigrateInv, MigrateTypes
      <3> QED
        BY <1>1, <3>2, <3>3 DEF MigrateInv, UndoneOnce
    <2> QED
      BY <1>2, <2>1, <2>2
  <1>6. Attempted'
    BY <1>1 DEF MigrateInv, Attempted
  <1>7. Followed'
    BY <1>1, <1>2 DEF MigrateInv, Followed
  <1>8. Migrate!OnceEach'
    BY <1>1, <1>2 DEF MigrateInv, Migrate!OnceEach
  <1> QED
    BY <1>3, <1>4, <1>5, <1>6, <1>7, <1>8 DEF MigrateInv

LEMMA RunDownStep ==
    ASSUME MigrateInv, NEW t \in Threads, Migrate!RunDown(t)
    PROVE  MigrateInv'
  <1> DEFINE m == back[t].at
  <1>1. /\ back[t].stage = "down" /\ Undoing(t) /\ m \in Migrate!Names /\ kind[m] # "none"
        /\ UNCHANGED <<kind, database, registered, migrating, applied, exists, recorded, ups,
                       tried>>
        /\ \/ /\ downs' = [downs EXCEPT ![m] = IF kind[m] = "none" THEN @ ELSE @ + 1]
              /\ back' = [back EXCEPT ![t].stage = "delete"] /\ UNCHANGED Migrate!bounds
           \/ /\ Migrate!Fault /\ UNCHANGED downs
              /\ back' = [back EXCEPT ![t] = IF kind[m] = "wasm" THEN Migrate!NoBack
                                             ELSE [@ EXCEPT !.stage = "delete"]]
    BY DEF Migrate!RunDown, Undoing, MigrateInv, MigrateTypes
  <1>2. back[t] \in MigrationBacks /\ Migrate!NoBack \in MigrationBacks
    BY MigrateAssumption DEF MigrateInv, MigrateTypes, Migrate!NoBack, MigrationBacks
  <1>3. [back[t] EXCEPT !.stage = "delete"] \in MigrationBacks
    BY <1>2 DEF MigrationBacks
  <1>4. /\ back' \in [Threads -> MigrationBacks]
        /\ \A u \in Threads : u # t => back'[u] = back[u]
        /\ \/ back'[t].stage = "delete" /\ back'[t].at = m
           \/ back'[t] = Migrate!NoBack /\ back'[t].stage = "none" /\ Migrate!Fault
    <2>1. CASE back' = [back EXCEPT ![t].stage = "delete"]
      BY <1>2, <1>3, <2>1 DEF MigrateInv, MigrateTypes, MigrationBacks
    <2>2. CASE /\ Migrate!Fault
               /\ back' = [back EXCEPT ![t] = IF kind[m] = "wasm" THEN Migrate!NoBack
                                              ELSE [@ EXCEPT !.stage = "delete"]]
      <3>1. CASE kind[m] = "wasm"
        <4>1. back' = [back EXCEPT ![t] = Migrate!NoBack]
          BY <2>2, <3>1
        <4> QED
          BY <1>2, <2>2, <4>1 DEF MigrateInv, MigrateTypes, Migrate!NoBack
      <3>2. CASE kind[m] # "wasm"
        <4>1. back' = [back EXCEPT ![t] = [back[t] EXCEPT !.stage = "delete"]]
          BY <2>2, <3>2
        <4> QED
          BY <1>2, <1>3, <4>1 DEF MigrateInv, MigrateTypes, MigrationBacks
      <3> QED
        BY <3>1, <3>2
    <2> QED
      BY <1>1, <2>1, <2>2
  <1>5. /\ UNCHANGED <<runs, rollbacks, overlapped>>
        /\ \/ downs' = [downs EXCEPT ![m] = @ + 1] /\ faults' = faults
              /\ back'[t].stage = "delete" /\ back'[t].at = m
           \/ downs' = downs /\ faults' \in Nat /\ faults' # 0
    <2>1. CASE Migrate!Fault /\ UNCHANGED downs
      BY <2>1, FaultFacts
    <2>2. CASE /\ downs' = [downs EXCEPT ![m] = IF kind[m] = "none" THEN @ ELSE @ + 1]
               /\ back' = [back EXCEPT ![t].stage = "delete"] /\ UNCHANGED Migrate!bounds
      <3>1. downs' = [downs EXCEPT ![m] = @ + 1]
        BY <1>1, <2>2
      <3>2. UNCHANGED <<runs, rollbacks, faults, overlapped>>
        BY <2>2 DEF Migrate!bounds
      <3>3. back'[t].stage = "delete" /\ back'[t].at = m
        BY <1>2, <2>2 DEF MigrateInv, MigrateTypes, MigrationBacks
      <3> QED
        BY <3>1, <3>2, <3>3
    <2> QED
      BY <1>1, <2>1, <2>2
  <1>6. /\ Alone'
        /\ ~overlapped => \A u \in Threads : ~Going(u) /\ (u # t => ~Undoing(u))
    BY <1>1, <1>4, <1>5, BackMoves
  <1>7. MigrateTypes'
    <2>1. downs' \in [Migrate!Names -> Nat] /\ faults' \in Nat
      BY <1>5 DEF MigrateInv, MigrateTypes
    <2> QED
      BY <1>1, <1>4, <1>5, <2>1 DEF MigrateInv, MigrateTypes, Going, Undoing
  <1>8. UndoneOnce'
    <2>1. t \in ToUndo /\ t \notin ToUndo'
      BY <1>1, <1>4 DEF ToUndo
    <2>2. /\ Cardinality(ToUndo') \in Nat
          /\ Cardinality(ToUndo) = Cardinality(ToUndo') + 1
      BY <1>4, <2>1, OneUndone
    <2>3. /\ rollbacks \in Nat /\ rollbacks' = rollbacks
          /\ \A n \in Migrate!Names : downs[n] \in Nat /\ downs'[n] \in Nat
                                      /\ downs'[n] <= downs[n] + 1
      BY <1>1, <1>5 DEF MigrateInv, MigrateTypes
    <2> QED
      BY <2>2, <2>3 DEF MigrateInv, UndoneOnce
  <1>9. Attempted'
    BY <1>1 DEF MigrateInv, Attempted
  <1>10. CASE ~overlapped /\ faults' = faults /\ faults = 0
    <2>1. /\ downs' = [downs EXCEPT ![m] = @ + 1] /\ m \in recorded
          /\ back'[t].stage = "delete" /\ back'[t].at = m
      BY <1>1, <1>5, <1>10 DEF MigrateInv, Followed
    <2>2. \A u \in Threads : migrating[u].stage = "none" /\ (u # t => back[u].stage = "none")
      BY <1>6, <1>10 DEF Going, Undoing
    <2>3. Followed'
      BY <1>1, <1>4, <1>10, <2>1 DEF MigrateInv, Followed
    <2>4. \A n : (\E u \in Threads : back'[u].stage = "delete" /\ back'[u].at = n) <=> n = m
      BY <1>4, <2>1, <2>2
    <2>5. /\ \A u \in Threads : back[u].stage # "delete"
          /\ \A n : ~\E u \in Threads : migrating[u].stage = "insert" /\ migrating[u].at = n
      BY <1>1, <2>2
    <2>6. \A n \in Migrate!Names :
             /\ downs'[n] = IF n = m THEN downs[n] + 1 ELSE downs[n]
             /\ ups[n] \in Nat /\ downs[n] \in Nat
      BY <1>1, <2>1 DEF MigrateInv, MigrateTypes
    <2>7. \A n \in Migrate!Names :
             kind[n] # "none" => ups[n] - downs[n] = IF n \in recorded THEN 1 ELSE 0
      BY <1>10, <2>5 DEF MigrateInv, Migrate!OnceEach
    <2>8. \A n \in Migrate!Names : kind[n] # "none" =>
             ups[n] - downs'[n] = IF n \in recorded /\ n # m THEN 1 ELSE 0
      BY <2>1, <2>6, <2>7
    <2>9. Migrate!OnceEach'
      BY <1>1, <2>4, <2>5, <2>8 DEF Migrate!OnceEach
    <2> QED
      BY <1>6, <1>7, <1>8, <1>9, <2>3, <2>9 DEF MigrateInv
  <1>11. CASE ~(~overlapped /\ faults' = faults /\ faults = 0)
    <2>1. Followed' /\ Migrate!OnceEach'
      BY <1>5, <1>11 DEF Followed, Migrate!OnceEach
    <2> QED
      BY <1>6, <1>7, <1>8, <1>9, <2>1 DEF MigrateInv
  <1> QED
    BY <1>10, <1>11

LEMMA DeleteRowStep ==
    ASSUME MigrateInv, NEW t \in Threads, Migrate!DeleteRow(t)
    PROVE  MigrateInv'
  <1> DEFINE m == back[t].at
  <1>1. /\ back[t].stage = "delete" /\ Undoing(t) /\ m \in Migrate!Names
        /\ back' = [back EXCEPT ![t] = Migrate!NoBack]
        /\ UNCHANGED <<kind, database, registered, migrating, applied, exists, ups, downs, tried>>
    BY DEF Migrate!DeleteRow, Undoing, MigrateInv, MigrateTypes
  <1>2. /\ back' \in [Threads -> MigrationBacks]
        /\ \A u \in Threads : u # t => back'[u] = back[u]
        /\ back'[t] = Migrate!NoBack /\ back'[t].stage = "none"
    <2>1. Migrate!NoBack \in MigrationBacks
      BY MigrateAssumption DEF Migrate!NoBack, MigrationBacks
    <2> QED
      BY <1>1, <2>1 DEF MigrateInv, MigrateTypes, Migrate!NoBack
  <1>3. /\ faults' \in Nat /\ UNCHANGED <<runs, rollbacks, overlapped>>
        /\ recorded' \subseteq recorded
        /\ \/ recorded' = recorded \ {m} /\ faults' = faults
           \/ faults' # 0
    <2>1. CASE Migrate!Fault /\ UNCHANGED recorded
      BY <2>1, FaultFacts
    <2>2. CASE recorded' = recorded \ {m} /\ UNCHANGED Migrate!bounds
      BY <2>2 DEF Migrate!bounds, MigrateInv, MigrateTypes
    <2> QED
      BY <2>1, <2>2 DEF Migrate!DeleteRow
  <1>4. /\ Alone'
        /\ ~overlapped => \A u \in Threads : ~Going(u) /\ (u # t => ~Undoing(u))
    BY <1>1, <1>2, <1>3, BackMoves
  <1>5. MigrateTypes'
    BY <1>1, <1>2, <1>3 DEF MigrateInv, MigrateTypes, Going, Undoing
  <1>6. UndoneOnce'
    <2>1. ToUndo' = ToUndo
      BY <1>1, <1>2 DEF ToUndo
    <2> QED
      BY <1>1, <1>3, <2>1 DEF MigrateInv, UndoneOnce
  <1>7. Attempted'
    BY <1>1, <1>3 DEF MigrateInv, Attempted
  <1>8. CASE ~overlapped /\ faults' = faults /\ faults = 0
    <2>1. /\ recorded' = recorded \ {m}
          /\ \A u \in Threads : migrating[u].stage = "none" /\ back'[u].stage = "none"
      BY <1>2, <1>3, <1>4, <1>8 DEF Going, Undoing
    <2>2. Followed'
      BY <1>1, <2>1 DEF Followed
    <2>3. \A n : (\E u \in Threads : back[u].stage = "delete" /\ back[u].at = n) <=> n = m
      BY <1>1, <1>4, <1>8 DEF Undoing
    <2>4. \A u \in Threads : migrating[u].stage # "insert" /\ back'[u].stage # "delete"
      BY <2>1
    <2>5. Migrate!OnceEach'
      BY <1>1, <1>8, <2>1, <2>3, <2>4 DEF MigrateInv, Migrate!OnceEach
    <2> QED
      BY <1>4, <1>5, <1>6, <1>7, <2>2, <2>5 DEF MigrateInv
  <1>9. CASE ~(~overlapped /\ faults' = faults /\ faults = 0)
    <2>1. Followed' /\ Migrate!OnceEach'
      BY <1>3, <1>9 DEF Followed, Migrate!OnceEach
    <2> QED
      BY <1>4, <1>5, <1>6, <1>7, <2>1 DEF MigrateInv
  <1> QED
    BY <1>8, <1>9

LEMMA MigrateInvariant == MCSpec => []MigrateInv
  <1>1. MigrateInv /\ [MCNext]_allVars => MigrateInv'
    <2> SUFFICES ASSUME MigrateInv, [MCNext]_allVars PROVE MigrateInv'
      OBVIOUS
    <2>1. CASE UNCHANGED migrateVars
      <3>1. MigrateTypes' /\ UndoneOnce'
        BY <2>1 DEF migrateVars, MigrateInv, MigrateTypes, UndoneOnce, ToUndo, Going, Undoing
      <3>2. Attempted' /\ Alone' /\ Followed'
        BY <2>1 DEF migrateVars, MigrateInv, Attempted, Alone, Followed, Going, Undoing
      <3>3. Migrate!OnceEach'
        BY <2>1 DEF migrateVars, MigrateInv, Migrate!OnceEach
      <3> QED
        BY <3>1, <3>2, <3>3 DEF MigrateInv
    <2>2. CASE Migrate!Next
      BY <2>2, ConfigureStep, RunStartStep, CreateTableStep, ListStep, RunUpStep, FinishStep,
         InsertStep, RollbackStartStep, CheckAppliedStep, RunDownStep, DeleteRowStep
         DEF Migrate!Next
    <2> QED
      BY <2>1, <2>2 DEF MCNext, allVars
  <1> QED
    BY <1>1, MigrateInvInit, PTL DEF MCSpec

\* The table _migrations follows what bridge/migration.ts has executed, for any number of
\* threads and migrations: nothing is recorded that was not attempted nor attempted
\* before all earlier ones, and without overlapping tasks and failed statements a
\* migration has been executed once if it is recorded and not at all, or undone, if not.
THEOREM MigrationsFollow == MCSpec => []MigrationsRecorded
  <1>1. MigrateInv => MigrationsRecorded
    BY DEF MigrateInv, Attempted, MigrationsRecorded, Migrate!MigrationsRecorded, Migrate!InOrder
  <1> QED
    BY <1>1, MigrateInvariant, PTL

-----------------------------------------------------------------------------
(***************************************************************************)
(* The MySQL channel.  As long as no call has raced, the message of a call *)
(* is read before the next call begins (Asked), so that its handler has    *)
(* learnt the sequence number and the operation of the same call (Known);  *)
(* a handler that writes is the one of the current call, which has not     *)
(* given up (Writes), since all others hold an older number than reqSeq    *)
(* (SeqCurrent); and the buffer belongs to one of the two threads at a     *)
(* time (Buffer).  A call that is woken by the notify of an earlier        *)
(* response began before that notify, and finds respSeq too low until its  *)
(* own response is there.                                                  *)
(***************************************************************************)
Writing == {"data", "len", "seq", "done"}
Reading == {"readLen", "readData", "release"}
Sending == {"data", "len", "state", "post"}
Waiting == {"wait", "blocked"}

\* The current call has timed out.
GivenUp == driver = "timeout" \/ (driver = "idle" /\ call # 0 /\ result[call] = TimedOut)

\* Its response is there, or all of it but the word DONE.
Answered == handler[call] = "finished" \/ (worker = "done" /\ current = call)

ChannelTypes ==
    /\ TypeOK
    /\ driver # "idle" => call # 0
    /\ worker = "idle" <=> current = None
    /\ seq <= 2 * call /\ (driver \notin {"idle", "timeout"} => seq < 2 * call)

Asked ==
    /\ \A h \in Calls : h > call => handler[h] = "none"
    /\ \A h \in Calls : handler[h] = "posted" => h = call
    /\ driver \in Sending => handler[call] = "none"
    /\ driver \in {"timeout", "check"} \cup Waiting \cup Reading => handler[call] # "none"
    /\ driver \in Reading => Answered
    /\ GivenUp => handler[call] \in {"running", "finished"}

Known ==
    \A h \in Calls :
        /\ handler[h] \in {"running", "finished"} =>
              /\ answer[h] = Response(h)
              /\ IF h = call THEN captured[h] = mySeq ELSE captured[h] < mySeq
        /\ started[h] = IF handler[h] \in {"running", "finished"} THEN 1 ELSE 0
        /\ \/ result[h] \in {NoResult, TimedOut, Response(h)}
           \/ result[h] = StaleSeen /\ h \in hurried
        /\ h > call \/ (h = call /\ driver # "idle") => result[h] # TimedOut

SeqCurrent ==
    /\ reqSeq = seq
    /\ IF GivenUp THEN seq > mySeq ELSE seq = mySeq

Writes ==
    /\ worker # "check"
    /\ worker \in {"readLen", "readData"} =>
          current = call /\ handler[call] = "posted" /\ captured[call] = mySeq
    /\ worker = "readData" => wLen = Request(call)
    /\ worker \in Writing =>
          /\ current = call /\ handler[call] = "running"
          /\ driver \notin Sending /\ ~GivenUp
    /\ worker \in {"len", "seq", "done"} => data = Response(call)
    /\ worker \in {"seq", "done"} => len = Response(call)
    /\ worker = "notify" =>
          \/ current = call /\ handler[call] = "finished"
          \/ current < call /\ call \in hurried

Buffer ==
    /\ driver \in {"len", "state", "post"} => data = Request(call)
    /\ driver \in {"state", "post"} => len = Request(call)
    /\ driver = "post" => state = PENDING
    /\ call # 0 /\ handler[call] = "posted" => data = Request(call) /\ len = Request(call)
    /\ driver \in Waiting /\ handler[call] # "finished" => state = PENDING
    /\ driver # "idle" /\ ~GivenUp =>
          /\ handler[call] = "finished" => data = Response(call) /\ len = Response(call)
          /\ respSeq = mySeq <=> Answered
    /\ driver = "check" /\ call \notin hurried => Answered
    /\ driver = "readData" => gotLen = Response(call)

Clean == Asked /\ Known /\ SeqCurrent /\ Writes /\ Buffer
ChannelInv == ChannelTypes /\ (raced \/ Clean)

LEMMA ChannelInvInit == MCInit => ChannelInv
  <1> SUFFICES ASSUME Init PROVE ChannelInv
    BY DEF MCInit
  <1>1. ChannelTypes
    <2>1. Garbled \in Contents /\ Failure \in Contents
      BY DEF Contents
    <2>2. /\ result \in [Calls -> Contents \cup {NoResult, TimedOut, StaleSeen}]
          /\ handler \in [Calls -> {"none", "posted", "running", "finished"}]
          /\ captured \in [Calls -> 0 .. seq] /\ answer \in [Calls -> Contents]
          /\ started \in [Calls -> Nat] /\ hurried \subseteq Calls
      BY <2>1 DEF Init
    <2>3. /\ seq \in 0 .. 2 * MaxCalls /\ reqSeq \in 0 .. seq /\ respSeq \in 0 .. seq
          /\ mySeq \in 0 .. seq /\ call \in 0 .. MaxCalls /\ seq <= 2 * call
      BY MaxCallsAssumption DEF Init
    <2> QED
      BY <2>1, <2>2, <2>3 DEF Init, ChannelTypes, TypeOK, DriverSteps, WorkerSteps
  <1>2. Clean
    <2>1. NoResult # TimedOut
      BY DEF NoResult, TimedOut
    <2> QED
      BY <2>1 DEF Init, Clean, Asked, Known, SeqCurrent, Writes, Buffer, Calls, Sending, Reading,
         Writing, Waiting, GivenUp, IDLE, PENDING
  <1> QED
    BY <1>1, <1>2 DEF ChannelInv

\* What a thread reads is a message.
LEMMA DecodeFacts ==
    ASSUME NEW b \in Contents, NEW l \in Contents
    PROVE  Decode(b, l) \subseteq Contents /\ Decode(b, b) = {b}
  BY DEF Decode, Contents

\* The outcomes of a call are told apart.
LEMMA OutcomesDiffer ==
    /\ TimedOut # NoResult /\ TimedOut # StaleSeen
    /\ \A c \in Calls : Response(c) \notin {NoResult, TimedOut, StaleSeen}
  BY DEF TimedOut, NoResult, StaleSeen, Response

LEMMA DriverTypes ==
    ASSUME ChannelTypes, StoreSeq \/ Calling
    PROVE  ChannelTypes'
  <1> USE MaxCallsAssumption DEF ChannelTypes, TypeOK, shared, workerVars, DriverSteps
  <1>1. CASE StoreSeq
    <2>1. /\ call' \in 0 .. MaxCalls /\ call' # 0 /\ seq' \in 0 .. 2 * MaxCalls
          /\ reqSeq' \in 0 .. seq' /\ mySeq' \in 0 .. seq' /\ respSeq' \in 0 .. seq'
          /\ seq' <= 2 * call' /\ seq' < 2 * call'
      BY <1>1 DEF StoreSeq
    <2>2. captured' \in [Calls -> 0 .. seq']
      BY <1>1 DEF StoreSeq
    <2>3. hurried' \subseteq Calls /\ raced' \in BOOLEAN
      BY <1>1 DEF StoreSeq, Calls
    <2> QED
      BY <1>1, <2>1, <2>2, <2>3 DEF StoreSeq
  <1>2. ASSUME driver # "idle" PROVE call \in Calls /\ Request(call) \in Contents
    <2>1. call \in Calls
      BY <1>2 DEF Calls
    <2> QED
      BY <2>1 DEF Contents
  <1>3. CASE StoreRequest \/ StoreLength \/ StorePending \/ PostMessage
    BY <1>2, <1>3 DEF StoreRequest, StoreLength, StorePending, PostMessage
  <1>4. CASE Wait \/ CheckOk \/ LoadLength \/ StoreIdle
    BY <1>4 DEF Wait, CheckOk, LoadLength, StoreIdle
  <1>5. CASE Timeout
    BY <1>2, <1>5 DEF Timeout, BumpSeq
  <1>6. CASE GiveUp \/ CheckStale
    BY <1>2, <1>6 DEF GiveUp, CheckStale
  <1>7. CASE LoadResponse
    BY <1>2, <1>7, DecodeFacts DEF LoadResponse
  <1> QED
    BY <1>1, <1>3, <1>4, <1>5, <1>6, <1>7 DEF Calling

LEMMA WorkerTypes ==
    ASSUME ChannelTypes, Worker
    PROVE  ChannelTypes'
  <1> USE MaxCallsAssumption DEF ChannelTypes, TypeOK, shared, driverVars, WorkerSteps
  <1>1. None \notin Calls /\ (worker # "idle" => current \in Calls)
    BY DEF Calls, None
  <1>2. ASSUME NEW h \in Calls, CaptureSeq(h) \/ DropResponse(h) \/ CheckSeq(h)
        PROVE ChannelTypes'
    BY <1>1, <1>2 DEF CaptureSeq, DropResponse, CheckSeq
  <1>3. CASE LoadRequestLength
    BY <1>3 DEF LoadRequestLength
  <1>4. CASE LoadRequest
    <2>1. PICK message \in Decode(data, wLen) :
          \/ /\ message.kind = "request"
             /\ started' = [started EXCEPT ![message.call] = @ + 1]
             /\ answer' = [answer EXCEPT ![current] = Response(message.call)]
             /\ worker' = "idle" /\ current' = None
          \/ /\ message.kind # "request"
             /\ answer' = [answer EXCEPT ![current] = Failure]
             /\ worker' = "check"
             /\ UNCHANGED <<current, started>>
      BY <1>4 DEF LoadRequest
    <2>2. message \in Contents
      BY DecodeFacts
    <2>3. message.kind = "request" => message.call \in Calls
      BY <2>2 DEF Contents, Request, Response, Failure, Garbled
    <2>4. message.kind = "request" => Response(message.call) \in Contents
      BY <2>3 DEF Contents
    <2>5. Failure \in Contents
      BY DEF Contents
    <2>6. answer' \in [Calls -> Contents] /\ started' \in [Calls -> Nat]
      BY <2>1, <2>3, <2>4, <2>5
    <2> QED
      BY <1>1, <1>4, <2>1, <2>6 DEF LoadRequest
  <1>5. CASE WriteResponse \/ WriteLength \/ WriteSeq \/ WriteDone
    BY <1>1, <1>5 DEF WriteResponse, WriteLength, WriteSeq, WriteDone
  <1>6. CASE Notify
    BY <1>6 DEF Notify, DriverSteps
  <1> QED
    BY <1>2, <1>3, <1>4, <1>5, <1>6 DEF Worker

\* A settled call is not written for.
LEMMA SettledFacts ==
    ASSUME NEW h, ~Unsettled(h)
    PROVE  handler[h] # "posted" /\ ~(worker \in Writing /\ current = h)
  BY DEF Unsettled, Stage, Writing

\* A call takes a new number, which no handler holds.
LEMMA CallStep ==
    ASSUME ChannelTypes, Clean, StoreSeq, ~raced'
    PROVE  Clean'
  <1>0. ~(call # 0 /\ result[call] # TimedOut /\ Unsettled(call))
    BY Zenon DEF StoreSeq
  <1> USE MaxCallsAssumption DEF ChannelTypes, TypeOK, Calls
  <1>1. /\ call' \in Calls /\ call' = call + 1 /\ handler' = handler
        /\ driver = "idle" /\ driver' = "data" /\ handler[call'] = "none" /\ current # call'
        /\ UNCHANGED <<state, len, respSeq, data, gotLen, result, workerVars>>
        /\ mySeq' = seq + 1 /\ seq' = seq + 1 /\ reqSeq' = seq + 1
    <2>1. /\ call' \in Calls /\ call' = call + 1 /\ handler[call'] = "none"
      BY DEF StoreSeq, Clean, Asked
    <2>2. current # call'
      BY <2>1 DEF Clean, Writes, Writing, WorkerSteps, None
    <2> QED
      BY <2>1, <2>2 DEF StoreSeq, workerVars
  <1>2. call # 0 => /\ handler[call] \in {"none", "running", "finished"}
                    /\ worker \notin Writing \cup {"readLen", "readData"}
    <2> SUFFICES ASSUME call \in Calls
                 PROVE  /\ handler[call] \in {"none", "running", "finished"}
                        /\ worker \notin Writing \cup {"readLen", "readData"}
      OBVIOUS
    <2>1. CASE result[call] = TimedOut
      <3>1. GivenUp
        BY <1>1, <2>1 DEF GivenUp
      <3> QED
        BY <3>1 DEF Clean, Asked, Writes
    <2>2. CASE ~Unsettled(call)
      <3>1. handler[call] # "posted" /\ ~(worker \in Writing /\ current = call)
        BY <2>2, SettledFacts
      <3> QED
        BY <3>1 DEF Clean, Writes
    <2> QED
      BY <1>0, <2>1, <2>2
  <1>3. call = 0 => worker \notin Writing \cup {"readLen", "readData"}
    BY DEF Clean, Writes, Writing, None
  <1>4. Asked'
    BY <1>1, <1>2 DEF Clean, Asked, Sending, Reading, Waiting, GivenUp
  <1>5. Known'
    <2>1. \A h \in Calls : h > call' => h > call
      BY <1>1
    <2>2. /\ UNCHANGED <<captured, answer, started, handler, result>>
          /\ \A h \in hurried : h \in hurried'
      BY <1>1 DEF workerVars, StoreSeq
    <2>3. result[call'] # TimedOut /\ mySeq < mySeq'
      BY <1>1 DEF Clean, Known
    <2>4. ASSUME NEW h \in Calls, handler[h] \in {"running", "finished"}
          PROVE  h # call' /\ captured[h] < mySeq'
      <3>1. captured[h] <= mySeq /\ captured[h] \in Nat
        BY <2>4 DEF Clean, Known
      <3>2. h # call'
        BY <1>1, <2>4
      <3>3. mySeq \in Nat /\ mySeq' \in Nat
        BY <1>1
      <3> QED
        BY <2>3, <3>1, <3>2, <3>3
    <2>5. \A h \in Calls : h > call' \/ (h = call' /\ driver' # "idle") => result'[h] # TimedOut
      BY <2>1, <2>2, <2>3 DEF Clean, Known
    <2> QED
      BY <2>2, <2>4, <2>5 DEF Clean, Known
  <1>6. SeqCurrent' /\ ~GivenUp'
    BY <1>1 DEF SeqCurrent, GivenUp
  <1>7. Writes'
    BY <1>1, <1>2, <1>3 DEF Clean, Writes, Writing, Sending, StoreSeq, workerVars, WorkerSteps
  <1>8. Buffer'
    <2>1. ~Answered' /\ respSeq' # mySeq'
      BY <1>1, <1>2, <1>3 DEF Answered, Writing, workerVars
    <2> QED
      BY <1>1, <2>1 DEF Clean, Buffer, Waiting
  <1> QED
    BY <1>4, <1>5, <1>6, <1>7, <1>8 DEF Clean

\* It writes its request while no handler does.
LEMMA SendStep ==
    ASSUME ChannelTypes, Clean, StoreRequest \/ StoreLength \/ StorePending \/ PostMessage
    PROVE  Clean'
  <1> USE MaxCallsAssumption DEF ChannelTypes, TypeOK, Calls
  <1>1. /\ call \in Calls /\ driver \in Sending /\ driver # "idle" /\ driver' # "idle"
        /\ \/ handler' = handler /\ driver' \in Sending
           \/ handler' = [handler EXCEPT ![call] = "posted"] /\ driver = "post" /\ driver' = "wait"
        /\ UNCHANGED <<reqSeq, respSeq, call, seq, mySeq, gotLen, result, hurried, worker,
                       current, captured, wLen, answer, started>>
    BY DEF StoreRequest, StoreLength, StorePending, PostMessage, Sending, shared, workerVars
  <1>2. /\ handler[call] = "none" /\ ~GivenUp /\ ~GivenUp'
        /\ handler'[call] # "finished" /\ \A h \in Calls \ {call} : handler'[h] = handler[h]
    BY <1>1 DEF Clean, Asked, GivenUp, Sending
  <1>3. Asked'
    BY <1>1, <1>2 DEF Clean, Asked, Sending, Reading, Waiting
  <1>4. Known'
    <2>1. \A h \in Calls : handler'[h] \in {"running", "finished"} <=>
                           handler[h] \in {"running", "finished"}
      BY <1>1, <1>2
    <2> QED
      BY <1>1, <1>2, <2>1 DEF Clean, Known
  <1>5. SeqCurrent'
    BY <1>1, <1>2 DEF Clean, SeqCurrent
  <1>6. Writes'
    BY <1>1, <1>2 DEF Clean, Writes, Writing
  <1>7. Buffer'
    <2>1. /\ handler[call] # "finished" /\ handler'[call] # "finished"
          /\ Answered' = Answered
      BY <1>1, <1>2 DEF Answered
    <2>2. /\ driver' \in {"len", "state", "post"} => data' = Request(call)
          /\ driver' \in {"state", "post"} => len' = Request(call)
          /\ driver' \in {"post", "wait"} => state' = PENDING
          /\ driver' = "wait" => data' = Request(call) /\ len' = Request(call)
      BY DEF Clean, Buffer, StoreRequest, StoreLength, StorePending, PostMessage, shared
    <2>3. /\ driver' \notin {"blocked", "check", "readData"}
          /\ handler'[call] = "posted" => driver' = "wait"
      BY <1>1, <1>2 DEF Sending
    <2> QED
      BY <1>1, <1>2, <2>1, <2>2, <2>3 DEF Clean, Buffer, Waiting
  <1> QED
    BY <1>3, <1>4, <1>5, <1>6, <1>7 DEF Clean

\* It waits, and reads the answer of its own handler, complete.
LEMMA ReceiveStep ==
    ASSUME ChannelTypes, Clean, Wait \/ CheckOk \/ LoadLength \/ StoreIdle
    PROVE  Clean'
  <1> USE MaxCallsAssumption DEF ChannelTypes, TypeOK, Calls
  <1>1. /\ call \in Calls /\ driver # "idle" /\ driver \notin Sending /\ driver' \notin Sending
        /\ driver' # "timeout" /\ (driver' = "idle" <=> driver = "release")
        /\ driver \in Waiting \cup Reading \cup {"check"}
        /\ driver' \in Waiting \cup Reading \cup {"check", "idle"}
        /\ UNCHANGED <<len, reqSeq, respSeq, data, call, seq, mySeq, result, hurried, worker,
                       current, handler, captured, wLen, answer, started>>
    <2>1. UNCHANGED <<len, reqSeq, respSeq, data, call, seq, mySeq, result, hurried, worker,
                      current, handler, captured, wLen, answer, started>>
      BY DEF Wait, CheckOk, LoadLength, StoreIdle, shared, workerVars
    <2>2. \/ driver = "wait" /\ driver' \in {"blocked", "check"}
          \/ driver = "check" /\ driver' = "readLen"
          \/ driver = "readLen" /\ driver' = "readData"
          \/ driver = "release" /\ driver' = "idle"
      BY DEF Wait, CheckOk, LoadLength, StoreIdle
    <2> QED
      BY <2>1, <2>2 DEF Sending, Waiting, Reading
  <1>2. ~GivenUp /\ ~GivenUp' /\ Answered' = Answered
    <2>1. result[call] # TimedOut
      BY <1>1 DEF Clean, Known
    <2> QED
      BY <1>1, <2>1 DEF GivenUp, Answered, Waiting, Reading
  <1>3. /\ driver' = "check" => driver = "wait" /\ handler[call] = "finished"
        /\ driver' \in Reading => Answered
    BY <1>1, <1>2 DEF Clean, Asked, Buffer, Wait, CheckOk, Stale, LoadLength, StoreIdle,
       Waiting, Reading
  <1>4. Asked'
    BY <1>1, <1>2, <1>3 DEF Clean, Asked
  <1>5. Known' /\ SeqCurrent' /\ Writes'
    BY <1>1, <1>2 DEF Clean, Known, SeqCurrent, Writes
  <1>6. Buffer'
    <2>1. driver' \in Waiting => state' = state /\ driver \in Waiting
      BY DEF Wait, CheckOk, LoadLength, StoreIdle, Waiting, shared
    <2>2. driver' = "readData" => gotLen' = Response(call)
      <3>1. Answered => len = Response(call)
        BY <1>1, <1>2 DEF Answered, Clean, Writes, Buffer
      <3> QED
        BY <1>1, <1>3, <3>1 DEF Wait, CheckOk, LoadLength, StoreIdle, Reading
    <2>3. driver' = "check" => Answered
      BY <1>3 DEF Answered
    <2> QED
      BY <1>1, <1>2, <2>1, <2>2, <2>3 DEF Clean, Buffer, Sending
  <1> QED
    BY <1>4, <1>5, <1>6 DEF Clean

\* It times out while its handler waits for the database or has written.
LEMMA TimeoutStep ==
    ASSUME ChannelTypes, Clean, Timeout, ~raced'
    PROVE  Clean'
  <1> USE MaxCallsAssumption DEF ChannelTypes, TypeOK, Calls
  <1>1. /\ call \in Calls /\ driver = "blocked" /\ driver' = "timeout"
        /\ handler[call] \notin {"none", "posted"} /\ ~(worker \in Writing /\ current = call)
        /\ seq' = seq + 1 /\ reqSeq' = seq + 1
        /\ UNCHANGED <<state, len, respSeq, data, call, mySeq, gotLen, result, hurried, worker,
                       current, handler, captured, wLen, answer, started>>
    <2>1. ~Unsettled(call)
      BY DEF Timeout
    <2>2. handler[call] # "posted" /\ ~(worker \in Writing /\ current = call)
      BY <2>1, SettledFacts
    <2> QED
      BY <2>2 DEF Timeout, BumpSeq, workerVars, Clean, Asked, Waiting
  <1>2. ~GivenUp /\ GivenUp' /\ Answered' = Answered
    BY <1>1 DEF GivenUp, Answered
  <1>3. Asked'
    BY <1>1, <1>2 DEF Clean, Asked, Sending, Reading, Waiting
  <1>4. Known' /\ SeqCurrent' /\ Writes' /\ Buffer'
    BY <1>1, <1>2 DEF Clean, Known, SeqCurrent, Writes, Buffer, Waiting
  <1> QED
    BY <1>3, <1>4 DEF Clean

\* It throws that it has timed out, or that the response it was woken for is not its own.
LEMMA GiveUpStep ==
    ASSUME ChannelTypes, Clean, GiveUp \/ CheckStale
    PROVE  Clean'
  <1> USE MaxCallsAssumption, OutcomesDiffer DEF ChannelTypes, TypeOK, Calls
  <1>1. /\ call \in Calls /\ driver' = "idle"
        /\ \/ driver = "timeout" /\ result' = [result EXCEPT ![call] = TimedOut]
           \/ /\ driver = "check" /\ respSeq # mySeq
              /\ result' = [result EXCEPT ![call] = StaleSeen]
        /\ UNCHANGED <<len, reqSeq, respSeq, data, call, seq, mySeq, gotLen, hurried, worker,
                       current, handler, captured, wLen, answer, started>>
    BY DEF GiveUp, CheckStale, Stale, workerVars
  <1>2. GivenUp' = GivenUp /\ Answered' = Answered
    BY <1>1 DEF GivenUp, Answered
  <1>3. driver = "check" => call \in hurried
    BY <1>1 DEF Clean, Buffer, GivenUp
  <1>4. Asked'
    BY <1>1, <1>2 DEF Clean, Asked, Sending, Reading, Waiting
  <1>5. Known'
    BY <1>1, <1>3 DEF Clean, Known
  <1>6. SeqCurrent' /\ Writes' /\ Buffer'
    BY <1>1, <1>2 DEF Clean, SeqCurrent, Writes, Buffer, Sending, Waiting
  <1> QED
    BY <1>4, <1>5, <1>6 DEF Clean

\* The response it reads is its own.
LEMMA LoadResponseStep ==
    ASSUME ChannelTypes, Clean, LoadResponse
    PROVE  Clean'
  <1> USE MaxCallsAssumption, OutcomesDiffer DEF ChannelTypes, TypeOK, shared, workerVars, Calls
  <1>1. /\ driver = "readData" /\ driver' = "release" /\ call \in Calls
        /\ data = Response(call) /\ gotLen = Response(call) /\ Answered
    BY DEF LoadResponse, Clean, Asked, Buffer, Writes, Reading, Answered, GivenUp
  <1>2. result' = [result EXCEPT ![call] = Response(call)]
    <2>1. Decode(data, gotLen) = {Response(call)}
      BY <1>1, DecodeFacts
    <2> QED
      BY <2>1 DEF LoadResponse
  <1>3. UNCHANGED <<state, len, reqSeq, respSeq, data, call, seq, mySeq, gotLen, raced, hurried,
                    worker, current, handler, captured, wLen, answer, started>>
    BY DEF LoadResponse
  <1>4. ~GivenUp /\ ~GivenUp' /\ Answered' = Answered
    BY <1>1, <1>3 DEF GivenUp, Answered
  <1>5. Asked' /\ SeqCurrent' /\ Writes' /\ Buffer'
    BY <1>1, <1>3, <1>4 DEF Clean, Asked, SeqCurrent, Writes, Buffer, Sending, Reading, Waiting
  <1>6. Known'
    BY <1>1, <1>2, <1>3 DEF Clean, Known
  <1> QED
    BY <1>5, <1>6 DEF Clean

\* The handler of the current call reads its number and its operation.
LEMMA CaptureStep ==
    ASSUME ChannelTypes, Clean, NEW h \in Calls, CaptureSeq(h)
    PROVE  Clean'
  <1> USE DEF ChannelTypes, TypeOK, shared, driverVars
  <1>1. /\ h = call /\ ~GivenUp /\ handler[call] = "posted" /\ reqSeq = mySeq
        /\ captured' = [captured EXCEPT ![h] = reqSeq] /\ current' = h
        /\ worker = "idle" /\ worker' = "readLen"
        /\ UNCHANGED <<shared, driverVars, handler, wLen, answer, started>>
    BY DEF CaptureSeq, Clean, Asked, SeqCurrent
  <1>2. GivenUp' = GivenUp /\ Answered' = Answered
    BY <1>1 DEF GivenUp, Answered
  <1>3. Asked' /\ SeqCurrent' /\ Buffer'
    BY <1>1, <1>2 DEF Clean, Asked, SeqCurrent, Buffer
  <1>4. Known'
    BY <1>1 DEF Clean, Known
  <1>5. Writes'
    BY <1>1 DEF Clean, Writes, Writing
  <1> QED
    BY <1>3, <1>4, <1>5 DEF Clean

LEMMA LoadLengthStep ==
    ASSUME ChannelTypes, Clean, LoadRequestLength
    PROVE  Clean'
  <1>1. /\ worker = "readLen" /\ worker' = "readData" /\ wLen' = len /\ len = Request(call)
        /\ UNCHANGED <<shared, driverVars, current, handler, captured, answer, started>>
    BY DEF LoadRequestLength, Clean, Asked, Writes, Buffer, ChannelTypes, TypeOK, Calls
  <1> USE DEF shared, driverVars
  <1>2. GivenUp' = GivenUp /\ Answered' = Answered
    BY <1>1 DEF GivenUp, Answered
  <1>3. Asked' /\ Known' /\ SeqCurrent' /\ Buffer'
    BY <1>1, <1>2 DEF Clean, Asked, Known, SeqCurrent, Buffer
  <1>4. Writes'
    BY <1>1 DEF Clean, Writes, Writing
  <1> QED
    BY <1>3, <1>4 DEF Clean

LEMMA LoadRequestStep ==
    ASSUME ChannelTypes, Clean, LoadRequest
    PROVE  Clean'
  <1> USE DEF ChannelTypes, TypeOK, shared, driverVars
  <1>1. /\ worker = "readData" /\ current = call /\ call \in Calls
        /\ handler[call] = "posted" /\ captured[call] = mySeq
        /\ data = Request(call) /\ wLen = Request(call)
        /\ handler' = [handler EXCEPT ![call] = "running"]
        /\ UNCHANGED <<shared, driverVars, captured, wLen>>
    <2>1. worker = "readData" /\ current = call /\ call \in Calls /\ call # 0
      BY DEF LoadRequest, Clean, Writes, Calls, None
    <2> QED
      BY <2>1 DEF LoadRequest, Clean, Writes, Buffer
  <1>2. /\ started' = [started EXCEPT ![call] = @ + 1]
        /\ answer' = [answer EXCEPT ![call] = Response(call)]
        /\ worker' = "idle" /\ current' = None
    <2>1. Request(call).kind = "request" /\ Request(call).call = call
      BY DEF Request
    <2>2. Decode(data, wLen) = {Request(call)}
      BY <1>1, DecodeFacts
    <2> QED
      BY <1>1, <2>1, <2>2 DEF LoadRequest
  <1>3. GivenUp' = GivenUp /\ ~Answered' /\ ~Answered
    BY <1>1, <1>2 DEF GivenUp, Answered
  <1>4. Asked'
    BY <1>1, <1>3 DEF Clean, Asked
  <1>5. SeqCurrent' /\ Writes' /\ Buffer'
    BY <1>1, <1>2, <1>3 DEF Clean, SeqCurrent, Writes, Buffer, Writing
  <1>6. Known'
    BY <1>1, <1>2 DEF Clean, Known
  <1> QED
    BY <1>4, <1>5, <1>6 DEF Clean

\* An answer is dropped when its call has given up.
LEMMA DropStep ==
    ASSUME ChannelTypes, Clean, NEW h \in Calls, DropResponse(h)
    PROVE  Clean'
  <1> USE DEF ChannelTypes, TypeOK, shared, driverVars
  <1>1. /\ worker = "idle" /\ handler[h] = "running" /\ reqSeq # captured[h]
        /\ handler' = [handler EXCEPT ![h] = "finished"]
        /\ worker' = "idle" /\ current' = None
        /\ UNCHANGED <<shared, driverVars, captured, wLen, answer, started>>
    BY DEF DropResponse, Resolved, Outdated, Clean, Writes
  <1>2. h = call => GivenUp
    BY <1>1 DEF Clean, Known, SeqCurrent
  <1>3. GivenUp' = GivenUp /\ (~GivenUp => Answered' = Answered)
    BY <1>1, <1>2 DEF GivenUp, Answered
  <1>4. GivenUp => driver \in {"timeout", "idle"}
    BY DEF GivenUp
  <1>5. Asked'
    BY <1>1, <1>2, <1>3, <1>4 DEF Clean, Asked, Sending, Reading, Waiting
  <1>6. SeqCurrent' /\ Writes'
    BY <1>1, <1>2, <1>3 DEF Clean, SeqCurrent, Writes, Writing
  <1>7. Buffer'
    <2>1. h # call => handler'[call] = handler[call]
      BY <1>1
    <2> QED
      BY <1>1, <1>2, <1>3, <1>4, <2>1 DEF Clean, Buffer, Waiting
  <1>8. Known'
    BY <1>1 DEF Clean, Known
  <1> QED
    BY <1>5, <1>6, <1>7, <1>8 DEF Clean

\* Only the handler of the current call finds its number current.
LEMMA CheckSeqStep ==
    ASSUME ChannelTypes, Clean, NEW h \in Calls, CheckSeq(h)
    PROVE  Clean'
  <1> USE DEF ChannelTypes, TypeOK, shared, driverVars
  <1>1. /\ worker = "idle" /\ handler[h] = "running" /\ reqSeq = captured[h]
        /\ current' = h /\ worker' = "data"
        /\ UNCHANGED <<shared, driverVars, handler, captured, wLen, answer, started>>
    BY DEF CheckSeq, Resolved, Outdated, Clean, Writes
  <1>2. h = call /\ ~GivenUp /\ driver \notin Sending
    <2>1. captured[h] <= mySeq /\ (h # call => captured[h] < mySeq) /\ mySeq <= reqSeq
      BY <1>1, MaxCallsAssumption DEF Clean, Known, SeqCurrent, Calls
    <2>2. h = call /\ mySeq = reqSeq
      BY <1>1, <2>1, MaxCallsAssumption
    <2>3. ~GivenUp
      BY <2>2 DEF Clean, SeqCurrent
    <2> QED
      BY <1>1, <2>2, <2>3 DEF Clean, Asked
  <1>3. GivenUp' = GivenUp /\ Answered' = Answered
    BY <1>1 DEF GivenUp, Answered
  <1>4. Asked' /\ Known' /\ SeqCurrent' /\ Buffer'
    BY <1>1, <1>3 DEF Clean, Asked, Known, SeqCurrent, Buffer
  <1>5. Writes'
    BY <1>1, <1>2, <1>3 DEF Clean, Writes, Writing
  <1> QED
    BY <1>4, <1>5 DEF Clean

\* It writes its answer while the call has not given up.
LEMMA WriteStep ==
    ASSUME ChannelTypes, Clean, WriteResponse \/ WriteLength \/ WriteSeq \/ WriteDone
    PROVE  Clean'
  <1> USE DEF ChannelTypes, TypeOK, driverVars
  <1>1. /\ worker \in Writing /\ current = call /\ driver \notin Sending /\ ~GivenUp
        /\ call \in Calls /\ handler[call] = "running" /\ answer[call] = Response(call)
        /\ captured[call] = mySeq
        /\ UNCHANGED <<driverVars, reqSeq, current, captured, answer, started>>
    <2>1. worker \in Writing /\ current \in Calls
      BY DEF WriteResponse, WriteLength, WriteSeq, WriteDone, Writing
    <2> QED
      BY <2>1 DEF WriteResponse, WriteLength, WriteSeq, WriteDone, Clean, Writes, Known
  <1>2. \/ handler' = handler /\ worker' \in Writing
        \/ /\ handler' = [handler EXCEPT ![call] = "finished"]
           /\ worker = "done" /\ worker' = "notify"
    BY <1>1 DEF WriteResponse, WriteLength, WriteSeq, WriteDone, Writing
  <1>3. GivenUp' = GivenUp /\ (Answered => Answered')
    BY <1>1, <1>2 DEF GivenUp, Answered, WriteResponse, WriteLength, WriteSeq, WriteDone
  <1>4. Asked' /\ Known' /\ SeqCurrent'
    BY <1>1, <1>2, <1>3 DEF Clean, Asked, Known, SeqCurrent
  <1>5. Writes'
    BY <1>1, <1>2, <1>3
       DEF Clean, Writes, Writing, WriteResponse, WriteLength, WriteSeq, WriteDone
  <1>6. Buffer'
    <2>1. (driver # "idle" => (respSeq' = mySeq' <=> Answered')) /\ respSeq' \in 0 .. seq
      BY <1>1 DEF Clean, Buffer, Answered, Writing, WriteResponse, WriteLength, WriteSeq, WriteDone
    <2>2. handler'[call] = "finished" => data' = Response(call) /\ len' = Response(call)
      BY <1>1, <1>2 DEF Clean, Writes, WriteDone, Writing, WriteResponse, WriteLength, WriteSeq
    <2>3. handler'[call] # "finished" => state' = state
      BY <1>1, <1>2 DEF WriteDone, WriteResponse, WriteLength, WriteSeq
    <2> QED
      BY <1>1, <1>2, <1>3, <2>1, <2>2, <2>3 DEF Clean, Buffer, Sending
  <1> QED
    BY <1>4, <1>5, <1>6 DEF Clean

\* Its notify wakes the call it has answered, or one that has begun since.
LEMMA NotifyStep ==
    ASSUME ChannelTypes, Clean, Notify
    PROVE  Clean'
  <1> USE DEF ChannelTypes, TypeOK, shared
  <1>1. /\ worker = "notify" /\ worker' = "idle" /\ current' = None
        /\ driver' = IF driver = "blocked" THEN "check" ELSE driver
        /\ UNCHANGED <<shared, call, seq, mySeq, gotLen, result, hurried, handler, captured,
                       wLen, answer, started>>
        /\ handler[call] = "finished" \/ call \in hurried
    BY DEF Notify, Clean, Writes
  <1>2. GivenUp' = GivenUp /\ Answered' = Answered
    BY <1>1 DEF GivenUp, Answered
  <1>3. Asked'
    BY <1>1, <1>2 DEF Clean, Asked, Sending, Reading, Waiting
  <1>4. Known' /\ SeqCurrent' /\ Writes'
    BY <1>1, <1>2 DEF Clean, Known, SeqCurrent, Writes, Writing
  <1>5. Buffer'
    BY <1>1, <1>2 DEF Clean, Buffer, Waiting, Answered
  <1> QED
    BY <1>3, <1>4, <1>5 DEF Clean

LEMMA CleanStep ==
    ASSUME ChannelInv, Next, ~raced'
    PROVE  Clean'
  <1>1. ChannelTypes /\ Clean
    <2>1. raced \in BOOLEAN /\ ChannelTypes /\ (raced \/ Clean)
      BY DEF ChannelInv, ChannelTypes, TypeOK
    <2>2. ~raced
      BY <2>1 DEF Next, StoreSeq, Calling, StoreRequest, StoreLength, StorePending, PostMessage,
         Wait, Timeout, GiveUp, CheckStale, CheckOk, LoadLength, LoadResponse, StoreIdle,
         Worker, CaptureSeq, DropResponse, CheckSeq, LoadRequestLength, LoadRequest,
         WriteResponse, WriteLength, WriteSeq, WriteDone, Notify, driverVars
    <2> QED
      BY <2>1, <2>2
  <1>2. CASE StoreSeq \/ Calling
    BY <1>1, <1>2, CallStep, SendStep, ReceiveStep, LoadResponseStep, TimeoutStep, GiveUpStep
       DEF Calling
  <1>3. CASE Worker
    BY <1>1, <1>3, CaptureStep, LoadLengthStep, LoadRequestStep, DropStep, CheckSeqStep, WriteStep,
       NotifyStep
       DEF Worker
  <1> QED
    BY <1>2, <1>3 DEF Next

LEMMA ChannelInvariant == MCSpec => []ChannelInv
  <1>1. ChannelInv /\ [MCNext]_allVars => ChannelInv'
    <2> SUFFICES ASSUME ChannelInv, [MCNext]_allVars PROVE ChannelInv'
      OBVIOUS
    <2>1. CASE UNCHANGED vars
      <3>1. ChannelTypes'
        BY <2>1 DEF vars, shared, driverVars, workerVars, ChannelInv, ChannelTypes, TypeOK
      <3>2. Clean => Clean'
        BY <2>1 DEF vars, shared, driverVars, workerVars, Clean, Asked, Known, SeqCurrent,
           Writes, Buffer, GivenUp, Answered
      <3>3. raced' = raced
        BY <2>1 DEF vars, driverVars
      <3> QED
        BY <3>1, <3>2, <3>3 DEF ChannelInv
    <2>2. CASE Next
      <3>1. ChannelTypes'
        BY <2>2, DriverTypes, WorkerTypes DEF ChannelInv, Next
      <3>2. ~raced' => Clean'
        BY <2>2, CleanStep
      <3> QED
        BY <3>1, <3>2 DEF ChannelInv
    <2> QED
      BY <2>1, <2>2 DEF MCNext, allVars
  <1> QED
    BY <1>1, ChannelInvInit, PTL DEF MCSpec

\* The sequence numbers of database/mysql.ts and mysql-worker.ts keep late answers and late
\* notifications apart, for any number of calls and timeouts: as long as no call has raced,
\* a call returns the result of its own operation or times out, or throws a stale
\* response if it began before the last response was notified; no operation reaches the
\* database twice, and the request of a waiting call stays in the buffer until it is read.
THEOREM CallsAnsweredExactly == MCSpec => []CallsExact
  <1>1. ChannelInv => CallsExact
    <2> SUFFICES ASSUME ChannelInv, ~raced PROVE ExactOrTimedOut /\ PayloadIntact
      BY DEF CallsExact, ExactOrTimedOut, PayloadIntact
    <2>1. Clean
      BY DEF ChannelInv
    <2>2. ExactOrTimedOut
      BY <2>1 DEF Clean, Known, ExactOrTimedOut
    <2>3. PayloadIntact
      BY <2>1 DEF Clean, Buffer, PayloadIntact, ChannelInv, ChannelTypes
    <2> QED
      BY <2>2, <2>3
  <1> QED
    BY <1>1, ChannelInvariant, PTL

-----------------------------------------------------------------------------
(***************************************************************************)
(* The connections of the MySQL worker.  A connection that is out has      *)
(* either one statement outside of transactions to execute (OneShot), or   *)
(* it belongs to one transaction (InTx): then every statement in its queue *)
(* is one of this transaction, and the transaction is in the map until its *)
(* COMMIT or ROLLBACK is queued, which is the last statement the queue     *)
(* gets.  After close() nothing is sent, so that what handleClose has      *)
(* rolled back stays so (Closed).                                          *)
(***************************************************************************)
PoolRequests ==
    [op : {"none", "statement", "begin", "commit", "rollback", "close"}, tx : 0 .. MaxRequests]
PoolEntries == [tx : Pool!Requests, conn : Conns]

Entries == {openTransactions[i] : i \in 1 .. Len(openTransactions)}
Live(c) == {e \in Entries : e.conn = c /\ e.tx \notin rolledBack}

PoolTypes ==
    /\ request \in [Pool!Requests -> PoolRequests]
    /\ stage \in [Pool!Requests -> {"none", "connecting", "running", "closing", "ending", "done"}]
    /\ conn \in [Pool!Requests -> Conns \cup {"none"}]
    /\ posted \in 0 .. MaxRequests /\ given_up \in BOOLEAN
    /\ connState \in [Conns -> {"new", "free", "out", "destroyed"}]
    /\ commands \in [Conns -> Seq(Pool!Requests)]
    /\ broken \subseteq Conns /\ inTransaction \subseteq Conns
    /\ openTransactions \in Seq(PoolEntries) /\ rolledBack \subseteq Pool!Requests
    /\ \A r \in Pool!Requests : r > posted => stage[r] = "none"

\* A transaction is in the map once, with the connection it began on.
EntriesKnown ==
    /\ \A i, j \in 1 .. Len(openTransactions) :
          openTransactions[i].tx = openTransactions[j].tx => i = j
    /\ \A e \in Entries : e.conn = conn[e.tx] /\ stage[e.tx] = "done"
    /\ \A t \in rolledBack : stage[t] = "done"

\* close() is the last request.
Closed ==
    /\ \A r \in Pool!Requests : request[r].op = "close" => r = posted
    /\ \A r \in Pool!Requests : stage[r] \in {"closing", "ending"} => request[r].op = "close"
    /\ rolledBack # {} => \E r \in Pool!Requests : request[r].op = "close"

\* A request that runs is in the queue of its connection.
Queued ==
    /\ \A c \in Conns : \A i, j \in 1 .. Len(commands[c]) :
          /\ stage[commands[c][i]] = "running" /\ conn[commands[c][i]] = c
          /\ commands[c][i] = commands[c][j] => i = j
    /\ \A r \in Pool!Requests : stage[r] = "running" =>
          /\ conn[r] \in Conns
          /\ \E i \in 1 .. Len(commands[conn[r]]) : commands[conn[r]][i] = r
          /\ IF request[r].tx = 0 THEN request[r].op \in {"statement", "begin"}
             ELSE /\ request[r].op \in {"statement", "commit", "rollback"}
                  /\ conn[request[r].tx] = conn[r] /\ stage[request[r].tx] = "done"
    /\ \A r \in Pool!Requests : stage[r] = "connecting" =>
          request[r].tx = 0 /\ request[r].op \in {"statement", "begin"}

OneShot(c) ==
    /\ Len(commands[c]) = 1 /\ request[commands[c][1]].tx = 0
    /\ Live(c) = {} /\ c \notin inTransaction

InTx(c, t) ==
    /\ \A i \in 1 .. Len(commands[c]) : request[commands[c][i]].tx = t
    /\ \A i \in 1 .. Len(commands[c]) - 1 : ~Pool!Ends(request[commands[c][i]].op)
    /\ \A e \in Live(c) : e.tx = t
    /\ IF Live(c) = {}
       THEN Len(commands[c]) > 0 /\ Pool!Ends(request[commands[c][Len(commands[c])]].op)
       ELSE Len(commands[c]) > 0 => ~Pool!Ends(request[commands[c][Len(commands[c])]].op)

Held(c) ==
    /\ connState[c] \in {"new", "free"} =>
          Len(commands[c]) = 0 /\ Live(c) = {} /\ c \notin inTransaction
    /\ connState[c] = "out" => OneShot(c) \/ \E t \in Pool!Requests : InTx(c, t)
    /\ connState[c] = "destroyed" => Live(c) = {}
    /\ c \in broken => connState[c] = "destroyed"

PoolInv ==
    /\ PoolTypes /\ EntriesKnown /\ Closed /\ Queued /\ \A c \in Conns : Held(c)
    /\ Cardinality(Pool!Out) <= Limit

\* The Cardinality that MysqlConnections extends is the one of FiniteSets.
LEMMA PoolCardinality == \A S : Pool!Cardinality(S) = Cardinality(S)
  BY DEF Pool!Cardinality, Cardinality

LEMMA PoolInvInit == MCInit => PoolInv
  <1> SUFFICES ASSUME Pool!Init PROVE PoolInv
    BY DEF MCInit
  <1> USE PoolAssumption
  <1>1. /\ Len(openTransactions) = 0 /\ openTransactions \in Seq(PoolEntries)
        /\ \A c \in Conns : Len(commands[c]) = 0
        /\ commands \in [Conns -> Seq(Pool!Requests)]
    BY DEF Pool!Init
  <1>2. Entries = {}
    BY <1>1 DEF Entries
  <1>3. PoolTypes
    <2>1. Pool!NoRequest \in PoolRequests
      BY DEF PoolRequests, Pool!NoRequest, Pool!None
    <2>2. /\ request \in [Pool!Requests -> PoolRequests]
          /\ conn \in [Pool!Requests -> Conns \cup {"none"}]
          /\ connState \in [Conns -> {"new", "free", "out", "destroyed"}]
      BY <2>1 DEF Pool!Init, Pool!None
    <2>3. /\ stage \in [Pool!Requests -> {"none", "connecting", "running", "closing", "ending",
                                         "done"}]
          /\ \A r \in Pool!Requests : stage[r] = "none"
          /\ posted = 0 /\ given_up = FALSE /\ broken = {} /\ inTransaction = {}
          /\ rolledBack = {}
      BY DEF Pool!Init, Pool!None
    <2>4. posted \in 0 .. MaxRequests
      BY <2>3
    <2>5. \A r \in Pool!Requests : r > posted => stage[r] = "none"
      BY <2>3
    <2> QED
      BY <1>1, <2>2, <2>3, <2>4, <2>5, Zenon DEF PoolTypes
  <1>4. EntriesKnown /\ Closed
    BY <1>1, <1>2 DEF Pool!Init, EntriesKnown, Closed, Pool!NoRequest, Pool!None
  <1>5. Queued
    BY <1>1 DEF Pool!Init, Queued, Pool!None
  <1>6. \A c \in Conns : Held(c)
    BY <1>1, <1>2 DEF Pool!Init, Held, Live
  <1>7. Cardinality(Pool!Out) <= Limit
    <2>1. Pool!Out = {}
      BY DEF Pool!Init, Pool!Out
    <2> QED
      BY <2>1, FS_EmptySet
  <1> QED
    BY <1>3, <1>4, <1>5, <1>6, <1>7 DEF PoolInv

-----------------------------------------------------------------------------
\* transactions.get() and transactions.delete(), with the transaction in the map once.
LEMMA OpenFacts ==
    ASSUME PoolTypes, EntriesKnown, NEW t, Pool!Open(t)
    PROVE  /\ Pool!Position(t) \in 1 .. Len(openTransactions)
           /\ openTransactions[Pool!Position(t)].tx = t
           /\ Pool!ConnOf(t) \in Conns /\ Pool!ConnOf(t) = conn[t]
           /\ \E e \in Entries : e.tx = t /\ e.conn = Pool!ConnOf(t)
  <1>1. PICK i \in 1 .. Len(openTransactions) : openTransactions[i].tx = t
    BY DEF Pool!Open
  <1>2. /\ Pool!Position(t) \in 1 .. Len(openTransactions)
        /\ openTransactions[Pool!Position(t)].tx = t
    BY <1>1 DEF Pool!Position
  <1>3. openTransactions[Pool!Position(t)] \in PoolEntries
    BY <1>2 DEF PoolTypes
  <1>4. openTransactions[Pool!Position(t)] \in Entries
    BY <1>2 DEF Entries
  <1> QED
    BY <1>2, <1>3, <1>4 DEF PoolEntries, Pool!ConnOf, EntriesKnown

LEMMA DropFacts ==
    ASSUME PoolTypes, EntriesKnown, NEW t, openTransactions' = Pool!Drop(t)
    PROVE  /\ openTransactions' \in Seq(PoolEntries)
           /\ Entries' = {e \in Entries : e.tx # t}
           /\ \A i, j \in 1 .. Len(openTransactions') :
                 openTransactions'[i].tx = openTransactions'[j].tx => i = j
  <1> DEFINE s == openTransactions
             k == Pool!Position(t)
             u == openTransactions'
  <1>1. s \in Seq(PoolEntries) /\ Len(s) \in Nat
    BY DEF PoolTypes
  <1>2. CASE ~Pool!Open(t)
    <2>1. u = s /\ \A e \in Entries : e.tx # t
      BY <1>2 DEF Pool!Drop, Pool!Open, Entries
    <2> QED
      BY <1>1, <2>1 DEF Entries, EntriesKnown
  <1>3. CASE Pool!Open(t)
    <2>1. k \in 1 .. Len(s) /\ s[k].tx = t
      BY <1>3, OpenFacts
    <2>2. u = RemoveAt(s, k)
      BY <1>3 DEF Pool!Drop, Pool!RemoveAt, RemoveAt
    <2> HIDE DEF k, s, u
    <2>3. /\ u \in Seq(PoolEntries) /\ Len(u) = Len(s) - 1
          /\ \A j \in 1 .. Len(s) - 1 : u[j] = IF j < k THEN s[j] ELSE s[j + 1]
      BY <1>1, <2>1, <2>2, RemoveAtFacts
    <2>4. \A i, j \in 1 .. Len(s) : s[i].tx = s[j].tx => i = j
      BY DEF s, EntriesKnown
    <2>5. \A i, j \in 1 .. Len(u) : u[i].tx = u[j].tx => i = j
      BY <1>1, <2>1, <2>3, <2>4
    <2>6. \A j \in 1 .. Len(u) : \E i \in 1 .. Len(s) : u[j] = s[i] /\ s[i].tx # t
      BY <1>1, <2>1, <2>3, <2>4
    <2>7. \A i \in 1 .. Len(s) : s[i].tx # t => \E j \in 1 .. Len(u) : u[j] = s[i]
      <3> SUFFICES ASSUME NEW i \in 1 .. Len(s), s[i].tx # t
                   PROVE  \E j \in 1 .. Len(u) : u[j] = s[i]
        OBVIOUS
      <3>1. CASE i < k
        <4>1. i \in 1 .. Len(u) /\ u[i] = s[i]
          BY <1>1, <2>1, <2>3, <3>1
        <4> QED
          BY <4>1
      <3>2. CASE i > k
        <4>1. i - 1 \in 1 .. Len(u) /\ u[i - 1] = s[i]
          BY <1>1, <2>1, <2>3, <3>2
        <4> QED
          BY <4>1
      <3> QED
        BY <1>1, <2>1, <3>1, <3>2
    <2>8. Entries' = {u[j] : j \in 1 .. Len(u)} /\ Entries = {s[i] : i \in 1 .. Len(s)}
      BY DEF Entries, s, u
    <2>9. Entries' = {e \in Entries : e.tx # t}
      BY <2>6, <2>7, <2>8
    <2> QED
      BY <2>3, <2>5, <2>9 DEF u
  <1> QED
    BY <1>2, <1>3

\* transactions.set()
LEMMA AddFacts ==
    ASSUME PoolTypes, EntriesKnown, NEW e \in PoolEntries, \A d \in Entries : d.tx # e.tx,
           openTransactions' = Append(openTransactions, e)
    PROVE  /\ openTransactions' \in Seq(PoolEntries)
           /\ Entries' = Entries \cup {e}
           /\ \A i, j \in 1 .. Len(openTransactions') :
                 openTransactions'[i].tx = openTransactions'[j].tx => i = j
  <1> DEFINE s == openTransactions
             u == openTransactions'
  <1>1. /\ s \in Seq(PoolEntries) /\ Len(s) \in Nat /\ u \in Seq(PoolEntries)
        /\ Len(u) = Len(s) + 1 /\ u[Len(s) + 1] = e
        /\ \A i \in 1 .. Len(s) : u[i] = s[i]
    BY DEF PoolTypes
  <1>2. Entries' = {u[j] : j \in 1 .. Len(u)} /\ Entries = {s[i] : i \in 1 .. Len(s)}
    BY DEF Entries
  <1>3. \A i, j \in 1 .. Len(s) : s[i].tx = s[j].tx => i = j
    BY DEF EntriesKnown
  <1>4. \A i \in 1 .. Len(s) : s[i].tx # e.tx
    BY <1>2
  <1> HIDE DEF s, u
  <1>5. Entries' = Entries \cup {e}
    <2>1. \A j \in 1 .. Len(u) : u[j] = e \/ \E i \in 1 .. Len(s) : u[j] = s[i]
      BY <1>1
    <2>2. \A i \in 1 .. Len(s) : \E j \in 1 .. Len(u) : u[j] = s[i]
      BY <1>1
    <2>3. \E j \in 1 .. Len(u) : u[j] = e
      BY <1>1
    <2> QED
      BY <1>2, <2>1, <2>2, <2>3
  <1>6. \A i, j \in 1 .. Len(u) : u[i].tx = u[j].tx => i = j
    BY <1>1, <1>3, <1>4
  <1> QED
    BY <1>1, <1>5, <1>6 DEF u

-----------------------------------------------------------------------------
\* sendAndWait() sends one request after the other, and none after close().
LEMMA SentFacts ==
    ASSUME PoolTypes, Closed, NEW r \in Pool!Requests, NEW t \in 0 .. MaxRequests,
           NEW op \in {"statement", "begin", "commit", "rollback", "close"},
           Pool!Sends(r, op, t)
    PROVE  /\ r = posted + 1 /\ posted' = r /\ posted' \in 0 .. MaxRequests
           /\ given_up' \in BOOLEAN /\ stage[r] = "none" /\ rolledBack = {}
           /\ request' \in [Pool!Requests -> PoolRequests]
           /\ request'[r].op = op /\ request'[r].tx = t
           /\ \A q \in Pool!Requests : q # r => request'[q] = request[q]
           /\ \A q \in Pool!Requests : request[q].op # "close"
  <1> USE PoolAssumption DEF Pool!Requests
  <1>1. /\ r = posted + 1 /\ posted' = r /\ given_up' = FALSE
        /\ posted > 0 => request[posted].op # "close"
        /\ request' = [request EXCEPT ![r] = [op |-> op, tx |-> t]]
    BY DEF Pool!Sends
  <1>2. /\ posted \in Nat /\ posted' \in 0 .. MaxRequests /\ r > posted /\ stage[r] = "none"
        /\ request \in [Pool!Requests -> PoolRequests]
    BY <1>1 DEF PoolTypes
  <1>3. \A q \in Pool!Requests : request[q].op # "close"
    BY <1>1, <1>2 DEF Closed
  <1>4. [op |-> op, tx |-> t] \in PoolRequests
    BY DEF PoolRequests
  <1> QED
    BY <1>1, <1>2, <1>3, <1>4 DEF Closed

\* A connection that a step does not concern stays as it is.
LEMMA HeldSame ==
    ASSUME NEW c \in Conns, Held(c), PoolTypes,
           commands'[c] = commands[c], connState'[c] = connState[c], Live(c)' = Live(c),
           c \in inTransaction' <=> c \in inTransaction, c \in broken' <=> c \in broken,
           \A i \in 1 .. Len(commands[c]) :
              request'[commands[c][i]] = request[commands[c][i]]
    PROVE  Held(c)'
  <1>1. /\ Len(commands[c]) \in Nat
        /\ Len(commands[c]) > 0 => Len(commands[c]) \in 1 .. Len(commands[c])
    BY DEF PoolTypes
  <1>2. OneShot(c) => OneShot(c)'
    BY <1>1 DEF OneShot
  <1>3. ASSUME NEW t \in Pool!Requests, InTx(c, t) PROVE InTx(c, t)'
    BY <1>1, <1>3 DEF InTx
  <1> QED
    BY <1>2, <1>3 DEF Held

\* The handler of a request runs a statement on its connection.
LEMMA EnqueueFacts ==
    ASSUME PoolTypes, Queued, NEW r \in Pool!Requests, NEW c \in Conns,
           stage[r] \in {"none", "connecting"}, Pool!Enqueue(r, c),
           \A q \in Pool!Requests : q # r => request'[q] = request[q],
           IF request'[r].tx = 0 THEN request'[r].op \in {"statement", "begin"}
           ELSE /\ request'[r].op \in {"statement", "commit", "rollback"}
                /\ request'[r].tx \in Pool!Requests
                /\ conn[request'[r].tx] = c /\ stage[request'[r].tx] = "done"
    PROVE  /\ stage' = [stage EXCEPT ![r] = "running"] /\ conn' = [conn EXCEPT ![r] = c]
           /\ commands' = [commands EXCEPT ![c] = Append(commands[c], r)]
           /\ commands' \in [Conns -> Seq(Pool!Requests)]
           /\ Len(commands'[c]) = Len(commands[c]) + 1 /\ commands'[c][Len(commands[c]) + 1] = r
           /\ \A i \in 1 .. Len(commands[c]) :
                 commands'[c][i] = commands[c][i] /\ commands[c][i] # r
           /\ Queued'
  <1>1. /\ stage' = [stage EXCEPT ![r] = "running"] /\ conn' = [conn EXCEPT ![r] = c]
        /\ commands' = [commands EXCEPT ![c] = Append(commands[c], r)]
    BY DEF Pool!Enqueue
  <1>2. /\ commands' \in [Conns -> Seq(Pool!Requests)]
        /\ Len(commands[c]) \in Nat
        /\ Len(commands'[c]) = Len(commands[c]) + 1 /\ commands'[c][Len(commands[c]) + 1] = r
        /\ \A i \in 1 .. Len(commands[c]) : commands'[c][i] = commands[c][i]
        /\ \A d \in Conns : d # c => commands'[d] = commands[d]
    BY <1>1 DEF PoolTypes
  <1>3. ASSUME NEW d \in Conns, NEW i \in 1 .. Len(commands[d])
        PROVE  /\ commands[d][i] \in Pool!Requests /\ commands[d][i] # r
               /\ stage[commands[d][i]] = "running" /\ conn[commands[d][i]] = d
    <2>1. commands[d] \in Seq(Pool!Requests) /\ commands[d][i] \in Pool!Requests
      BY DEF PoolTypes
    <2>2. stage[commands[d][i]] = "running" /\ conn[commands[d][i]] = d
      BY DEF Queued
    <2> QED
      BY <2>1, <2>2
  <1>4. /\ stage'[r] = "running" /\ conn'[r] = c
        /\ \A q \in Pool!Requests : q # r => stage'[q] = stage[q] /\ conn'[q] = conn[q]
    BY <1>1 DEF PoolTypes
  <1>5. ASSUME NEW d \in Conns, NEW i \in 1 .. Len(commands'[d]), NEW j \in 1 .. Len(commands'[d])
        PROVE  /\ stage'[commands'[d][i]] = "running" /\ conn'[commands'[d][i]] = d
               /\ commands'[d][i] = commands'[d][j] => i = j
    <2>1. CASE d # c
      <3>1. /\ commands'[d] = commands[d]
            /\ i \in 1 .. Len(commands[d]) /\ j \in 1 .. Len(commands[d])
        BY <1>2, <2>1
      <3>2. commands[d][i] = commands[d][j] => i = j
        BY <3>1 DEF Queued
      <3> QED
        BY <1>3, <1>4, <3>1, <3>2
    <2>2. CASE d = c
      <3>1. i \in 1 .. Len(commands[c]) \/ i = Len(commands[c]) + 1
        BY <1>2, <2>2
      <3>2. j \in 1 .. Len(commands[c]) \/ j = Len(commands[c]) + 1
        BY <1>2, <2>2
      <3> QED
        BY <1>2, <1>3, <1>4, <2>2, <3>1, <3>2 DEF Queued
    <2> QED
      BY <2>1, <2>2
  <1>6. ASSUME NEW q \in Pool!Requests, stage'[q] = "running"
        PROVE  /\ conn'[q] \in Conns
               /\ \E i \in 1 .. Len(commands'[conn'[q]]) : commands'[conn'[q]][i] = q
               /\ IF request'[q].tx = 0 THEN request'[q].op \in {"statement", "begin"}
                  ELSE /\ request'[q].op \in {"statement", "commit", "rollback"}
                       /\ conn'[request'[q].tx] = conn'[q] /\ stage'[request'[q].tx] = "done"
    <2>1. CASE q = r
      BY <1>2, <1>4, <2>1
    <2>2. CASE q # r
      <3>1. /\ stage[q] = "running" /\ request'[q] = request[q] /\ conn'[q] = conn[q]
            /\ conn[q] \in Conns
        BY <1>4, <1>6, <2>2 DEF Queued
      <3>2. PICK i \in 1 .. Len(commands[conn[q]]) : commands[conn[q]][i] = q
        BY <3>1 DEF Queued
      <3>3. i \in 1 .. Len(commands'[conn[q]]) /\ commands'[conn[q]][i] = q
        BY <1>2, <3>1, <3>2
      <3>4. request[q].tx # 0 => request[q].tx \in Pool!Requests /\ request[q].tx # r
        <4>1. request[q].tx \in 0 .. MaxRequests
          BY DEF PoolTypes, PoolRequests
        <4>2. request[q].tx # 0 => stage[request[q].tx] = "done"
          BY <3>1 DEF Queued
        <4> QED
          BY <4>1, <4>2, PoolAssumption DEF Pool!Requests
      <3> QED
        BY <1>4, <3>1, <3>3, <3>4 DEF Queued
    <2> QED
      BY <2>1, <2>2
  <1>7. \A q \in Pool!Requests : stage'[q] = "connecting" =>
           request'[q].tx = 0 /\ request'[q].op \in {"statement", "begin"}
    BY <1>4 DEF Queued
  <1>8. Queued'
    BY <1>5, <1>6, <1>7 DEF Queued
  <1> QED
    BY <1>1, <1>2, <1>3, <1>8

\* A statement is over.
LEMMA ExecutesFacts ==
    ASSUME PoolTypes, Queued, NEW r \in Pool!Requests, NEW c \in Conns, Pool!Executes(r, c)
    PROVE  /\ stage[r] = "running" /\ conn[r] = c
           /\ stage' = [stage EXCEPT ![r] = "done"]
           /\ commands' = [commands EXCEPT ![c] = Tail(commands[c])]
           /\ commands' \in [Conns -> Seq(Pool!Requests)]
           /\ commands[c][1] = r /\ Len(commands[c]) > 0
           /\ Len(commands'[c]) = Len(commands[c]) - 1
           /\ \A i \in 1 .. Len(commands'[c]) : commands'[c][i] = commands[c][i + 1]
           /\ UNCHANGED <<request, conn, posted, given_up, rolledBack>>
           /\ Queued'
  <1>1. /\ stage[r] = "running" /\ conn[r] = c
        /\ stage' = [stage EXCEPT ![r] = "done"]
        /\ commands[c] # <<>> /\ Head(commands[c]) = r
        /\ commands' = [commands EXCEPT ![c] = Tail(commands[c])]
        /\ UNCHANGED <<request, conn, posted, given_up, rolledBack>>
    BY DEF Pool!Executes
  <1>2. /\ commands[c] \in Seq(Pool!Requests) /\ Len(commands[c]) \in Nat
        /\ commands[c][1] = r /\ Len(commands[c]) > 0
    BY <1>1 DEF PoolTypes
  <1>3. /\ commands' \in [Conns -> Seq(Pool!Requests)]
        /\ Len(commands'[c]) = Len(commands[c]) - 1
        /\ \A i \in 1 .. Len(commands'[c]) : commands'[c][i] = commands[c][i + 1]
        /\ \A d \in Conns : d # c => commands'[d] = commands[d]
    BY <1>1, <1>2 DEF PoolTypes
  <1>4. /\ stage'[r] = "done"
        /\ \A q \in Pool!Requests : q # r => stage'[q] = stage[q]
    BY <1>1 DEF PoolTypes
  <1>5. ASSUME NEW d \in Conns, NEW i \in 1 .. Len(commands'[d]), NEW j \in 1 .. Len(commands'[d])
        PROVE  /\ stage'[commands'[d][i]] = "running" /\ conn'[commands'[d][i]] = d
               /\ commands'[d][i] = commands'[d][j] => i = j
    <2>1. CASE d # c
      <3>1. /\ commands[d][i] \in Pool!Requests /\ conn[commands[d][i]] = d
            /\ commands'[d] = commands[d]
        BY <1>3, <2>1 DEF PoolTypes, Queued
      <3> QED
        BY <1>1, <1>4, <2>1, <3>1 DEF Queued
    <2>2. CASE d = c
      <3>1. /\ i + 1 \in 1 .. Len(commands[c]) /\ j + 1 \in 1 .. Len(commands[c])
            /\ 1 \in 1 .. Len(commands[c]) /\ i + 1 # 1
        BY <1>2, <1>3, <2>2
      <3>2. commands[c][i + 1] # r /\ commands[c][i + 1] \in Pool!Requests
        BY <1>2, <3>1 DEF Queued, PoolTypes
      <3>3. /\ stage[commands[c][i + 1]] = "running" /\ conn[commands[c][i + 1]] = c
            /\ commands[c][i + 1] = commands[c][j + 1] => i + 1 = j + 1
        BY <3>1 DEF Queued
      <3> QED
        BY <1>1, <1>2, <1>3, <1>4, <2>2, <3>2, <3>3
    <2> QED
      BY <2>1, <2>2
  <1>6. ASSUME NEW q \in Pool!Requests, stage'[q] = "running"
        PROVE  /\ conn'[q] \in Conns
               /\ \E i \in 1 .. Len(commands'[conn'[q]]) : commands'[conn'[q]][i] = q
               /\ IF request'[q].tx = 0 THEN request'[q].op \in {"statement", "begin"}
                  ELSE /\ request'[q].op \in {"statement", "commit", "rollback"}
                       /\ conn'[request'[q].tx] = conn'[q] /\ stage'[request'[q].tx] = "done"
    <2>1. q # r /\ stage[q] = "running" /\ conn[q] \in Conns
      BY <1>4, <1>6 DEF Queued
    <2>2. PICK i \in 1 .. Len(commands[conn[q]]) : commands[conn[q]][i] = q
      BY <2>1 DEF Queued
    <2>3. \E j \in 1 .. Len(commands'[conn[q]]) : commands'[conn[q]][j] = q
      <3>1. CASE conn[q] # c
        BY <1>3, <2>1, <2>2, <3>1
      <3>2. CASE conn[q] = c
        <4>1. i # 1
          BY <1>2, <2>1, <2>2, <3>2
        <4>2. i - 1 \in 1 .. Len(commands'[c]) /\ commands'[c][i - 1] = q
          BY <1>2, <1>3, <2>2, <3>2, <4>1
        <4> QED
          BY <3>2, <4>2
      <3> QED
        BY <3>1, <3>2
    <2>4. request[q].tx # 0 => request[q].tx \in Pool!Requests /\ stage[request[q].tx] = "done"
      <3>1. request[q].tx \in 0 .. MaxRequests
        BY DEF PoolTypes, PoolRequests
      <3>2. request[q].tx # 0 => stage[request[q].tx] = "done"
        BY <2>1 DEF Queued
      <3> QED
        BY <3>1, <3>2, PoolAssumption DEF Pool!Requests
    <2>5. request[q].tx # 0 => stage'[request[q].tx] = "done"
      BY <1>4, <2>4
    <2>6. request' = request /\ conn' = conn
      BY <1>1
    <2> QED
      BY <2>1, <2>3, <2>5, <2>6 DEF Queued
  <1>7. \A q \in Pool!Requests : stage'[q] = "connecting" =>
           request'[q].tx = 0 /\ request'[q].op \in {"statement", "begin"}
    BY <1>1, <1>4 DEF Queued
  <1>8. Queued'
    BY <1>5, <1>6, <1>7 DEF Queued
  <1> QED
    BY <1>1, <1>2, <1>3, <1>8

-----------------------------------------------------------------------------
\* A request that does not reach a connection, or not yet, leaves all of them as they are.
LEMMA StageStep ==
    ASSUME PoolInv, NEW r \in Pool!Requests, NEW s \in {"connecting", "closing", "ending", "done"},
           stage[r] \notin {"running", "done"}, stage' = [stage EXCEPT ![r] = s],
           request' \in [Pool!Requests -> PoolRequests],
           \A q \in Pool!Requests : q # r => request'[q] = request[q],
           s = "connecting" => request'[r].tx = 0 /\ request'[r].op \in {"statement", "begin"},
           UNCHANGED <<conn, connState, commands, broken, inTransaction, rolledBack>>,
           \/ openTransactions' = openTransactions
           \/ openTransactions' = <<>> /\ \A c \in Conns : Live(c) = {},
           posted' \in 0 .. MaxRequests, posted <= posted', r <= posted',
           given_up' \in BOOLEAN, Closed'
    PROVE  PoolInv'
  <1>1. /\ stage'[r] = s /\ \A q \in Pool!Requests : q # r => stage'[q] = stage[q]
        /\ stage' \in [Pool!Requests -> {"none", "connecting", "running", "closing", "ending",
                                         "done"}]
    BY DEF PoolInv, PoolTypes
  <1>2. PoolTypes'
    <2>1. \A q \in Pool!Requests : q > posted' => stage'[q] = "none"
      BY <1>1, PoolAssumption DEF PoolInv, PoolTypes, Pool!Requests
    <2>2. openTransactions \in Seq(PoolEntries) /\ <<>> \in Seq(PoolEntries)
      BY DEF PoolInv, PoolTypes
    <2>3. openTransactions' \in Seq(PoolEntries)
      BY <2>2, Zenon
    <2> QED
      BY <1>1, <2>1, <2>3 DEF PoolInv, PoolTypes
  <1>3. Entries' \subseteq Entries /\ \A c \in Conns : Live(c)' = Live(c)
    <2>1. CASE openTransactions' = openTransactions
      BY <2>1 DEF Entries, Live
    <2>2. CASE openTransactions' = <<>> /\ \A c \in Conns : Live(c) = {}
      <3>1. Entries' = {}
        BY <2>2 DEF Entries
      <3> QED
        BY <2>2, <3>1 DEF Live
    <2> QED
      BY <2>1, <2>2
  <1>4. EntriesKnown'
    <2>1. ASSUME NEW e \in Entries PROVE e.tx \in Pool!Requests /\ e.tx # r
      <3>1. e \in PoolEntries
        BY DEF Entries, PoolInv, PoolTypes
      <3>2. stage[e.tx] = "done"
        BY DEF PoolInv, EntriesKnown
      <3> QED
        BY <3>1, <3>2 DEF PoolEntries
    <2>2. \A t \in rolledBack : t \in Pool!Requests /\ t # r
      BY DEF PoolInv, PoolTypes, EntriesKnown
    <2>3. \A e \in Entries' : e.conn = conn[e.tx] /\ stage'[e.tx] = "done"
      BY <1>1, <1>3, <2>1 DEF PoolInv, EntriesKnown
    <2>4. \A i, j \in 1 .. Len(openTransactions') :
             openTransactions'[i].tx = openTransactions'[j].tx => i = j
      BY DEF PoolInv, EntriesKnown
    <2> QED
      BY <1>1, <2>2, <2>3, <2>4 DEF PoolInv, EntriesKnown
  <1>5. \A c \in Conns : \A i \in 1 .. Len(commands[c]) :
           commands[c][i] \in Pool!Requests /\ commands[c][i] # r
    BY DEF PoolInv, PoolTypes, Queued
  <1>6. Queued'
    <2>1. ASSUME NEW c \in Conns, NEW i \in 1 .. Len(commands[c]), NEW j \in 1 .. Len(commands[c])
          PROVE  /\ stage'[commands[c][i]] = "running" /\ conn[commands[c][i]] = c
                 /\ commands[c][i] = commands[c][j] => i = j
      BY <1>1, <1>5 DEF PoolInv, Queued
    <2>2. ASSUME NEW q \in Pool!Requests, stage'[q] = "running"
          PROVE  /\ conn[q] \in Conns
                 /\ \E i \in 1 .. Len(commands[conn[q]]) : commands[conn[q]][i] = q
                 /\ IF request'[q].tx = 0 THEN request'[q].op \in {"statement", "begin"}
                    ELSE /\ request'[q].op \in {"statement", "commit", "rollback"}
                         /\ conn[request'[q].tx] = conn[q] /\ stage'[request'[q].tx] = "done"
      <3>1. q # r /\ stage[q] = "running" /\ request'[q] = request[q]
        BY <1>1, <2>2
      <3>2. request[q].tx \in 0 .. MaxRequests
        BY DEF PoolInv, PoolTypes, PoolRequests
      <3>3. request[q].tx # 0 => request[q].tx \in Pool!Requests /\ request[q].tx # r
        BY <3>1, <3>2, PoolAssumption DEF PoolInv, Queued, Pool!Requests
      <3> QED
        BY <1>1, <3>1, <3>3 DEF PoolInv, Queued
    <2>3. ASSUME NEW q \in Pool!Requests, stage'[q] = "connecting"
          PROVE  request'[q].tx = 0 /\ request'[q].op \in {"statement", "begin"}
      BY <1>1, <2>3 DEF PoolInv, Queued
    <2> QED
      BY <2>1, <2>2, <2>3 DEF Queued
  <1>7. ASSUME NEW c \in Conns PROVE Held(c)'
    BY <1>3, <1>5, HeldSame DEF PoolInv
  <1>8. Cardinality(Pool!Out)' <= Limit
    BY DEF PoolInv, Pool!Out
  <1> QED
    BY <1>2, <1>4, <1>6, <1>7, <1>8 DEF PoolInv

LEMMA NeedsConnectionStep ==
    ASSUME PoolInv, NEW r \in Pool!Requests, NEW op \in {"statement", "begin"},
           Pool!NeedsConnection(r, op)
    PROVE  PoolInv'
  <1>1. /\ Pool!Sends(r, op, 0) /\ stage' = [stage EXCEPT ![r] = "connecting"]
        /\ UNCHANGED <<conn, connState, commands, broken, inTransaction, openTransactions,
                       rolledBack>>
    BY DEF Pool!NeedsConnection, Pool!poolState
  <1>2. 0 \in 0 .. MaxRequests
    BY PoolAssumption
  <1>3. /\ r = posted + 1 /\ posted' = r /\ posted' \in 0 .. MaxRequests
        /\ given_up' \in BOOLEAN /\ stage[r] = "none" /\ rolledBack = {}
        /\ request' \in [Pool!Requests -> PoolRequests]
        /\ request'[r].op = op /\ request'[r].tx = 0
        /\ \A q \in Pool!Requests : q # r => request'[q] = request[q]
        /\ \A q \in Pool!Requests : request[q].op # "close"
    BY <1>1, <1>2, SentFacts DEF PoolInv
  <1>4. Closed'
    BY <1>1, <1>3 DEF PoolInv, PoolTypes, Closed
  <1>5. posted \in Nat /\ posted <= posted' /\ r <= posted'
    BY <1>3, PoolAssumption DEF PoolInv, PoolTypes
  <1> QED
    BY <1>1, <1>3, <1>4, <1>5, StageStep

LEMMA CloseSentStep ==
    ASSUME PoolInv, NEW r \in Pool!Requests, Pool!Sends(r, "close", 0),
           stage' = [stage EXCEPT ![r] = "closing"],
           UNCHANGED <<conn, Pool!poolState, openTransactions, rolledBack>>
    PROVE  PoolInv'
  <1>1. UNCHANGED <<conn, connState, commands, broken, inTransaction, openTransactions,
                    rolledBack>>
    BY DEF Pool!poolState
  <1>2. 0 \in 0 .. MaxRequests
    BY PoolAssumption
  <1>3. /\ r = posted + 1 /\ posted' = r /\ posted' \in 0 .. MaxRequests
        /\ given_up' \in BOOLEAN /\ stage[r] = "none" /\ rolledBack = {}
        /\ request' \in [Pool!Requests -> PoolRequests]
        /\ request'[r].op = "close"
        /\ \A q \in Pool!Requests : q # r => request'[q] = request[q]
        /\ \A q \in Pool!Requests : request[q].op # "close"
    BY <1>2, SentFacts DEF PoolInv
  <1>4. Closed'
    BY <1>1, <1>3 DEF PoolInv, PoolTypes, Closed
  <1>5. posted \in Nat /\ posted <= posted' /\ r <= posted'
    BY <1>3, PoolAssumption DEF PoolInv, PoolTypes
  <1> QED
    BY <1>1, <1>3, <1>4, <1>5, StageStep

\* A request fails to get a connection, or the pool has ended or not.
LEMMA AnsweredStep ==
    ASSUME PoolInv, NEW r \in Pool!Requests, Pool!ConnectFails(r) \/ Pool!closePoolWithTimeout(r)
    PROVE  PoolInv'
  <1>1. /\ stage[r] \in {"connecting", "ending"} /\ stage' = [stage EXCEPT ![r] = "done"]
        /\ UNCHANGED <<request, conn, posted, given_up, connState, commands, broken,
                       inTransaction, openTransactions, rolledBack>>
    BY DEF Pool!ConnectFails, Pool!closePoolWithTimeout, Pool!poolState
  <1>2. Closed'
    BY <1>1 DEF PoolInv, PoolTypes, Closed
  <1>3. /\ posted \in Nat /\ r <= posted' /\ posted <= posted' /\ posted' \in 0 .. MaxRequests
        /\ given_up' \in BOOLEAN /\ request' \in [Pool!Requests -> PoolRequests]
        /\ \A q \in Pool!Requests : q # r => request'[q] = request[q]
    BY <1>1, PoolAssumption DEF PoolInv, PoolTypes, Pool!Requests
  <1> QED
    BY <1>1, <1>2, <1>3, StageStep

LEMMA GivesUpStep ==
    ASSUME PoolInv, Pool!GivesUp
    PROVE  PoolInv'
  <1>1. /\ given_up' \in BOOLEAN
        /\ UNCHANGED <<request, stage, conn, posted, connState, commands, broken,
                       inTransaction, openTransactions, rolledBack>>
    BY DEF Pool!GivesUp, Pool!poolState
  <1>2. PoolTypes' /\ EntriesKnown' /\ Closed' /\ Queued'
    BY <1>1 DEF PoolInv, PoolTypes, EntriesKnown, Entries, Closed, Queued
  <1>3. ASSUME NEW c \in Conns PROVE Held(c)'
    BY <1>1 DEF PoolInv, Held, OneShot, InTx, Live, Entries
  <1>4. Cardinality(Pool!Out)' <= Limit
    BY <1>1 DEF PoolInv, Pool!Out
  <1> QED
    BY <1>2, <1>3, <1>4 DEF PoolInv

-----------------------------------------------------------------------------
\* A statement of a transaction, or its end, goes to the connection of the transaction.
LEMMA InTxStep ==
    ASSUME PoolInv, NEW r \in Pool!Requests, NEW t \in Pool!Named(r),
           Pool!StatementInTx(r, t) \/ Pool!handleCommit(r, t) \/ Pool!handleRollback(r, t)
    PROVE  PoolInv'
  <1>1. PICK op \in {"statement", "commit", "rollback"} :
           /\ Pool!Sends(r, op, t)
           /\ IF Pool!Open(t)
              THEN /\ Pool!Enqueue(r, Pool!ConnOf(t))
                   /\ openTransactions' = IF op = "statement" THEN openTransactions
                                          ELSE Pool!Drop(t)
              ELSE Pool!TxNotFound(r)
           /\ UNCHANGED <<connState, broken, inTransaction, rolledBack>>
    BY DEF Pool!StatementInTx, Pool!handleCommit, Pool!handleRollback
  <1>2. t \in Pool!Requests /\ t \in 0 .. MaxRequests /\ t # 0 /\ stage[t] = "done"
    BY PoolAssumption DEF Pool!Named, Pool!Requests
  <1>3. /\ r = posted + 1 /\ posted' = r /\ posted' \in 0 .. MaxRequests
        /\ given_up' \in BOOLEAN /\ stage[r] = "none" /\ rolledBack = {}
        /\ request' \in [Pool!Requests -> PoolRequests]
        /\ request'[r].op = op /\ request'[r].tx = t
        /\ \A q \in Pool!Requests : q # r => request'[q] = request[q]
        /\ \A q \in Pool!Requests : request[q].op # "close"
    <2>1. op \in {"statement", "begin", "commit", "rollback", "close"} /\ Pool!Sends(r, op, t)
      BY <1>1
    <2> QED
      BY <1>2, <2>1, SentFacts DEF PoolInv
  <1>4. posted \in Nat /\ posted <= posted' /\ r <= posted'
    BY <1>3, PoolAssumption DEF PoolInv, PoolTypes
  <1>5. CASE ~Pool!Open(t)
    <2>1. /\ stage' = [stage EXCEPT ![r] = "done"]
          /\ UNCHANGED <<conn, connState, commands, broken, inTransaction, rolledBack>>
          /\ openTransactions' = openTransactions
      BY <1>1, <1>5 DEF Pool!TxNotFound
    <2>2. Closed'
      BY <1>3, <2>1 DEF PoolInv, PoolTypes, Closed
    <2> QED
      BY <1>3, <1>4, <2>1, <2>2, StageStep
  <1>6. CASE Pool!Open(t)
    <2>0. PICK c : c = Pool!ConnOf(t)
      OBVIOUS
    <2>1. /\ Pool!Enqueue(r, c)
          /\ openTransactions' = IF op = "statement" THEN openTransactions ELSE Pool!Drop(t)
          /\ UNCHANGED <<connState, broken, inTransaction, rolledBack>>
      BY <1>1, <1>6, <2>0
    <2>2. c \in Conns /\ c = conn[t]
      BY <1>6, <2>0, OpenFacts DEF PoolInv
    <2>3. PICK e \in Entries : e.tx = t /\ e.conn = c
      BY <1>6, <2>0, OpenFacts DEF PoolInv
    <2>4. e \in Live(c)
      BY <1>3, <2>3 DEF Live
    <2>5. connState[c] = "out" /\ InTx(c, t)
      <3>1. Held(c) /\ connState[c] \in {"new", "free", "out", "destroyed"}
        BY <2>2 DEF PoolInv, PoolTypes
      <3>2. connState[c] = "out" /\ ~OneShot(c)
        BY <2>4, <3>1 DEF Held, OneShot
      <3>3. PICK u \in Pool!Requests : InTx(c, u)
        BY <3>1, <3>2 DEF Held
      <3>4. u = t
        BY <2>3, <2>4, <3>3 DEF InTx
      <3> QED
        BY <3>2, <3>3, <3>4
    <2>6. /\ stage' = [stage EXCEPT ![r] = "running"] /\ conn' = [conn EXCEPT ![r] = c]
          /\ commands' = [commands EXCEPT ![c] = Append(commands[c], r)]
          /\ commands' \in [Conns -> Seq(Pool!Requests)]
          /\ Len(commands'[c]) = Len(commands[c]) + 1 /\ commands'[c][Len(commands[c]) + 1] = r
          /\ \A i \in 1 .. Len(commands[c]) :
                commands'[c][i] = commands[c][i] /\ commands[c][i] # r
          /\ Queued'
      <3>1. IF request'[r].tx = 0 THEN request'[r].op \in {"statement", "begin"}
            ELSE /\ request'[r].op \in {"statement", "commit", "rollback"}
                 /\ request'[r].tx \in Pool!Requests
                 /\ conn[request'[r].tx] = c /\ stage[request'[r].tx] = "done"
        BY <1>2, <1>3, <2>2
      <3> QED
        BY <1>3, <2>1, <2>2, <3>1, EnqueueFacts DEF PoolInv
    <2>7. /\ openTransactions' \in Seq(PoolEntries)
          /\ Entries' = IF op = "statement" THEN Entries ELSE {d \in Entries : d.tx # t}
          /\ \A i, j \in 1 .. Len(openTransactions') :
                openTransactions'[i].tx = openTransactions'[j].tx => i = j
      <3>1. CASE op = "statement"
        BY <2>1, <3>1 DEF PoolInv, PoolTypes, EntriesKnown, Entries
      <3>2. CASE op # "statement"
        BY <2>1, <3>2, DropFacts DEF PoolInv
      <3> QED
        BY <3>1, <3>2
    <2>8. /\ stage' \in [Pool!Requests -> {"none", "connecting", "running", "closing",
                                          "ending", "done"}]
          /\ conn' \in [Pool!Requests -> Conns \cup {"none"}]
          /\ stage'[r] = "running"
          /\ \A q \in Pool!Requests : q # r => stage'[q] = stage[q] /\ conn'[q] = conn[q]
      BY <2>2, <2>6 DEF PoolInv, PoolTypes
    <2>9. \A d \in Entries : d.tx \in Pool!Requests /\ d.tx # r
      <3> SUFFICES ASSUME NEW d \in Entries PROVE d.tx \in Pool!Requests /\ d.tx # r
        OBVIOUS
      <3>1. d \in PoolEntries
        BY DEF Entries, PoolInv, PoolTypes
      <3>2. stage[d.tx] = "done"
        BY DEF PoolInv, EntriesKnown
      <3> QED
        BY <1>3, <3>1, <3>2 DEF PoolEntries
    <2>10. PoolTypes'
      <3>1. \A q \in Pool!Requests : q > posted' => stage'[q] = "none"
        BY <1>3, <1>4, <2>8, PoolAssumption DEF PoolInv, PoolTypes, Pool!Requests
      <3> QED
        BY <1>3, <2>1, <2>6, <2>7, <2>8, <3>1 DEF PoolInv, PoolTypes
    <2>11. EntriesKnown'
      <3>1. Entries' \subseteq Entries
        BY <2>7
      <3>2. \A d \in Entries : d.conn = conn'[d.tx] /\ stage'[d.tx] = "done"
        BY <2>8, <2>9 DEF PoolInv, EntriesKnown
      <3>3. rolledBack' = {}
        BY <1>3, <2>1
      <3> QED
        BY <2>7, <3>1, <3>2, <3>3 DEF EntriesKnown
    <2>12. Closed'
      BY <1>3, <2>1, <2>8 DEF PoolInv, Closed
    <2>13. ASSUME NEW d \in Conns, d # c PROVE Held(d)'
      <3>1. Live(d)' = Live(d)
        <4>1. \A x \in Entries : x.tx = t => x.conn = c
          BY <2>2 DEF PoolInv, EntriesKnown
        <4> QED
          BY <2>1, <2>7, <2>13, <4>1 DEF Live
      <3>2. \A i \in 1 .. Len(commands[d]) : commands[d][i] \in Pool!Requests /\ commands[d][i] # r
        BY <1>3 DEF PoolInv, PoolTypes, Queued
      <3>3. commands'[d] = commands[d]
        BY <2>2, <2>6, <2>13 DEF PoolInv, PoolTypes
      <3> QED
        BY <1>3, <2>1, <3>1, <3>2, <3>3, HeldSame DEF PoolInv
    <2>14. Held(c)'
      <3>1. commands[c] \in Seq(Pool!Requests) /\ Len(commands[c]) \in Nat
        BY <2>2 DEF PoolInv, PoolTypes
      <3>2. ASSUME NEW i \in 1 .. Len(commands[c])
            PROVE  /\ commands'[c][i] = commands[c][i]
                   /\ request'[commands[c][i]] = request[commands[c][i]]
        <4>1. commands[c][i] \in Pool!Requests
          BY <3>1
        <4>2. commands'[c][i] = commands[c][i] /\ commands[c][i] # r
          BY <2>6
        <4> QED
          BY <1>3, <4>1, <4>2
      <3>3. \A i \in 1 .. Len(commands'[c]) : request'[commands'[c][i]].tx = t
        BY <1>3, <2>5, <2>6, <3>1, <3>2 DEF InTx
      <3>4. \A i \in 1 .. Len(commands[c]) : ~Pool!Ends(request[commands[c][i]].op)
        BY <2>4, <2>5, <3>1 DEF InTx
      <3>5. \A i \in 1 .. Len(commands'[c]) - 1 : ~Pool!Ends(request'[commands'[c][i]].op)
        BY <2>6, <3>1, <3>2, <3>4
      <3>6. \A d \in Live(c)' : d.tx = t
        BY <2>1, <2>5, <2>7 DEF InTx, Live
      <3>7. Len(commands'[c]) > 0 /\ request'[commands'[c][Len(commands'[c])]].op = op
        BY <1>3, <2>6, <3>1
      <3>8. IF op = "statement" THEN Live(c)' # {} ELSE Live(c)' = {}
        <4>1. CASE op = "statement"
          BY <2>1, <2>4, <2>7, <4>1 DEF Live
        <4>2. CASE op # "statement"
          BY <2>1, <2>5, <2>7, <4>2 DEF Live, InTx
        <4> QED
          BY <4>1, <4>2
      <3>9. InTx(c, t)'
        BY <3>3, <3>5, <3>6, <3>7, <3>8 DEF InTx, Pool!Ends
      <3>10. connState'[c] = "out" /\ c \notin broken'
        BY <2>1, <2>2, <2>5 DEF PoolInv, Held
      <3> QED
        BY <1>2, <3>9, <3>10 DEF Held
    <2>15. Cardinality(Pool!Out)' <= Limit
      BY <2>1 DEF PoolInv, Pool!Out
    <2> QED
      BY <2>6, <2>10, <2>11, <2>12, <2>13, <2>14, <2>15 DEF PoolInv
  <1> QED
    BY <1>5, <1>6

\* A request outside of a transaction gets a connection of its own.
LEMMA GetConnectionStep ==
    ASSUME PoolInv, NEW r \in Pool!Requests, Pool!getConnection(r)
    PROVE  PoolInv'
  <1>1. /\ stage[r] = "connecting" /\ Cardinality(Pool!Out) < Limit
        /\ UNCHANGED <<request, posted, given_up, broken, inTransaction, openTransactions,
                       rolledBack>>
    BY PoolCardinality DEF Pool!getConnection
  <1>2. PICK c \in Conns :
           /\ connState[c] \in {"free", "new"}
           /\ connState' = [connState EXCEPT ![c] = "out"]
           /\ Pool!Enqueue(r, c)
    BY DEF Pool!getConnection
  <1>3. request[r].tx = 0 /\ request[r].op \in {"statement", "begin"}
    BY <1>1 DEF PoolInv, Queued
  <1>4. /\ Len(commands[c]) = 0 /\ Live(c) = {} /\ c \notin inTransaction /\ c \notin broken
    BY <1>2 DEF PoolInv, Held
  <1>5. /\ stage' = [stage EXCEPT ![r] = "running"] /\ conn' = [conn EXCEPT ![r] = c]
        /\ commands' = [commands EXCEPT ![c] = Append(commands[c], r)]
        /\ commands' \in [Conns -> Seq(Pool!Requests)]
        /\ Len(commands'[c]) = Len(commands[c]) + 1 /\ commands'[c][Len(commands[c]) + 1] = r
        /\ Queued'
    BY <1>1, <1>2, <1>3, EnqueueFacts DEF PoolInv
  <1>6. /\ stage' \in [Pool!Requests -> {"none", "connecting", "running", "closing",
                                        "ending", "done"}]
        /\ conn' \in [Pool!Requests -> Conns \cup {"none"}]
        /\ connState' \in [Conns -> {"new", "free", "out", "destroyed"}]
        /\ stage'[r] = "running"
        /\ \A q \in Pool!Requests : q # r => stage'[q] = stage[q] /\ conn'[q] = conn[q]
    BY <1>2, <1>5 DEF PoolInv, PoolTypes
  <1>7. PoolTypes'
    <2>1. \A q \in Pool!Requests : q > posted => stage'[q] = "none"
      BY <1>1, <1>6 DEF PoolInv, PoolTypes
    <2> QED
      BY <1>1, <1>5, <1>6, <2>1 DEF PoolInv, PoolTypes
  <1>8. Entries' = Entries /\ \A d \in Conns : Live(d)' = Live(d)
    BY <1>1 DEF Entries, Live
  <1>9. EntriesKnown'
    <2>1. \A d \in Entries : d.tx \in Pool!Requests /\ d.tx # r
      <3> SUFFICES ASSUME NEW d \in Entries PROVE d.tx \in Pool!Requests /\ d.tx # r
        OBVIOUS
      <3>1. d \in PoolEntries
        BY DEF Entries, PoolInv, PoolTypes
      <3>2. stage[d.tx] = "done"
        BY DEF PoolInv, EntriesKnown
      <3> QED
        BY <1>1, <3>1, <3>2 DEF PoolEntries
    <2>2. \A t \in rolledBack : t \in Pool!Requests /\ t # r
      BY <1>1 DEF PoolInv, PoolTypes, EntriesKnown
    <2> QED
      BY <1>1, <1>6, <1>8, <2>1, <2>2 DEF PoolInv, EntriesKnown
  <1>10. Closed'
    BY <1>1, <1>6 DEF PoolInv, Closed
  <1>11. ASSUME NEW d \in Conns PROVE Held(d)'
    <2>1. CASE d # c
      <3>1. commands'[d] = commands[d] /\ connState'[d] = connState[d]
        BY <1>2, <1>5, <2>1 DEF PoolInv, PoolTypes
      <3> QED
        BY <1>1, <1>8, <3>1, HeldSame DEF PoolInv
    <2>2. CASE d = c
      <3>1. Len(commands'[c]) = 1 /\ commands'[c][1] = r
        BY <1>4, <1>5
      <3>2. OneShot(c)'
        BY <1>1, <1>3, <1>4, <1>8, <3>1 DEF OneShot
      <3>3. connState'[c] = "out" /\ c \notin broken'
        BY <1>1, <1>2, <1>4 DEF PoolInv, PoolTypes
      <3> QED
        BY <2>2, <3>2, <3>3 DEF Held
    <2> QED
      BY <2>1, <2>2
  <1>12. Cardinality(Pool!Out)' <= Limit
    <2>1. Pool!Out' = Pool!Out \cup {c} /\ c \notin Pool!Out
      BY <1>2 DEF PoolInv, PoolTypes, Pool!Out
    <2>2. IsFiniteSet(Pool!Out)
      BY FS_Subset, PoolAssumption DEF Pool!Out
    <2>3. Cardinality(Pool!Out)' = Cardinality(Pool!Out) + 1 /\ Cardinality(Pool!Out) \in Nat
      BY <2>1, <2>2, FS_AddElement, FS_CardinalityType
    <2> QED
      BY <1>1, <2>3, PoolAssumption
  <1> QED
    BY <1>5, <1>7, <1>9, <1>10, <1>11, <1>12 DEF PoolInv

-----------------------------------------------------------------------------
\* What a statement leaves of the types and of the queues, whatever comes of it.
LEMMA OverFacts ==
    ASSUME PoolInv, NEW r \in Pool!Requests, NEW c \in Conns, Pool!Executes(r, c),
           connState' \in [Conns -> {"new", "free", "out", "destroyed"}],
           openTransactions' \in Seq(PoolEntries),
           broken' \subseteq Conns, inTransaction' \subseteq Conns
    PROVE  /\ PoolTypes' /\ Closed' /\ Queued'
           /\ stage'[r] = "done"
           /\ \A t \in Pool!Requests : stage[t] = "done" => t # r /\ stage'[t] = "done"
           /\ \A d \in Conns : d # c =>
                 /\ commands'[d] = commands[d]
                 /\ \A i \in 1 .. Len(commands[d]) :
                       request'[commands[d][i]] = request[commands[d][i]]
  <1>1. /\ stage[r] = "running" /\ stage' = [stage EXCEPT ![r] = "done"]
        /\ commands' = [commands EXCEPT ![c] = Tail(commands[c])]
        /\ commands' \in [Conns -> Seq(Pool!Requests)]
        /\ UNCHANGED <<request, conn, posted, given_up, rolledBack>>
        /\ Queued'
    BY ExecutesFacts DEF PoolInv
  <1>2. /\ stage' \in [Pool!Requests -> {"none", "connecting", "running", "closing",
                                        "ending", "done"}]
        /\ stage'[r] = "done" /\ \A q \in Pool!Requests : q # r => stage'[q] = stage[q]
    BY <1>1 DEF PoolInv, PoolTypes
  <1>3. PoolTypes'
    <2>1. \A q \in Pool!Requests : q > posted => stage'[q] = "none"
      BY <1>1, <1>2 DEF PoolInv, PoolTypes
    <2> QED
      BY <1>1, <1>2, <2>1 DEF PoolInv, PoolTypes
  <1>4. Closed'
    BY <1>1, <1>2 DEF PoolInv, Closed
  <1>5. \A d \in Conns : d # c => commands'[d] = commands[d]
    BY <1>1 DEF PoolInv, PoolTypes
  <1> QED
    BY <1>1, <1>2, <1>3, <1>4, <1>5

\* A statement succeeds: begin registers its transaction, commit and rollback give the
\* connection back.
LEMMA SucceedsStep ==
    ASSUME PoolInv, NEW r \in Pool!Requests, NEW c \in Conns, Pool!Succeeds(r, c)
    PROVE  PoolInv'
  <1> DEFINE begins == request[r].op = "begin"
             ends == Pool!Ends(request[r].op)
             entry == [tx |-> r, conn |-> c]
  <1>1. /\ Pool!Executes(r, c) /\ connState[c] = "out" /\ broken' = broken
        /\ connState' = IF ends \/ (request[r].op = "statement" /\ request[r].tx = 0)
                        THEN [connState EXCEPT ![c] = "free"] ELSE connState
        /\ inTransaction' = IF begins THEN inTransaction \cup {c}
                            ELSE IF ends THEN inTransaction \ {c} ELSE inTransaction
        /\ openTransactions' = IF begins THEN Append(openTransactions, entry)
                               ELSE openTransactions
    <2>1. /\ Pool!Executes(r, c) /\ connState[c] = "out" /\ broken' = broken
          /\ Pool!AfterSuccess(r, c)
          /\ inTransaction' = IF begins THEN inTransaction \cup {c}
                              ELSE IF ends THEN inTransaction \ {c} ELSE inTransaction
          /\ openTransactions' = IF begins THEN Append(openTransactions, entry)
                                 ELSE openTransactions
      BY DEF Pool!Succeeds
    <2> QED
      BY <2>1 DEF Pool!AfterSuccess, Pool!safeRelease, PoolInv, PoolTypes
  <1>2. /\ stage[r] = "running" /\ conn[r] = c
        /\ commands[c][1] = r /\ Len(commands[c]) > 0
        /\ Len(commands'[c]) = Len(commands[c]) - 1
        /\ \A i \in 1 .. Len(commands'[c]) : commands'[c][i] = commands[c][i + 1]
        /\ UNCHANGED <<request, conn, posted, given_up, rolledBack>>
    BY <1>1, ExecutesFacts DEF PoolInv
  <1>3. /\ IF request[r].tx = 0 THEN request[r].op \in {"statement", "begin"}
           ELSE request[r].op \in {"statement", "commit", "rollback"}
        /\ Len(commands[c]) \in Nat /\ 1 \in 1 .. Len(commands[c])
    BY <1>2 DEF PoolInv, PoolTypes, Queued
  <1>4. \A d \in Entries : d \in PoolEntries /\ d.tx # r
    <2> SUFFICES ASSUME NEW d \in Entries PROVE d \in PoolEntries /\ d.tx # r
      OBVIOUS
    <2>1. d \in PoolEntries /\ stage[d.tx] = "done"
      BY DEF Entries, PoolInv, PoolTypes, EntriesKnown
    <2> QED
      BY <1>2, <2>1
  <1>5. r \notin rolledBack
    BY <1>2 DEF PoolInv, EntriesKnown
  <1>6. entry \in PoolEntries /\ entry.tx = r /\ entry.conn = c
    BY DEF PoolEntries
  <1> HIDE DEF entry
  <1>7. /\ openTransactions' \in Seq(PoolEntries)
        /\ Entries' = IF begins THEN Entries \cup {entry} ELSE Entries
        /\ \A i, j \in 1 .. Len(openTransactions') :
              openTransactions'[i].tx = openTransactions'[j].tx => i = j
    <2>1. CASE begins
      BY <1>1, <1>4, <1>6, <2>1, AddFacts DEF PoolInv
    <2>2. CASE ~begins
      BY <1>1, <2>2 DEF PoolInv, PoolTypes, EntriesKnown, Entries
    <2> QED
      BY <2>1, <2>2
  <1>8. /\ connState' \in [Conns -> {"new", "free", "out", "destroyed"}]
        /\ broken' \subseteq Conns /\ inTransaction' \subseteq Conns
        /\ \A d \in Conns : d # c => /\ connState'[d] = connState[d]
                                     /\ d \in inTransaction' <=> d \in inTransaction
    BY <1>1 DEF PoolInv, PoolTypes
  <1>9. /\ PoolTypes' /\ Closed' /\ Queued' /\ stage'[r] = "done"
        /\ \A t \in Pool!Requests : stage[t] = "done" => t # r /\ stage'[t] = "done"
        /\ \A d \in Conns : d # c =>
              /\ commands'[d] = commands[d]
              /\ \A i \in 1 .. Len(commands[d]) :
                    request'[commands[d][i]] = request[commands[d][i]]
    BY <1>1, <1>7, <1>8, OverFacts
  <1>10. EntriesKnown'
    <2>1. \A d \in Entries : d.conn = conn[d.tx] /\ stage'[d.tx] = "done"
      BY <1>4, <1>9 DEF PoolInv, EntriesKnown, PoolEntries
    <2>2. \A t \in rolledBack : stage'[t] = "done"
      BY <1>9 DEF PoolInv, PoolTypes, EntriesKnown
    <2> QED
      BY <1>2, <1>6, <1>7, <1>9, <2>1, <2>2 DEF EntriesKnown
  <1>11. \A d \in Conns : Live(d)' = IF begins /\ d = c THEN Live(d) \cup {entry} ELSE Live(d)
    BY <1>2, <1>5, <1>6, <1>7 DEF Live
  <1>12. ASSUME NEW d \in Conns, d # c PROVE Held(d)'
    BY <1>1, <1>8, <1>9, <1>11, <1>12, HeldSame DEF PoolInv
  <1>13. Held(c)'
    <2>1. OneShot(c) \/ \E t \in Pool!Requests : InTx(c, t)
      BY <1>1 DEF PoolInv, Held
    <2>2. c \notin broken'
      BY <1>1 DEF PoolInv, Held
    <2>3. CASE OneShot(c)
      <3>1. /\ Len(commands[c]) = 1 /\ Len(commands'[c]) = 0 /\ request[r].tx = 0
            /\ Live(c) = {} /\ c \notin inTransaction
        BY <1>2, <2>3 DEF OneShot
      <3>2. CASE request[r].op = "statement"
        <4>1. connState'[c] = "free" /\ Live(c)' = {} /\ c \notin inTransaction'
          BY <1>1, <1>11, <3>1, <3>2 DEF Pool!Ends, PoolInv, PoolTypes
        <4> QED
          BY <2>2, <3>1, <4>1 DEF Held
      <3>3. CASE request[r].op = "begin"
        <4>1. connState'[c] = "out" /\ Live(c)' = {entry}
          BY <1>1, <1>11, <3>1, <3>3 DEF Pool!Ends
        <4>2. InTx(c, r)'
          BY <1>6, <3>1, <4>1 DEF InTx
        <4> QED
          BY <2>2, <4>1, <4>2 DEF Held
      <3> QED
        BY <1>3, <3>1, <3>2, <3>3
    <2>4. ASSUME NEW t \in Pool!Requests, InTx(c, t) PROVE Held(c)'
      <3>1. request[r].tx = t /\ t # 0
        <4>1. request[r].tx = t
          BY <1>2, <1>3, <2>4 DEF InTx
        <4>2. t # 0
          BY PoolAssumption DEF Pool!Requests
        <4> QED
          BY <4>1, <4>2
      <3>2. ~begins /\ Live(c)' = Live(c)
        BY <1>3, <1>11, <3>1
      <3>3. CASE ends
        <4>1. ~(1 \in 1 .. Len(commands[c]) - 1)
          BY <1>2, <2>4, <3>3 DEF InTx
        <4>2. Len(commands[c]) = 1
          <5>1. Len(commands[c]) \in Nat /\ Len(commands[c]) > 0
            BY <1>2, <1>3
          <5>2. \A n \in Nat : n > 0 /\ ~(1 \in 1 .. n - 1) => n = 1
            OBVIOUS
          <5> QED
            BY <4>1, <5>1, <5>2
        <4>3. Live(c) = {}
          BY <1>2, <2>4, <3>3, <4>2 DEF InTx
        <4>4. connState'[c] = "free" /\ c \notin inTransaction' /\ Len(commands'[c]) = 0
          BY <1>1, <1>2, <3>2, <3>3, <4>2 DEF PoolInv, PoolTypes
        <4> QED
          BY <2>2, <3>2, <4>3, <4>4 DEF Held
      <3>4. CASE ~ends
        <4>1. connState'[c] = "out"
          BY <1>1, <3>1, <3>4
        <4>2. \A i \in 1 .. Len(commands'[c]) :
                 /\ i + 1 \in 1 .. Len(commands[c])
                 /\ request'[commands'[c][i]] = request[commands[c][i + 1]]
          BY <1>2, <1>3
        <4>3. \A i \in 1 .. Len(commands'[c]) : request'[commands'[c][i]].tx = t
          BY <2>4, <4>2 DEF InTx
        <4>4. \A i \in 1 .. Len(commands'[c]) - 1 : ~Pool!Ends(request'[commands'[c][i]].op)
          <5> SUFFICES ASSUME NEW i \in 1 .. Len(commands'[c]) - 1
                       PROVE  ~Pool!Ends(request'[commands'[c][i]].op)
            OBVIOUS
          <5>1. i \in 1 .. Len(commands'[c]) /\ i + 1 \in 1 .. Len(commands[c]) - 1
            BY <1>2, <1>3
          <5> QED
            BY <2>4, <4>2, <5>1 DEF InTx
        <4>5. Len(commands[c]) > 1 =>
                 /\ Len(commands'[c]) > 0
                 /\ request'[commands'[c][Len(commands'[c])]] =
                       request[commands[c][Len(commands[c])]]
          <5> SUFFICES ASSUME Len(commands[c]) > 1
                       PROVE  /\ Len(commands'[c]) > 0
                              /\ request'[commands'[c][Len(commands'[c])]] =
                                    request[commands[c][Len(commands[c])]]
            OBVIOUS
          <5>1. /\ Len(commands'[c]) \in 1 .. Len(commands'[c])
                /\ Len(commands'[c]) + 1 = Len(commands[c])
            BY <1>2, <1>3
          <5> QED
            BY <4>2, <5>1
        <4>6. Len(commands[c]) > 1 \/ (Len(commands[c]) = 1 /\ Len(commands'[c]) = 0)
          <5>1. /\ Len(commands[c]) \in Nat /\ Len(commands[c]) > 0
                /\ Len(commands'[c]) = Len(commands[c]) - 1
            BY <1>2, <1>3
          <5>2. \A n \in Nat : n > 0 => n > 1 \/ (n = 1 /\ n - 1 = 0)
            OBVIOUS
          <5> QED
            BY <5>1, <5>2
        <4>7. Live(c) = {} => Len(commands[c]) > 1
          BY <1>2, <2>4, <3>4, <4>6 DEF InTx
        <4>8. IF Live(c)' = {}
              THEN /\ Len(commands'[c]) > 0
                   /\ Pool!Ends(request'[commands'[c][Len(commands'[c])]].op)
              ELSE Len(commands'[c]) > 0 =>
                      ~Pool!Ends(request'[commands'[c][Len(commands'[c])]].op)
          BY <2>4, <3>2, <4>5, <4>6, <4>7 DEF InTx
        <4>9. InTx(c, t)'
          BY <2>4, <3>2, <4>3, <4>4, <4>8 DEF InTx
        <4> QED
          BY <2>2, <4>1, <4>9 DEF Held
      <3> QED
        BY <3>3, <3>4
    <2> QED
      BY <2>1, <2>3, <2>4
  <1>14. Cardinality(Pool!Out)' <= Limit
    <2>1. Pool!Out' \subseteq Pool!Out
      BY <1>1, <1>8 DEF Pool!Out
    <2>2. IsFiniteSet(Pool!Out)
      BY FS_Subset, PoolAssumption DEF Pool!Out
    <2>3. /\ Cardinality(Pool!Out') <= Cardinality(Pool!Out)
          /\ Cardinality(Pool!Out') \in Nat /\ Cardinality(Pool!Out) \in Nat
      BY <2>1, <2>2, FS_Subset, FS_CardinalityType
    <2> QED
      BY <2>3, PoolAssumption DEF PoolInv
  <1> QED
    BY <1>9, <1>10, <1>12, <1>13, <1>14 DEF PoolInv

\* A statement fails: its connection is destroyed, with its transaction.
LEMMA FailsStep ==
    ASSUME PoolInv, NEW r \in Pool!Requests, NEW c \in Conns, Pool!Fails(r, c)
    PROVE  PoolInv'
  <1> DEFINE t == request[r].tx
             forgets == request[r].op = "statement" /\ t # 0
  <1>1. /\ Pool!Executes(r, c) /\ inTransaction' = inTransaction
        /\ connState' = [connState EXCEPT ![c] = "destroyed"] /\ broken' = broken \cup {c}
        /\ openTransactions' = IF forgets THEN Pool!Drop(t) ELSE openTransactions
    BY DEF Pool!Fails, Pool!safeDestroy
  <1>2. /\ stage[r] = "running" /\ conn[r] = c
        /\ commands[c][1] = r /\ Len(commands[c]) > 0
        /\ UNCHANGED <<request, conn, posted, given_up, rolledBack>>
    BY <1>1, ExecutesFacts DEF PoolInv
  <1>3. /\ IF t = 0 THEN request[r].op \in {"statement", "begin"}
           ELSE /\ request[r].op \in {"statement", "commit", "rollback"} /\ conn[t] = c
        /\ Len(commands[c]) \in Nat /\ 1 \in 1 .. Len(commands[c])
    BY <1>2 DEF PoolInv, PoolTypes, Queued
  <1>4. /\ openTransactions' \in Seq(PoolEntries)
        /\ Entries' = IF forgets THEN {e \in Entries : e.tx # t} ELSE Entries
        /\ \A i, j \in 1 .. Len(openTransactions') :
              openTransactions'[i].tx = openTransactions'[j].tx => i = j
    <2>1. CASE forgets
      BY <1>1, <2>1, DropFacts DEF PoolInv
    <2>2. CASE ~forgets
      BY <1>1, <2>2 DEF PoolInv, PoolTypes, EntriesKnown, Entries
    <2> QED
      BY <2>1, <2>2
  <1>5. /\ connState' \in [Conns -> {"new", "free", "out", "destroyed"}]
        /\ connState'[c] = "destroyed"
        /\ broken' \subseteq Conns /\ inTransaction' \subseteq Conns
        /\ \A d \in Conns : d # c => /\ connState'[d] = connState[d]
                                     /\ d \in broken' <=> d \in broken
    BY <1>1 DEF PoolInv, PoolTypes
  <1>6. /\ PoolTypes' /\ Closed' /\ Queued' /\ stage'[r] = "done"
        /\ \A u \in Pool!Requests : stage[u] = "done" => u # r /\ stage'[u] = "done"
        /\ \A d \in Conns : d # c =>
              /\ commands'[d] = commands[d]
              /\ \A i \in 1 .. Len(commands[d]) :
                    request'[commands[d][i]] = request[commands[d][i]]
    BY <1>1, <1>4, <1>5, OverFacts
  <1>7. \A e \in Entries : e \in PoolEntries /\ e.conn = conn[e.tx] /\ stage[e.tx] = "done"
    BY DEF Entries, PoolInv, PoolTypes, EntriesKnown
  <1>8. EntriesKnown'
    <2>1. \A e \in Entries : e.conn = conn'[e.tx] /\ stage'[e.tx] = "done"
      BY <1>2, <1>6, <1>7 DEF PoolEntries
    <2>2. \A u \in rolledBack : stage'[u] = "done"
      BY <1>6 DEF PoolInv, PoolTypes, EntriesKnown
    <2>3. Entries' \subseteq Entries
      BY <1>4
    <2> QED
      BY <1>2, <1>4, <2>1, <2>2, <2>3 DEF EntriesKnown
  <1>9. \A d \in Conns : Live(d)' = IF forgets THEN {e \in Live(d) : e.tx # t} ELSE Live(d)
    BY <1>2, <1>4 DEF Live
  <1>10. ASSUME NEW d \in Conns, d # c PROVE Held(d)'
    <2>1. forgets => \A e \in Live(d) : e.tx # t
      BY <1>3, <1>7, <1>10 DEF Live
    <2>2. Live(d)' = Live(d)
      BY <1>9, <2>1
    <2>3. d \in inTransaction' <=> d \in inTransaction
      BY <1>1
    <2> QED
      BY <1>5, <1>6, <1>10, <2>2, <2>3, HeldSame DEF PoolInv
  <1>11. Held(c)'
    <2>1. connState[c] \in {"new", "free", "out", "destroyed"} /\ Held(c)
      BY DEF PoolInv, PoolTypes
    <2>2. connState[c] \in {"out", "destroyed"}
      BY <1>2, <2>1 DEF Held
    <2>3. Live(c)' \subseteq Live(c)
      BY <1>9
    <2>4. CASE Live(c) = {}
      BY <1>5, <2>3, <2>4 DEF Held
    <2>5. CASE Live(c) # {}
      <3>1. connState[c] = "out" /\ ~OneShot(c)
        BY <2>1, <2>2, <2>5 DEF Held, OneShot
      <3>2. PICK u \in Pool!Requests : InTx(c, u)
        BY <2>1, <3>1 DEF Held
      <3>3. t = u /\ t # 0 /\ \A e \in Live(c) : e.tx = t
        BY <1>2, <1>3, <3>2, PoolAssumption DEF InTx, Pool!Requests
      <3>4. ~Pool!Ends(request[r].op)
        <4>1. Len(commands[c]) = 1 \/ 1 \in 1 .. Len(commands[c]) - 1
          <5>1. Len(commands[c]) \in Nat /\ Len(commands[c]) > 0
            BY <1>2, <1>3
          <5>2. \A n \in Nat : n > 0 => n = 1 \/ 1 \in 1 .. n - 1
            OBVIOUS
          <5> QED
            BY <5>1, <5>2
        <4> QED
          BY <1>2, <2>5, <3>2, <4>1 DEF InTx
      <3>5. forgets
        BY <1>3, <3>3, <3>4 DEF Pool!Ends
      <3>6. Live(c)' = {}
        BY <1>9, <3>3, <3>5
      <3> QED
        BY <1>5, <3>6 DEF Held
    <2> QED
      BY <2>4, <2>5
  <1>12. Cardinality(Pool!Out)' <= Limit
    <2>1. Pool!Out' \subseteq Pool!Out
      BY <1>5 DEF Pool!Out
    <2>2. IsFiniteSet(Pool!Out)
      BY FS_Subset, PoolAssumption DEF Pool!Out
    <2>3. /\ Cardinality(Pool!Out') <= Cardinality(Pool!Out)
          /\ Cardinality(Pool!Out') \in Nat /\ Cardinality(Pool!Out) \in Nat
      BY <2>1, <2>2, FS_Subset, FS_CardinalityType
    <2> QED
      BY <2>3, PoolAssumption DEF PoolInv
  <1> QED
    BY <1>6, <1>8, <1>10, <1>11, <1>12 DEF PoolInv

\* close() rolls one transaction back: its connection goes back clean, or is destroyed.
LEMMA HandleCloseStep ==
    ASSUME PoolInv, NEW r \in Pool!Requests, Pool!handleClose(r)
    PROVE  PoolInv'
  <1>1. /\ stage[r] = "closing"
        /\ UNCHANGED <<request, stage, conn, posted, given_up, commands, openTransactions>>
    BY DEF Pool!handleClose, Pool!calls
  <1>2. PICK i \in Pool!Left :
           /\ commands[openTransactions[i].conn] = <<>>
           /\ LET c == openTransactions[i].conn
              IN  \/ /\ connState[c] = "out" /\ Pool!safeRelease(c)
                     /\ inTransaction' = inTransaction \ {c} /\ UNCHANGED broken
                  \/ /\ Pool!safeDestroy(c) /\ broken' = broken \cup {c}
                     /\ UNCHANGED inTransaction
           /\ rolledBack' = rolledBack \cup {openTransactions[i].tx}
    BY DEF Pool!handleClose
  <1>0. PICK e, c, t : e = openTransactions[i] /\ c = e.conn /\ t = e.tx
    OBVIOUS
  <1>3. /\ i \in 1 .. Len(openTransactions) /\ t \notin rolledBack
        /\ e \in PoolEntries /\ e \in Entries
    BY <1>0 DEF Pool!Left, PoolInv, PoolTypes, Entries
  <1>4. c \in Conns /\ t \in Pool!Requests /\ c = conn[t] /\ stage[t] = "done" /\ e \in Live(c)
    BY <1>0, <1>3 DEF PoolEntries, PoolInv, EntriesKnown, Live
  <1>5. /\ commands[c] = <<>> /\ rolledBack' = rolledBack \cup {t}
        /\ \/ /\ connState[c] = "out" /\ connState' = [connState EXCEPT ![c] = "free"]
              /\ inTransaction' = inTransaction \ {c} /\ broken' = broken
           \/ /\ connState' = [connState EXCEPT ![c] = "destroyed"]
              /\ broken' = broken \cup {c} /\ inTransaction' = inTransaction
    BY <1>0, <1>2, <1>4 DEF Pool!safeRelease, Pool!safeDestroy, PoolInv, PoolTypes
  <1>6. connState[c] = "out" /\ InTx(c, t)
    <2>1. connState[c] \in {"new", "free", "out", "destroyed"} /\ Held(c)
      BY <1>4 DEF PoolInv, PoolTypes
    <2>2. connState[c] = "out" /\ ~OneShot(c)
      BY <1>4, <2>1 DEF Held, OneShot
    <2>3. PICK u \in Pool!Requests : InTx(c, u)
      BY <2>1, <2>2 DEF Held
    <2>4. e.tx = u
      BY <1>4, <2>3 DEF InTx
    <2> QED
      BY <1>0, <2>2, <2>3, <2>4
  <1>7. c \notin broken
    BY <1>4, <1>6 DEF PoolInv, Held
  <1>8. /\ connState' \in [Conns -> {"new", "free", "out", "destroyed"}]
        /\ connState'[c] \in {"free", "destroyed"}
        /\ broken' \subseteq Conns /\ inTransaction' \subseteq Conns
        /\ rolledBack' \subseteq Pool!Requests
        /\ c \in broken' => connState'[c] = "destroyed"
        /\ connState'[c] = "free" => c \notin inTransaction'
        /\ \A d \in Conns : d # c => /\ connState'[d] = connState[d]
                                     /\ d \in broken' <=> d \in broken
                                     /\ d \in inTransaction' <=> d \in inTransaction
    <2>1. /\ connState \in [Conns -> {"new", "free", "out", "destroyed"}]
          /\ broken \subseteq Conns /\ inTransaction \subseteq Conns
          /\ rolledBack \subseteq Pool!Requests
      BY DEF PoolInv, PoolTypes
    <2>2. CASE /\ connState' = [connState EXCEPT ![c] = "free"]
               /\ inTransaction' = inTransaction \ {c} /\ broken' = broken
      BY <1>4, <1>5, <1>7, <2>1, <2>2
    <2>3. CASE /\ connState' = [connState EXCEPT ![c] = "destroyed"]
               /\ broken' = broken \cup {c} /\ inTransaction' = inTransaction
      BY <1>4, <1>5, <2>1, <2>3
    <2> QED
      BY <1>5, <2>2, <2>3
  <1>9. PoolTypes'
    BY <1>1, <1>8 DEF PoolInv, PoolTypes
  <1>10. EntriesKnown'
    BY <1>1, <1>4, <1>5 DEF PoolInv, EntriesKnown, Entries
  <1>11. Closed'
    <2>1. request[r].op = "close"
      BY <1>1 DEF PoolInv, Closed
    <2> QED
      BY <1>1, <2>1 DEF PoolInv, Closed
  <1>12. Queued'
    BY <1>1 DEF PoolInv, Queued
  <1>13. \A d \in Conns : Live(d)' = {x \in Live(d) : x.tx # t}
    BY <1>1, <1>5 DEF Live, Entries
  <1>14. ASSUME NEW d \in Conns, d # c PROVE Held(d)'
    <2>1. \A x \in Live(d) : x.tx # t
      BY <1>4, <1>14 DEF PoolInv, EntriesKnown, Live
    <2>2. Live(d)' = Live(d)
      BY <1>13, <2>1
    <2> QED
      BY <1>1, <1>8, <1>14, <2>2, HeldSame DEF PoolInv
  <1>15. Held(c)'
    <2>1. Live(c)' = {}
      BY <1>4, <1>6, <1>13 DEF InTx
    <2>2. Len(commands'[c]) = 0
      BY <1>1, <1>5
    <2> QED
      BY <1>8, <2>1, <2>2 DEF Held
  <1>16. Cardinality(Pool!Out)' <= Limit
    <2>1. Pool!Out' \subseteq Pool!Out
      BY <1>8 DEF Pool!Out
    <2>2. IsFiniteSet(Pool!Out)
      BY FS_Subset, PoolAssumption DEF Pool!Out
    <2>3. /\ Cardinality(Pool!Out') <= Cardinality(Pool!Out)
          /\ Cardinality(Pool!Out') \in Nat /\ Cardinality(Pool!Out) \in Nat
      BY <2>1, <2>2, FS_Subset, FS_CardinalityType
    <2> QED
      BY <2>3, PoolAssumption DEF PoolInv
  <1> QED
    BY <1>9, <1>10, <1>11, <1>12, <1>14, <1>15, <1>16 DEF PoolInv

\* The map is cleared once each transaction in it has been rolled back.
LEMMA ClearedStep ==
    ASSUME PoolInv, NEW r \in Pool!Requests, Pool!Cleared(r)
    PROVE  PoolInv'
  <1>1. /\ stage[r] = "closing" /\ stage' = [stage EXCEPT ![r] = "ending"]
        /\ Pool!Left = {} /\ openTransactions' = <<>>
        /\ UNCHANGED <<request, conn, posted, given_up, connState, commands, broken,
                       inTransaction, rolledBack>>
    BY DEF Pool!Cleared, Pool!poolState
  <1>2. \A c \in Conns : Live(c) = {}
    BY <1>1 DEF Pool!Left, Live, Entries
  <1>3. Closed'
    BY <1>1 DEF PoolInv, PoolTypes, Closed
  <1>4. /\ posted \in Nat /\ r <= posted' /\ posted <= posted' /\ posted' \in 0 .. MaxRequests
        /\ given_up' \in BOOLEAN /\ request' \in [Pool!Requests -> PoolRequests]
        /\ \A q \in Pool!Requests : q # r => request'[q] = request[q]
    BY <1>1, PoolAssumption DEF PoolInv, PoolTypes, Pool!Requests
  <1> QED
    BY <1>1, <1>2, <1>3, <1>4, StageStep

-----------------------------------------------------------------------------
LEMMA PoolInvariant == MCSpec => []PoolInv
  <1>1. ASSUME PoolInv, [MCNext]_allVars PROVE PoolInv'
    <2>1. CASE UNCHANGED poolVars
      <3>1. UNCHANGED <<request, stage, conn, posted, given_up, connState, commands, broken,
                        inTransaction, openTransactions, rolledBack>>
        BY <2>1 DEF poolVars
      <3>2. PoolTypes' /\ EntriesKnown' /\ Closed' /\ Queued'
        <4>1. PoolTypes'
          BY <1>1, <3>1 DEF PoolInv, PoolTypes
        <4>2. EntriesKnown' /\ Closed'
          BY <1>1, <3>1 DEF PoolInv, EntriesKnown, Entries, Closed
        <4>3. Queued'
          BY <1>1, <3>1 DEF PoolInv, Queued
        <4> QED
          BY <4>1, <4>2, <4>3
      <3>3. ASSUME NEW c \in Conns PROVE Held(c)'
        BY <1>1, <3>1 DEF PoolInv, Held, OneShot, InTx, Live, Entries
      <3>4. Cardinality(Pool!Out)' <= Limit
        BY <1>1, <3>1 DEF PoolInv, Pool!Out
      <3> QED
        BY <3>2, <3>3, <3>4 DEF PoolInv
    <2>2. CASE Pool!Next
      <3>1. CASE Pool!GivesUp
        BY <1>1, <3>1, GivesUpStep
      <3>2. ASSUME NEW r \in Pool!Requests, Pool!handleRequest(r) PROVE PoolInv'
        BY <1>1, <3>2, NeedsConnectionStep, InTxStep, CloseSentStep DEF Pool!handleRequest
      <3>3. ASSUME NEW r \in Pool!Requests, NEW c \in Conns,
                   Pool!Succeeds(r, c) \/ Pool!Fails(r, c)
            PROVE  PoolInv'
        BY <1>1, <3>3, SucceedsStep, FailsStep
      <3>4. ASSUME NEW r \in Pool!Requests,
                   \/ Pool!getConnection(r) \/ Pool!ConnectFails(r)
                   \/ Pool!handleClose(r) \/ Pool!Cleared(r) \/ Pool!closePoolWithTimeout(r)
            PROVE  PoolInv'
        BY <1>1, <3>4, GetConnectionStep, AnsweredStep, HandleCloseStep, ClearedStep
      <3> QED
        BY <2>2, <3>1, <3>2, <3>3, <3>4 DEF Pool!Next
    <2> QED
      BY <1>1, <2>1, <2>2 DEF MCNext, allVars
  <1> QED
    BY <1>1, PoolInvInit, PTL DEF MCSpec

\* A connection that is out is held by one transaction or one request, and one that is in
\* the pool by none.
LEMMA HoldersFacts ==
    ASSUME PoolInv, NEW c \in Conns
    PROVE  /\ connState[c] = "out" => Cardinality(Pool!Holders(c)) = 1
           /\ connState[c] = "free" => Pool!Holders(c) = {}
  <1> DEFINE Runs(q) == q \in Pool!Requests /\ stage[q] = "running" /\ conn[q] = c
  <1>1. /\ \A h \in Pool!Holders(c) :
              \/ \E e \in Live(c) : h = e.tx
              \/ \E q \in Pool!Requests : Runs(q) /\ request[q].tx = 0 /\ h = q
              \/ \E q \in Pool!Requests : Runs(q) /\ request[q].tx # 0 /\ h = request[q].tx
        /\ \A e \in Live(c) : e.tx \in Pool!Holders(c)
        /\ \A q \in Pool!Requests : Runs(q) =>
              IF request[q].tx = 0 THEN q \in Pool!Holders(c)
              ELSE request[q].tx \in Pool!Holders(c)
    <2>1. Entries = Pool!ToSet(openTransactions)
      BY DEF Entries, Pool!ToSet, ToSet
    <2> QED
      BY <2>1 DEF Pool!Holders, Live
  <1>2. \A q \in Pool!Requests : Runs(q) => \E i \in 1 .. Len(commands[c]) : commands[c][i] = q
    BY DEF PoolInv, Queued
  <1>3. \A i \in 1 .. Len(commands[c]) : commands[c][i] \in Pool!Requests /\ Runs(commands[c][i])
    BY DEF PoolInv, PoolTypes, Queued
  <1>4. Held(c) /\ Len(commands[c]) \in Nat
    BY DEF PoolInv, PoolTypes
  <1>5. ASSUME connState[c] = "free" PROVE Pool!Holders(c) = {}
    BY <1>1, <1>2, <1>4, <1>5 DEF Held
  <1>6. ASSUME connState[c] = "out" PROVE \E h : Pool!Holders(c) = {h}
    <2>1. CASE OneShot(c)
      <3>1. /\ 1 \in 1 .. Len(commands[c]) /\ Live(c) = {} /\ request[commands[c][1]].tx = 0
            /\ \A i \in 1 .. Len(commands[c]) : i = 1
        BY <2>1 DEF OneShot
      <3>2. \A q \in Pool!Requests : Runs(q) => q = commands[c][1]
        BY <1>2, <3>1
      <3>3. Runs(commands[c][1])
        BY <1>3, <3>1
      <3>4. commands[c][1] \in Pool!Holders(c)
        BY <1>1, <3>1, <3>3
      <3>5. \A h \in Pool!Holders(c) : h = commands[c][1]
        BY <1>1, <3>1, <3>2
      <3> QED
        BY <3>4, <3>5
    <2>2. ASSUME NEW t \in Pool!Requests, InTx(c, t) PROVE Pool!Holders(c) = {t}
      <3>1. t # 0
        BY PoolAssumption DEF Pool!Requests
      <3>2. \A q \in Pool!Requests : Runs(q) => request[q].tx = t
        BY <1>2, <2>2 DEF InTx
      <3>3. \A h \in Pool!Holders(c) : h = t
        BY <1>1, <2>2, <3>1, <3>2 DEF InTx
      <3>4. t \in Pool!Holders(c)
        <4>1. CASE Live(c) # {}
          BY <1>1, <2>2, <4>1 DEF InTx
        <4>2. CASE Live(c) = {}
          <5>1. 1 \in 1 .. Len(commands[c])
            BY <1>4, <2>2, <4>2 DEF InTx
          <5> QED
            BY <1>1, <1>3, <3>1, <3>2, <5>1
        <4> QED
          BY <4>1, <4>2
      <3> QED
        BY <3>3, <3>4
    <2> QED
      BY <1>4, <1>6, <2>1, <2>2 DEF Held
  <1> QED
    BY <1>5, <1>6, FS_Singleton

\* The worker keeps account of its connections (mysql-worker-impl.ts): one that is out
\* belongs to one transaction or one request, one that goes back has no statement failed on
\* it and no transaction open, and there are never more out than the limit; whatever fails,
\* and however late a statement comes to an end.
THEOREM ConnectionsKept == MCSpec => []ConnectionsAccounted
  <1>1. PoolInv => ConnectionsAccounted
    <2> SUFFICES ASSUME PoolInv PROVE Pool!ConnectionsAccounted
      BY DEF ConnectionsAccounted
    <2>1. Pool!EachHeldOnce
      BY HoldersFacts, PoolCardinality DEF Pool!EachHeldOnce
    <2>2. Pool!PoolClean
      BY DEF Pool!PoolClean, PoolInv, Held
    <2> QED
      BY <2>1, <2>2, PoolCardinality DEF PoolInv, Pool!ConnectionsAccounted
  <1> QED
    BY <1>1, PoolInvariant, PTL

-----------------------------------------------------------------------------
\* The state of every part keeps its type: sequence numbers within the range the bridge
\* counts, a write lock of SQLite held by the one worker that wrote, each migration run at
\* most once per start and undone at most once per rollback, entries of the connection map
\* for requests of the worker.
THEOREM DatabaseTypes == MCSpec => []TypesOK
  <1>1. ChannelInv => TypeOK
    BY DEF ChannelInv, ChannelTypes
  <1>2. DbInv => Db!TypeOK
    BY DEF DbInv
  <1>3. PoolInv => Pool!TypeOK
    <2> SUFFICES ASSUME PoolInv PROVE Pool!TypeOK
      OBVIOUS
    <2>1. ASSUME NEW i \in 1 .. Len(openTransactions)
          PROVE  /\ openTransactions[i].tx \in Pool!Requests
                 /\ openTransactions[i].conn \in Conns
      <3>1. openTransactions[i] \in PoolEntries
        BY DEF PoolInv, PoolTypes
      <3> QED
        BY <3>1 DEF PoolEntries
    <2> QED
      BY <2>1 DEF PoolInv, PoolTypes, Pool!TypeOK, Pool!None
  <1>4. MigrateInv => Migrate!TypeOK
    <2> SUFFICES ASSUME MigrateInv PROVE Migrate!TypeOK
      OBVIOUS
    <2>1. ASSUME NEW t \in Threads
          PROVE  /\ migrating[t].stage \in {"none", "create", "list", "next", "insert"}
                 /\ migrating[t].at \in {0} \cup Migrate!Names
                 /\ migrating[t].known \subseteq Migrate!Names
      <3>1. migrating[t] \in MigrationRuns
        BY DEF MigrateInv, MigrateTypes
      <3>2. 0 .. Count \subseteq {0} \cup Migrate!Names
        BY MigrateAssumption DEF Migrate!Names
      <3> QED
        BY <3>1, <3>2 DEF MigrationRuns
    <2>2. downs \in [Migrate!Names -> 0 .. MaxRollbacks]
      <3>1. ASSUME NEW m \in Migrate!Names PROVE downs[m] \in 0 .. MaxRollbacks
        <4>1. /\ downs[m] \in Nat /\ rollbacks \in 0 .. MaxRollbacks
              /\ downs[m] + Cardinality(ToUndo) <= rollbacks
          BY DEF MigrateInv, MigrateTypes, UndoneOnce
        <4>2. Cardinality(ToUndo) \in Nat
          BY MigrateAssumption, FS_Subset, FS_CardinalityType DEF ToUndo
        <4> QED
          BY <4>1, <4>2, MigrateAssumption
      <3> QED
        BY <3>1 DEF MigrateInv, MigrateTypes
    <2> QED
      BY <2>1, <2>2 DEF MigrateInv, MigrateTypes, Migrate!TypeOK
  <1>5. ChannelInv /\ DbInv /\ PoolInv /\ MigrateInv => TypesOK
    BY <1>1, <1>2, <1>3, <1>4 DEF TypesOK
  <1> QED
    BY <1>5, ChannelInvariant, DbInvariant, PoolInvariant, MigrateInvariant, PTL

=============================================================================
