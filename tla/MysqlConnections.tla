-------------------------- MODULE MysqlConnections --------------------------
(***************************************************************************)
(* What the MySQL worker does with a request once it has read it:          *)
(* database/mysql-worker-impl.ts, with the connections of its pool.  The   *)
(* handlers are asynchronous, and a caller that has given up sends its     *)
(* next request while the last one is still under way; a connection        *)
(* executes its statements in the order in which it gets them.  The pool   *)
(* and the connections are external (mysql2): a statement on a destroyed   *)
(* connection fails, any other may.                                        *)
(***************************************************************************)
EXTENDS Naturals, Sequences, FiniteSets, SequencesExt

CONSTANTS
    Conns,        \* connections ever opened
    Limit,        \* connectionLimit of the pool
    MaxRequests

VARIABLES
    request,       \* each request: [op, tx]; tx is the request that began it
    stage,         \* "none", "connecting", "running", "closing", "ending" or "done"
    conn,          \* the connection a request uses
    posted,        \* requests so far
    given_up,      \* the caller no longer waits for the last one
    state,         \* each connection: "new", "free", "out" or "destroyed"
    commands,      \* the statements a connection has still to execute
    broken,        \* connections on which a statement failed
    inTransaction, \* connections with a transaction open in the database
    transactions,  \* transactions: the transactions in the order they began
    rolledBack     \* those handleClose has dealt with

poolState == <<state, commands, broken, inTransaction>>
calls == <<request, stage, conn, posted, given_up>>
vars == <<calls, poolState, transactions, rolledBack>>

Requests == 1 .. MaxRequests
None == "none"
NoRequest == [op |-> None, tx |-> 0]

\* transactions is a Map from ids to connections, as a sequence of pairs.
Open(t) == \E i \in 1 .. Len(transactions) : transactions[i].tx = t
Position(t) == CHOOSE i \in 1 .. Len(transactions) : transactions[i].tx = t
ConnOf(t) == transactions[Position(t)].conn
Drop(t) == IF Open(t) THEN RemoveAt(transactions, Position(t)) ELSE transactions

Init ==
    /\ request = [r \in Requests |-> NoRequest] /\ stage = [r \in Requests |-> None]
    /\ conn = [r \in Requests |-> None] /\ posted = 0 /\ given_up = FALSE
    /\ state = [c \in Conns |-> "new"] /\ commands = [c \in Conns |-> <<>>]
    /\ broken = {} /\ inTransaction = {}
    /\ transactions = <<>> /\ rolledBack = {}

-----------------------------------------------------------------------------
\* The caller sends a request when the last one is answered or given up; close()
\* is the last it sends.
Sends(r, op, t) ==
    /\ r = posted + 1 /\ posted' = r /\ given_up' = FALSE
    /\ posted > 0 => /\ stage[posted] = "done" \/ given_up
                     /\ request[posted].op # "close"
    /\ request' = [request EXCEPT ![r] = [op |-> op, tx |-> t]]

GivesUp ==
    /\ posted > 0 /\ stage[posted] # "done" /\ ~given_up /\ given_up' = TRUE
    /\ UNCHANGED <<request, stage, conn, posted, poolState, transactions, rolledBack>>

\* A statement outside of a transaction, or the start of one, needs a connection.
NeedsConnection(r, op) ==
    /\ Sends(r, op, 0)
    /\ stage' = [stage EXCEPT ![r] = "connecting"]
    /\ UNCHANGED <<conn, poolState, transactions, rolledBack>>

Enqueue(r, c) ==
    /\ stage' = [stage EXCEPT ![r] = "running"]
    /\ conn' = [conn EXCEPT ![r] = c]
    /\ commands' = [commands EXCEPT ![c] = Append(@, r)]

TxNotFound(r) ==
    /\ stage' = [stage EXCEPT ![r] = "done"]
    /\ UNCHANGED <<conn, commands, transactions>>

\* handleQuery and handleExecute with a txId.
StatementInTx(r, t) ==
    /\ Sends(r, "statement", t)
    /\ IF Open(t) THEN Enqueue(r, ConnOf(t)) /\ UNCHANGED transactions
       ELSE TxNotFound(r)
    /\ UNCHANGED <<state, broken, inTransaction, rolledBack>>

\* Both take the transaction out of the map before they wait.
handleCommit(r, t) ==
    /\ Sends(r, "commit", t)
    /\ IF Open(t) THEN Enqueue(r, ConnOf(t)) /\ transactions' = Drop(t)
       ELSE TxNotFound(r)
    /\ UNCHANGED <<state, broken, inTransaction, rolledBack>>

handleRollback(r, t) ==
    /\ Sends(r, "rollback", t)
    /\ IF Open(t) THEN Enqueue(r, ConnOf(t)) /\ transactions' = Drop(t)
       ELSE TxNotFound(r)
    /\ UNCHANGED <<state, broken, inTransaction, rolledBack>>

\* The transactions the caller can name: those whose begin it saw answered.
Named(r) == {t \in 1 .. r - 1 : request[t].op = "begin" /\ stage[t] = "done"}

handleRequest(r) ==
    \/ NeedsConnection(r, "statement")
    \/ NeedsConnection(r, "begin")
    \/ \E t \in Named(r) : StatementInTx(r, t) \/ handleCommit(r, t) \/ handleRollback(r, t)
    \/ /\ Sends(r, "close", 0)
       /\ stage' = [stage EXCEPT ![r] = "closing"]
       /\ UNCHANGED <<conn, poolState, transactions, rolledBack>>

-----------------------------------------------------------------------------
\* pool.getConnection(): a free connection, or a new one below the limit.
Out == {c \in Conns : state[c] = "out"}

getConnection(r) ==
    /\ stage[r] = "connecting" /\ Cardinality(Out) < Limit
    /\ \E c \in Conns :
          /\ \/ state[c] = "free"
             \/ state[c] = "new" /\ \A d \in Conns : state[d] # "free"
          /\ state' = [state EXCEPT ![c] = "out"]
          /\ Enqueue(r, c)
    /\ UNCHANGED <<request, posted, given_up, broken, inTransaction, transactions, rolledBack>>

ConnectFails(r) ==
    /\ stage[r] = "connecting"
    /\ stage' = [stage EXCEPT ![r] = "done"]
    /\ UNCHANGED <<request, conn, posted, given_up, poolState, transactions, rolledBack>>

safeRelease(c) == state' = [state EXCEPT ![c] = IF @ = "out" THEN "free" ELSE @]
\* seeded fault: the wedge of mysql-worker-impl.ts:121, an error releases
ReleaseOnError(c) == state' = [state EXCEPT ![c] = "free"]
safeDestroy(c) == state' = [state EXCEPT ![c] = "destroyed"]

Executes(r, c) ==
    /\ stage[r] = "running" /\ conn[r] = c
    /\ commands[c] # <<>> /\ Head(commands[c]) = r
    /\ commands' = [commands EXCEPT ![c] = Tail(@)]
    /\ stage' = [stage EXCEPT ![r] = "done"]
    /\ UNCHANGED <<request, conn, posted, given_up, rolledBack>>

\* The statement succeeds: outside of a transaction, and at the end of one, the
\* connection goes back.
Ends(op) == op \in {"commit", "rollback"}

AfterSuccess(r, c) ==
    IF Ends(request[r].op) \/ (request[r].op = "statement" /\ request[r].tx = 0)
    THEN safeRelease(c) ELSE UNCHANGED state

Succeeds(r, c) ==
    /\ Executes(r, c) /\ state[c] = "out"
    /\ AfterSuccess(r, c)
    /\ inTransaction' = IF request[r].op = "begin" THEN inTransaction \cup {c}
                        ELSE IF Ends(request[r].op) THEN inTransaction \ {c}
                        ELSE inTransaction
    /\ transactions' = IF request[r].op = "begin"
                       THEN Append(transactions, [tx |-> r, conn |-> c])
                       ELSE transactions
    /\ UNCHANGED broken

\* It fails: the connection is destroyed and its transaction forgotten.
Fails(r, c) ==
    /\ Executes(r, c)
    /\ safeDestroy(c) /\ broken' = broken \cup {c}
    /\ transactions' = IF request[r].op = "statement" /\ request[r].tx # 0
                       THEN Drop(request[r].tx) ELSE transactions
    /\ UNCHANGED inTransaction

-----------------------------------------------------------------------------
\* handleClose: one transaction after the other is rolled back, in the order of
\* the map, then the map is cleared and the pool ended.
Left == {i \in 1 .. Len(transactions) : transactions[i].tx \notin rolledBack}

handleClose(r) ==
    /\ stage[r] = "closing"
    /\ \E i \in Left :
          /\ \A j \in Left : i <= j
          /\ LET c == transactions[i].conn
             IN  /\ commands[c] = <<>>
                 /\ \/ /\ state[c] = "out" /\ safeRelease(c)
                       /\ inTransaction' = inTransaction \ {c} /\ UNCHANGED broken
                    \/ /\ safeDestroy(c) /\ broken' = broken \cup {c}
                       /\ UNCHANGED inTransaction
          /\ rolledBack' = rolledBack \cup {transactions[i].tx}
    /\ UNCHANGED <<calls, commands, transactions>>

Cleared(r) ==
    /\ stage[r] = "closing" /\ Left = {}
    /\ transactions' = <<>> /\ stage' = [stage EXCEPT ![r] = "ending"]
    /\ UNCHANGED <<request, conn, posted, given_up, poolState, rolledBack>>

\* pool.end() waits for the connections that are out; after five seconds the
\* worker no longer waits for it.
closePoolWithTimeout(r) ==
    /\ stage[r] = "ending" /\ stage' = [stage EXCEPT ![r] = "done"]
    /\ UNCHANGED <<request, conn, posted, given_up, poolState, transactions, rolledBack>>

Next ==
    \/ GivesUp
    \/ \E r \in Requests :
          \/ handleRequest(r) \/ getConnection(r) \/ ConnectFails(r)
          \/ handleClose(r) \/ Cleared(r) \/ closePoolWithTimeout(r)
          \/ \E c \in Conns : Succeeds(r, c) \/ Fails(r, c)

\* Every statement comes to an end and the timer of close() runs.
Fairness ==
    \A r \in Requests :
        /\ WF_vars(\E c \in Conns : Fails(r, c) \/ Succeeds(r, c))
        /\ WF_vars(handleClose(r)) /\ WF_vars(Cleared(r))
        /\ WF_vars(closePoolWithTimeout(r))

Spec == Init /\ [][Next]_vars /\ Fairness

-----------------------------------------------------------------------------
TypeOK ==
    /\ stage \in [Requests -> {None, "connecting", "running", "closing", "ending", "done"}]
    /\ conn \in [Requests -> Conns \cup {None}] /\ posted \in 0 .. MaxRequests
    /\ state \in [Conns -> {"new", "free", "out", "destroyed"}]
    /\ broken \subseteq Conns /\ inTransaction \subseteq Conns
    /\ \A i \in 1 .. Len(transactions) :
          transactions[i].tx \in Requests /\ transactions[i].conn \in Conns

Holders(c) ==
    {e.tx : e \in {e \in ToSet(transactions) : e.conn = c /\ e.tx \notin rolledBack}}
    \cup {r \in Requests : stage[r] = "running" /\ conn[r] = c /\ request[r].tx = 0}
    \cup {request[r].tx : r \in {r \in Requests : stage[r] = "running" /\ conn[r] = c
                                                  /\ request[r].tx # 0}}

\* A connection that is out belongs to one transaction or one request, and one
\* in the pool to none: no connection leaks, and none is shared.
EachHeldOnce ==
    \A c \in Conns :
        /\ state[c] = "out" => Cardinality(Holders(c)) = 1
        /\ state[c] = "free" => Holders(c) = {}

\* What goes back to the pool has no statement failed on it and no transaction
\* left open, so that the next caller starts clean.
PoolClean ==
    \A c \in Conns : state[c] = "free" => c \notin broken /\ c \notin inTransaction

ConnectionsAccounted == EachHeldOnce /\ PoolClean /\ Cardinality(Out) <= Limit

\* close() is answered, whatever its statements and its pool do.
CloseAnswered ==
    LET Closing == \E r \in Requests : stage[r] \in {"closing", "ending"}
    IN  Closing ~> ~Closing
=============================================================================
