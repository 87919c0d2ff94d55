# clean-node-server: models and proofs

clean-node-server runs programs that were compiled to WebAssembly as web
applications. It is a host: it accepts HTTP requests, gives each one to a worker
thread with its own WASM instance, and answers the calls the program makes
through its *bridge* (database, sessions, jobs, schedules, streams, files, ...).

A program is synchronous and cannot wait for a promise. Nearly everything that
is hard about the host comes from that. A worker thread blocks in
`Atomics.wait` while another thread does the asynchronous work, so every
operation has a timeout and may be answered after it was given up. The main
thread owns what all workers share (queue, sessions, jobs, schedules) and runs
one callback at a time, so that its functions interleave at each `await` and
between callbacks. Workers crash, rotate and time out at any moment.

This directory holds TLA+ models of these parts, TLC runs on small instances of
them, and machine-checked proofs of all their safety properties for every instance. All paths below are relative to `src/src/` unless they start with `docs/`.

## Inventory

| Component | State | Operations | Talks to |
|---|---|---|---|
| HTTP server (`server.ts`, `index.ts`) | `inflightCount`, `draining`, sockets, shutdown watchdog | `handleRequest`, `gracefulShutdown`, signal handlers | pool, session store |
| Request worker pool (`workers/request-pool.ts`) | slots, queue, `nextId`, timers, `closed` | `dispatch`, `onWorkerMessage`, `handleWorkerCrash`, `restartSlot`, `close` | one thread per slot, by messages |
| Request worker (`workers/request-worker.ts`) | WASM instance, counters for rotation | one request at a time; asks to be replaced | pool; bridge functions |
| Session channel (`session/broker-store.ts`, `session/session-channel.ts`) | two control words and a buffer of shared memory | `call` (worker), `handleOp` (main thread) | session store |
| Session stores (`session/store.ts`, `session/redis-store.ts`) | sessions with claims and expiry | create, get, set, destroy, cleanup | Redis |
| MySQL channel (`database/mysql.ts`, `database/mysql-worker.ts`) | four control words and a buffer | `sendAndWait`, the worker's message handler | MySQL |
| Database transactions (`bridge/database.ts`, `database/*.ts`) | open transactions, pool connections | `_db_begin`, `_db_execute`, `_db_commit`, `_db_rollback` | SQLite, PostgreSQL, MySQL |
| Background jobs (`bridge/jobs.ts`) | cache of records, table of jobs, poll timer | register, enqueue, cancel, poll, retry, recover | SQLite, the program's handlers |
| Cron schedules (`bridge/schedule.ts`) | registry of entries with a timer each | register, cancel, fire, start, stop | the program's handlers |
| Event streams (`server.ts`, `workers/sse-worker.ts`, `bridge/sse.ts`) | a thread per stream, a shared flag | emit, poll, close, disconnect, end | the client's connection |
| WebSocket registry (`bridge/websocket.ts`) | connections by client id, rooms, the counter of ids | upgrade, send, join, leave, broadcast, stop | clients; handlers of the program |
| Outgoing HTTP (`bridge/http-client.ts`, `bridge/http-worker.ts`) | a shared buffer per instance, the cookie jar and settings | blocking request, redirects | other services |
| MCP transports (`bridge/mcp*.ts`) | a shared buffer, a queue, open responses | read, accept, respond | standard input, HTTP clients |
| MySQL connections (`database/mysql-worker-impl.ts`) | the pool, a connection per transaction | query, begin, commit, rollback, close | MySQL |
| Migrations (`bridge/migration.ts`) | registered migrations, the table `_migrations` | register, run, roll back | the database, exports of the program |
| WASM instances (`wasm/pool.ts`) | available, in use, counts | initialize, acquire, release, close | the loader |
| Memory and handles (`wasm/memory.ts`, `wasm/state.ts`, `bridge/memory-runtime.ts`, `bridge/list.ts`, `bridge/array.ts`) | bump pointer, scopes, reference counts, handle tables, the response | allocate, push and pop a scope, retain, release, walk an array with a callback | the program in one thread |
| Router (`router/index.ts`, `bridge/http-server.ts`) | routes in order, settings of the server | register, match, configure | the server |
| Authentication (`bridge/auth.ts`, `bridge/session.ts`) | registered roles and reset tokens of a thread; cookies of an answer | log in and out, check, redeem | session store |
| Queries of the bridge (`bridge/database.ts`) | the last insert id, results of asynchronous calls | execute, paginate, walk by cursor | database |
| Locale (`locale.ts`, `bridge/i18n.ts`) | files of texts, the current locale | load, set, translate, format | the program in one thread |
| Snapshots, files, strings, cryptography, console, user interface, ... | little or none across requests | synchronous functions | one worker |

### What is hard, and what makes each part correct

- **Pool.** Four handlers move requests (dispatch, timer, response, crash), and
  workers boot, retire and die meanwhile. Correct means: no request waits beside
  a free worker, none is forgotten or started twice, they start in order, an
  answer reaches the request it belongs to, and the pool does not lose workers.
- **Channels.** Two threads share a buffer that carries requests and responses,
  and a caller may time out at any point of the handler. Correct means: a call
  returns its own answer or an error; an operation is executed at most once; and
  no late answer touches the next call.
- **Jobs.** The process may be killed between any two writes. Correct means: the
  cache and the table agree, attempts are counted across lives, nothing is stuck
  in `running`, and what is settled does not run again.
- **Sessions.** Operations of several workers on one session overlap at each
  `await` of Redis. Correct means: destroyed sessions stay destroyed, and no
  write is lost.
- **Schedules.** Handlers may change the registry while it is being used.
  Correct means: one timer per name, none for what is cancelled, and a handler
  runs at matching minutes and at each of them.
- **Shutdown.** Requests are in several stages when it begins. Correct means:
  the drain waits for those in flight, and the process ends in any case.
- **Streams.** The client may leave at any moment, and the handler may never
  look. Correct means: frames in order and complete, and the thread always stops.
- **Rooms.** Sockets close late, handlers run between the two tables they change,
  and a stop clears everything. Correct means: rooms and connections name each
  other, and a broadcast reaches whom it should.
- **A thread's program.** One instance serves one request after another, and
  handlers trap anywhere. Correct means: no allocation lands on another, nothing
  of a request is seen by the next one, a handle names what the program made of
  it, and the thread is replaced before it has grown too far.
- **Access.** Checks, cookies, roles and tokens are spread over the shared store
  and each thread. Correct means: a request acts for the client who sent it, the
  checks agree with each other, and a token works once, in time.
- **Routes.** Patterns overlap, and jobs register more while the server listens.
  Correct means: a request keeps its route, and none gets past the session check.
- **Migrations.** Every thread may run them. Correct means: the rows say what was
  executed, in order, once.
- **Transactions.** A statement may fail, another worker may hold the lock, and
  a handler may trap. Correct means: all or nothing, the answer is true, and the
  lock comes back.

`PROJECT.json` lists the hazards one by one, at the line where each bites, with
the properties that cover it.

## Modules

| Module | Models | Composed with |
|---|---|---|
| `RequestPool` | `request-pool.ts`; threads as environment | |
| `DispatchContract` | what `dispatch()` promises, in 7 actions | |
| `RequestPoolRefinement` | the mapping from pool to contract | `INSTANCE DispatchContract` |
| `ServerLifecycle` | `handleRequest` and the shutdown | `INSTANCE DispatchContract` as the pool |
| `MysqlChannel` | `sendAndWait` and its worker | |
| `SessionChannel` | `call` and `handleOp` | |
| `SessionStore` | both session stores | |
| `JobQueue` | `bridge/jobs.ts` | |
| `CronSchedule` | `bridge/schedule.ts` | |
| `SseStream` | one event stream | |
| `DbTransactions` | transactions of several workers | |
| `MysqlConnections` | the connections behind the MySQL channel | |
| `Migrations` | `bridge/migration.ts` in several threads | |
| `HttpChannel` | `http-client.ts` and its worker | |
| `McpTransport` | both MCP transports and their workers | |
| `WebsocketRooms` | `bridge/websocket.ts` | |
| `RequestWorker` | `request-worker.ts`, the memory of its instance, the response of a request | |
| `HandleStores` | lists, arrays and walks with callbacks | |
| `InstancePool` | `wasm/pool.ts` | |
| `Routing` | `router/index.ts` and what the program registers and configures | |
| `AccessControl` | sessions as handlers use them, roles, cookies, reset and CSRF tokens | |
| `DatabaseBridge` | insert ids, asynchronous results, pages and cursors | |
| `LocaleTexts` | texts, plural forms and numbers of an instance | |
| `MCPool` | | the pool, `Routing`, `InstancePool`, `AccessControl`; and what a thread has inside: `RequestWorker`, `DatabaseBridge`, `LocaleTexts` |
| `MCServer` | | `ServerLifecycle`, `SseStream`, `WebsocketRooms` |
| `MCSessions` | | what a program reaches by blocking calls, `SessionChannel`, `SessionStore`, `HttpChannel`, `McpTransport`, and by handles, `HandleStores` |
| `MCDatabase` | | `MysqlChannel`, `MysqlConnections`, `DbTransactions`, `Migrations` |
| `MCBackground` | | `JobQueue`, `CronSchedule` |
| `Enumerations` | a finite set of numbers in ascending order: rows of a table, places of a pattern or an array | used by `Routing`, `DatabaseBridge`, `HandleStores` |
| `SequenceFacts` | lemmas about sequences, enumerations and bounded induction that all proofs share | |
| `RequestPool_proofs` | proofs about the pool of threads | extends `RequestPoolRefinement` |
| `MCPool_proofs` | proofs about the other parts of `MCPool` | extends `MCPool`, `RequestPool_proofs` |
| `Server_proofs` | proofs about requests in flight and the shutdown | extends `MCServer` |
| `Connections_proofs` | proofs about streams and WebSockets | extends `Server_proofs` |
| `Sessions_proofs` | proofs about channels, stores, MCP and handles | extends `MCSessions` |
| `Database_proofs` | proofs about transactions, migrations and MySQL | extends `MCDatabase` |
| `Background_proofs` | proofs about jobs and schedules | extends `MCBackground` |

The five `MC` modules check several components in one run of TLC. They share no
state, so that interleaving them would show nothing that each does not show
alone: a variable `part`, chosen initially, says which of them runs, the others
stay in an initial state, and properties and fairness are those of the part that
runs. They also state what the constants of the parts are assumed to be: an
assumption inside an instance would not be evaluated. Everything that the code shares is composed inside the modules themselves
(the server over the contract of the pool, the stores under several workers,
jobs over their table, sessions under roles and cookies).

Variables keep the names of the fields they stand for, actions those of the
functions. The comment behind each variable says what it is in the code, and
`PROJECT.json` gives the lines of every definition. Some choices recur:

- *One action is one uninterrupted stretch of code.* On the main thread that is
  a callback up to its next `await`; every call it makes is part of the action
  (`ResponseDrain` is `onWorkerMessage` with its `drainQueue`). Between threads
  that share memory it is a single `Atomics` load, store or notify or one copy of
  the buffer; `Atomics.wait` compares and blocks in one. `HttpChannel` and
  `McpTransport` keep that for the answering side and put loads of the caller that
  follow each other together, with a torn message as one of the outcomes.
- *History variables* record what a property compares with: the first outcome
  of a promise, how often an operation ran, the claims as they should be
  (`truth`). No guard reads them, apart from bounds on faults.
- *Bounds* are constants named `Max...` and appear in guards only. `Spec` allows
  the system to stop at them, which is why deadlock is not checked: an idle
  server waits forever for a request.
- *Seeded faults* are definitions marked with that comment. No specification
  uses them. They are plausible errors of the code; each property is known to
  fail when one of them stands in for the definition it resembles.

### RequestPool and its contract

A `WorkerSlot` object and its thread are one number; a replacement is a new
number. `slots`, `queue`, `pending`, `retiring` and `closed` are the fields of the
class. `thread`, `job` and `outbox` are the other side: what the worker does and
which of its messages the main thread has not seen. Because messages travel
through `outbox`, a response can be behind a timeout, and an `error` event can
be behind a response that already caused a restart. The restart chain
(terminate, boot, install, or pause two seconds, retry, install) is split where
the promises are. Timers of one duration fire in the order in which they were
armed (`TimerDue`).

`DispatchContract` knows no workers: requests are issued, wait in order, run and
are settled once. The mapping says which worker a caller can still hear from
(`RunningForCaller`): a request that timed out may still occupy a worker, and is
settled for the caller.

### ServerLifecycle

`handleRequest` is split at its `await`s. It takes a ticket from the contract for
the dispatch and one more for the error handler of the program. While a settled
dispatch has not been taken up no other callback runs (`Quiet`), as promise
callbacks precede timers and events. Whether the program has an
error handler and where sessions are kept is chosen initially. Time is counted in
units in which a dispatch times out after 1, the drain gives up after 1 and the
watchdog strikes after 2; these keep the order of 30 s, 30 s and 35 s in the
code. Status codes are left out: no property tells them apart.

### Channels

`MysqlChannel` and `SessionChannel` look alike and differ in one thing: the
former carries sequence numbers. Data is abstracted to *which call* it belongs
to, and to `Garbled` for bytes of one message read with the length of another;
two messages may be equally long, so both outcomes are possible. `TimeoutStages`
of the former leaves out no stage in the passing run; instead a history variable
(`raced`) notes that a call has timed out outside the part of the handler that
the sequence numbers protect, and exactness is claimed until then. `late` of the
latter notes that a call began while an earlier operation was under way: the
passing run shows what is true until then, the violation run what happens after.

Storing a response and notifying are two steps. A caller that comes to `Atomics.wait`
between them finds the response, and can be blocked in its next call when the notify
comes and wakes it for nothing. `hurried` has the calls that began in between.
With sequence numbers such a call throws a stale response (`CheckStale`); in the
session and HTTP channels it reads its own request or a torn response, and in
`McpTransport` the program reads the message before once more. No timeout is
needed for that.

### JobQueue, SessionStore, CronSchedule, SseStream, DbTransactions

`JobQueue` keeps the in-memory cache (`records`, `order`) beside the durable
`rows`. `Crash` drops the first, `Boot` recovers from the second. `SessionStore`
has one set of actions per backend: the memory store runs an operation in one
step, Redis in a read and a write with other workers between them; which of them
is used is chosen initially.
`CronSchedule` represents an expression by the minutes it matches and arms real
timers with Node's limit for delays. `SseStream` has the thread, the messages
under way and the response; the handler may do anything. `DbTransactions` is a
handler with two statements that belong together, on every worker, over
connections as each driver uses them.

### What is behind a channel

`MysqlConnections` has the asynchronous handlers of the MySQL worker: a caller
that gave up sends its next request while the last is still executed, so that
several of them use connections at once. `HttpChannel` has the same buffer as the
other channels but no sequence number; it splits the worker at its awaits and
hops and says of each response which call it is of. `McpTransport` has both
transports, chosen initially: lines of standard input, or one HTTP request at a
time, each answered to its own client.

### Inside a thread

`RequestWorker` counts memory in words. The program's `malloc` may or may not
advance the heap pointer, as the comment at `wasm/memory.ts:5-24` says of the
compiled programs; the bump of the bridge makes up for it. A handler allocates,
retains and releases, pushes and pops scopes, writes the fields of its response,
and returns, throws or runs out of memory at any point. Of a field it is kept which
request wrote it. `HandleStores` has one table for lists and one for arrays; a
walk calls the program back between its elements, and the callback may do
all that the program does elsewhere: change the array that is walked, make lists and
arrays, walk again. `walks` is the stack of the walks under way. `DatabaseBridge` says of each
result which call it is of, and lets other workers change the table between two
pages and between the two statements of a page. `LocaleTexts` represents a file by
the forms it holds and a text by file and form; plural categories, fallbacks
and the grouping of digits are those of the code.

### Around a request

`Routing` matches segments: a pattern is a sequence of literals, parameters,
optional parameters and wildcards, a match says which segments each of them took,
the first star as many as it can, and which groups opened. It is the regular
expression that `compilePattern()` really makes: the star in the group of an optional
parameter is replaced as a wildcard afterwards. `AccessControl` has two threads over one store; `copies` says whether the
store hands out copies (Redis, and any store reached through the channel) or its
own objects. `InstancePool` splits `acquire` and `release` at the awaited spawn.
`WebsocketRooms` splits a handler of the program into the bridge calls it makes,
between which nothing else runs, and lets sockets close at any time between
handlers. `Migrations` has the awaits of a run, in two threads.

## Runs

Each run has a `.cfg` of its own; constants are given there.

| Run | Question and answer |
|---|---|
| `Pool` | 2 slots, a queue of 2, 3 requests, 2 faults. Requests start once and in order and never wait beside a free worker; nothing open is forgotten, answers match, late workers retire, every index accounts for its workers; and the pool implements `DispatchContract`. Instances: none is lost or given out twice. Routes: a request keeps the route of its time, its parameters are where they stand, and a protected route sees no request without its role. Access: checks agree, cookies and tokens stay with those they were made for. A thread: allocations stay apart, requests leave nothing behind, rotation comes in time, insert ids and pages are right, texts and numbers are those of the locale. |
| `PoolSettles` | Every request is settled even if handlers hang; emptied slots are refilled. |
| `Server` | The count of requests in flight is exact, the drain ends in time and cuts off nothing dispatched before it began, with an error handler and sessions in memory, and without one and sessions in Redis; a shutdown ends the process whatever hangs. Streams: the client reads every frame in order; the thread stops when the client leaves or the handler ends. WebSockets: rooms and connections name each other, also around a stop and a new start. |
| `Sessions` | Channel: until a call begins while an earlier operation is under way, results match, but for calls that a late notify woke, and nothing runs twice; every call returns unless the process exits. Stores: in memory no change of one worker undoes that of another; expired sessions leave both stores. Outgoing HTTP: until calls overlap, responses, cookies and settings are those of their call, and redirects end. MCP: until a late notify wakes the program, messages are read in order, none twice or never; answers go to their client in any case. Handles: lists and arrays keep what the program made of them, and walks give what the functions promise whatever their callbacks store, append or walk. |
| `Database` | Channel: until a call races with its own late answer, calls return their own answer, time out or, woken by a late notify, throw, and payloads stay intact; every call returns in any case. Connections: each is free, held by one request or transaction, or gone, and none returns with a transaction open. Transactions: with SQLite they are all or nothing and answers are true, even with traps; over a pool, ids are forgotten on every path; the write lock comes back. Migrations: rows and schema agree. |
| `Background` | Jobs: through crashes at every step the table and the cache agree, attempts are counted, and jobs settle, once. Schedules: one timer per name, silence after a cancellation, handlers at matching minutes, and at all of them. |
| `LocaleKept` (violation) | A request that sets no locale is answered in that of an earlier request of another client. |
| `ServerAuth` (violation) | A request that waits for its session is not counted: the drain does not wait for it. |
| `MysqlUnread` (violation) | A message that is read after its call timed out carries the old operation into the next call, in spite of the sequence numbers. |
| `SessionLate` (violation) | After a timeout, a late answer is taken for that of the next call. |
| `DbPooled` (violation) | Over a pool of connections, statements do not join the transaction. |
| `JobLostWrite` (violation) | A failed terminal write leaves a wrong status. |

### Bounds

- Pool: two faults are enough for the double restart, a failed boot with a
  failed retry, and a crash of a worker that is being terminated. Two slots give
  a free worker beside a retiring one; three requests over them give a queue of
  one, and of two while a slot is being restarted. `PoolSettles` has two requests
  and a queue of one. `MaxThreads` leaves numbers for three
  replacements, one more than the faults can cause.
- A thread: two requests, two allocations each, in ten words of memory, so that it
  grows, is exhausted, and rotates by count, by retained heap and by memory. Three
  handles with two elements: a walk over one of two arrays, a walk in whose callback
  a list or an array is made, or a walk inside a walk; the callback swaps the two
  values or answers 1. The theorem has no bound.
  With a memory limit the programs have scopes. Three keys with pages of
  one and of two: a page that is full, one that is not, and the end between, over a table that
  is empty, one with a gap and a full one.
- Locales: English, French with a region, and Russian, with files that lack
  some forms; counts and numbers on both sides of each boundary.
- Routes: five patterns that overlap in every way the router knows, of which three
  are registered in any order, before or after the server listens.
- Access: two threads, two clients, two sessions, two requests, one reset token
  with one registration; one clock tick passes its lifetime.
- Connections: a pool of two and four requests, so that all are taken, one is
  destroyed and another opened. Migrations: two, in two threads, two runs, one
  rollback, one failing statement.
- HTTP: two calls with one redirect and one timeout; the second one follows an
  abandoned call or is woken by the notify of the first. MCP: three messages, one
  too large, one timeout. WebSockets: three sockets, two rooms, ids reused after a
  stop.
- Channels: three calls give an abandoned one, its successor, and one after
  that, or two that are woken late in turn.
- Server: two calls with two tickets each fill the worker and the queue, and
  have one refused. `MaxTime` is beyond the watchdog of a shutdown that begins at
  the first tick.
- Jobs: two jobs with two attempts, two lives, one failing write; recovered
  records have three attempts until the name is registered.
- Cron: two names and two expressions, every minute and every second one, over
  three minutes; three entries let a name be replaced while the other one runs.
- Sessions: two workers are enough for each pair of overlapping operations.
- Streams: three frames around a close and a disconnect.
- Transactions: two workers; three handlers let one meet the leftovers of its
  predecessor. Handlers trap with SQLite only: over a pool nothing is claimed of
  one that does.

### Fairness

Safety properties use no fairness. Liveness uses weak fairness of what the
runtime owes the program: an event loop serves its queue, a timer that is due
fires, a promise that settled continues, a thread that was told to stop exits, a
waiting thread's timeout expires. It never assumes that a handler of the program
returns, with two exceptions that are stated at their specifications: cron and
job handlers run on the main thread, which serves nothing else until they
return, and a handler within a transaction goes on to its next call
(`LockReleased`). For the MySQL and session channels it is assumed of the calling thread
alone (`Calling`): nothing of the answering side, nor of its notify. The threads behind outgoing HTTP, MCP
and MySQL connections run their handlers on, and each statement of a connection
ends; that a program which was offered an MCP message takes and answers it is
assumed, as its loop does nothing else. Timers of schedules that are due need
strong fairness, as another handler may disable them for a while again and
again.

## Proofs

TLC shows a property of one small instance, a theorem shows it for every value of
the constants: any number of threads, requests, calls, sessions, jobs or frames,
any timeouts, any size of memory. Every theorem is about the specification that
the run checks (`Spec` of `RequestPool`, `MCSpec` of the `MC` modules).

| Theorem | States | Inductive invariant |
|---|---|---|
| *`RequestPool_proofs`* | | |
| `PoolTypeCorrect` | `TypeOK`, with the queue within `maxQueueSize` | itself |
| `PoolWorkConserving`, `PoolAtMostOnePlace`, `PoolTracksOpenRequests`, `PoolAccountsRequests` | no request waits beside a free worker; each is in one place and, while open, has its timer | `PoolInv` |
| `PoolStartsInOrder` | requests start in order of dispatch, once, never on a retiring worker | `PoolInv` |
| `PoolAnswersReach` | an answer under way is of the request its worker was given; a worker is retiring exactly if its request timed out | `MailInv`, `LateInv` |
| `PoolCapacity` | each index has one worker or one replacement under way, or lost it to a failed retry, or has gained one by a double restart | `CapacityInv` |
| `PoolImplementsContract` | the pool implements `DispatchContract` | `PoolInv` |
| *`MCPool_proofs`* | | |
| `PoolsAreConserved` | `PoolCapacity`, and no instance is lost or given out twice | `InstanceInv` |
| `MemoryIsIntact` | allocations stay apart and inside memory; what is freed has no scope and no reference | `WorkerInv` |
| `RequestsStartClean` | a request sees its own state only and leaves none; rotation comes in time | `WorkerInv` |
| `AccessIsConsistent` | a request acts for its client or for nobody, reset tokens work once and in time, the checks agree | `SessionInv`, `TokenInv` |
| `RequestsAreRouted` | an answered request keeps its route, which is the first that serves it; parameters are where their names stand; no protected route without its role | `RouterInv` |
| `BridgeExact` | `LAST_INSERT_ID()` is of the same request, no result is replaced by an earlier one; walks by cursor and by page cover their tables | `BridgeInv`, `CursorInv`, `PagesInv` |
| `TextsStayExact` | every count has a text, the most specific one there is; numbers read back as themselves | `Texts!TypeOK` |
| `PoolTyped` | the types of all parts of `MCPool` | all of these, `RouterTypes` |
| *`Server_proofs`* | | |
| `DrainIsExact` | the count in flight is exact, and the drain cuts off nothing dispatched before it began | `ServerInv` |
| *`Connections_proofs`* | | |
| `StreamsAreComplete` | frames are read in order, all of them if the client stays | `StreamInv` |
| `RegistryIsConsistent` | rooms, connections and sockets name each other until an id is used twice | `WebsocketInv` |
| `ServerTypes` | the types of all parts of `MCServer` | these three |
| *`Sessions_proofs`* | | |
| `CallsReturnOwn` | calls of the session channel and of outgoing HTTP return their own answer and are executed once until calls overlap, but for calls woken by a late notify | `ChannelInv`, `HttpInv` |
| `SessionsAreKept` | in memory no worker undoes another, destroyed sessions stay so | `StoreInv` |
| `MessagesAreExact` | MCP answers reach their client; messages are read in order and once until a late notify wakes the program | `McpInv` |
| `HandlesStayIntact` | handles name objects of their own; a walk gives what the function promises unless a callback cuts its array, and keeps its length even then | `HandlesInv` |
| `SessionsTyped` | the types of all parts of `MCSessions` | all of these |
| *`Database_proofs`* | | |
| `TransactionsAtomic` | with SQLite a transaction is all or nothing and its answers are true | `DbInv` |
| `MigrationsFollow` | rows and schema agree | `MigrateInv` |
| `CallsAnsweredExactly` | until one races, calls of the MySQL channel return their own answer, time out, or throw if a late notify woke them | `ChannelInv` |
| `ConnectionsKept` | each connection is free, held once or gone, and clean when it returns | `PoolInv` |
| `DatabaseTypes` | the types of all parts of `MCDatabase` | these four |
| *`Background_proofs`* | | |
| `TableIsConsistent`, `SettledIsForGood` | cache and table agree, attempts are counted, nothing is stuck; what is settled does not run again | `JobInv` |
| `RegistryReachesTimers`, `FiresOnlyAtTicks` | one timer per name; handlers run at matching minutes, never after a cancellation | `CronInv` |
| `BackgroundTypes` | the types of both parts | these two |

### Assumptions

The named `ASSUME`s of the modules, which TLC evaluates in the runs. Most say that
bounds are natural numbers, that sets of calls, threads and connections are finite,
and that "nobody" is not one of them. Others come from the code:

- `TimesAssumption` (`ServerLifecycle`): a dispatch times out no later than the drain
  gives up, and that before the watchdog strikes: 30 s, 30 s and 35 s.
- `InstanceAssumption` (`MCPool`): the pool is not larger than all instances there
  can be, and an instance serves one request at least.
- `WorkerAssumption` (`MCPool`): a program asks for a word at least, and its heap
  starts inside its memory, which does not start larger than it can get.
- `AccessAssumption` (`MCPool`): no user has the empty name.
- `RoutingAssumption` (`MCPool`): a pattern is a sequence of segments of the four kinds.

One theorem has a hypothesis of its own: `FiresOnlyAtTicks` assumes `OccurrencesFit`: the
next minute an expression
matches is never farther away than a timer of Node can wait (24.8 days); the code
fires early otherwise (see Findings). What the code does *not* guarantee is in the
properties themselves, as antecedents (`raced`, `late`, `hurried`, `cut`, `reused`, `overlapped`,
`reentered`, `faults`); the theorems carry them along.

### Why the invariants are what they are

None of the properties is inductive as it stands. In short, what each proof has to
know besides:

- *Pool.* A new request may be sent at once only because a free worker means an
  empty queue. `restartSlot` empties `slots` at the worker's own index, so a slot
  must hold a worker of that index that has started (`SlotsHoldOwnWorkers`); a
  replacement must be new (`ThreadsNumbered`) and idle (`NewWorkersIdle`); ids grow
  along the queue and are smaller in the workers (`QueueOrdered`, `PendingOrdered`);
  ids not yet dispatched are untouched (`NewRequestsOpen`). `MailInv` says what can be in
  an outbox: one response at most, which is first and of the pending request, and
  behind it only the error of a failed thread; nothing while the thread works on a
  request. `LateInv`: the timer of a settled request is off, and a worker in a slot is
  retiring exactly if its request timed out. `CapacityInv`: a thread not started yet
  has no restart under way, and finitely many calls of `restartSlot` are, so that
  they can be counted against the workers they replace. The refinement follows action by
  action; a worker that lets go of one request and takes the next is one step of the
  contract for the caller (`HandOver`).
- *Thread.* The blocks of a request lie one above the other below the bump
  pointer (`Allocated`); addresses from there on were never seen, and a reference
  count is what the program holds plus the scope that will release it, of which
  there is one at most (`Counted`). Between
  requests the thread is `Settled`; what it may keep is in `Retained`.
- *Access.* Session ids travel: created for a request, set as its cookie, kept in the
  jar of its client, presented again. All ids on that way are ones the client has
  made (`CookiesMade`). A token that a thread holds is unredeemed (`TokensHeld`).
- *Routes.* A request was answered by the first route for the method it was asked as
  (GET for a HEAD that no route takes). Routes are appended, so first stays first.
  Parameters: the router lists optional names before required ones, while groups are
  numbered as they open. For a parameter of which `ReadInPlace` holds, as many names are
  listed before it as groups open before it, each of them for one position
  (`NameFound`, `FlattenLead`), whatever the pattern.
- *Walks over a table.* `CursorInv`: the keys met so far ascend and lie at or below the
  cursor, and every row there since the beginning that lies there has been met, so that
  rows that come and go do not matter. `PagesInv`: while the table does not change, the
  pages read are the beginning of its rows in order, as long as the pages are full.
- *Texts.* Types are enough. `ReadsBack` says of numbers of any length that what is
  shown reads back: places are counted from the right, so that a character is a
  separator exactly if its place is a multiple of four, and the place of a figure
  follows from its number (`CharacterNumbers`, `ShowsNext`). `TextsExact` itself is about
  the plural tables and the numbers the model lists.
- *Handles.* Objects are never shared: handles of one table name different ones, and
  no list is an array (`HandlesDistinct`), so that a write through one handle changes
  nothing else. What a walk has gathered, be it the innermost or one that waits below
  it, is what the function gives for the elements it has passed (`Gathered`, `Prefix`)
  as long as the array it began with is a prefix of what is there (`WalkInv`); a result is
  that of all of them (`FoundInv`).
- *Server.* A call has a ticket below the next one (`TicketsIssued`); tickets from
  before the shutdown are below the one noted when it began, and their timers are
  due before the drain ends (`TimersDue`, `ShutdownBegun`).
- *Streams.* The frames in the messages under way are the ones after those written
  (`FramesQueued`), and a message that ends the stream is behind them.
- *WebSockets.* A connection is of the socket with its id, which is not above the
  counter; every open socket is connected, and two live sockets never share an id
  (`IdsStand`). This holds until an id is used twice after a stop.
- *Channels.* MySQL: the handler of the current call holds its sequence number, those
  of earlier calls a smaller one, which the guard will refuse; what is in the buffer
  follows from the stage of both sides (`Clean`). A caller that a late notify wakes finds
  the sequence number of the call before, which is smaller. Sessions: all calls but the
  current one are over (`OneUnderWay`), and the buffer and the results follow the stage
  (`BufferFollows`, `ResultsFollow`); once a call was woken too early its operation
  stays under way, so that the next call ends the claim. Outgoing HTTP: the same, with
  what is left to write (`BufferOfLast`). MCP: how much is stored of the message on offer
  (`Filled`), which is the next one after those read (`ReadOnce`, `AskedOnce`); over HTTP it
  is the only one unanswered (`OneUnanswered`), and answers are posted for the request they
  are about (`OwnPosted`), also by a program that reads an old one again.
- *Connections.* `Held`: a connection that is out serves one statement outside of
  transactions, or one transaction, whose `COMMIT` or `ROLLBACK` is the last command in
  its queue; a free one has nothing under way. `EntriesKnown`: an entry of the map is
  of a transaction that began, on the connection it began on.
- *Transactions.* A handler's statements are all in its transaction, none commits by
  itself (`InTransaction`); what is uncommitted is its own, and all of it is there
  (`OwnWrites`); durable is what was committed (`DurableCommitted`), and a handler that
  does not trap takes its transaction with it (`NothingLeft`).
- *Migrations.* A run applies in order what it has seen missing, so that all before
  it are attempted (`Attempted`); without overlap what it has seen is still true
  (`Alone`, `Followed`).
- *Jobs.* The record in the cache and the row in the table, by the phase of the
  process: what a crash leaves and what `Boot` makes of it (`TableFollows`,
  `SettledStays`, `RunsCounted`).
- *Schedules.* An armed entry is the one its name stands for (`OneTimerPerName`), and
  so is one whose handler runs (`FiringOwns`); a cancelled name has no active entry
  (`CancelledRests`); a timer is not due before a minute of its expression
  (`TimersFit`).

Lemmas about operators that several proofs need are in `SequenceFacts`: splicing a
sequence, sequences without repetition, flattening, and the enumeration of a finite
set of numbers, which exists, is the only one, and can be taken apart at any place.
Where an argument goes by induction on the length of a sequence it goes by the least
counterexample instead (`LeastNatural`, `HoldsUpTo`), which needs no theorem with an
operator as parameter; so do the existence of a recursive function (`JoinedExists`) and
the value of `array_reduce`.

### Model-checked only

- Liveness: `EveryRequestSettles`, `SlotsRefilled`, `EveryCallReturns`, `ExpiredLeaves`,
  `WorkGetsDone`, `WorkEnds`. The proof system reaches neither fairness nor
  `ENABLED`.
- The inputs of pure functions on which `TextsExact` depends, the plural rules and the
  counts of `LocaleTexts`, are the finite ones of the model; the theorem does not say
  more of them than TLC does.

No module that is proved about declares a `RECURSIVE` operator.

## Findings

The six runs marked *violation* each refute a sentence of the documentation, a
comment or a test. `PROJECT.json` quotes the sentence and says what the code
does. They are kept as runs: when the code changes they say whether the
disagreement is gone.

The restart chain of the pool has a deviation that its comments do not speak of:
a worker that asks for rotation and crashes before it has exited is restarted
twice, and the second replacement overwrites the first one in `slots`
(`workers/request-pool.ts:142`). `CapacityConserved` counts such threads (`extra`).

Other known deviations are visible in the models as antecedents of properties:

- `MysqlChannel` (`raced`): when a call times out between the guard of
  `writeResponse()` and its stores, the old response overwrites the request of
  the next call (`database/mysql-worker.ts:56`).
- All channels (`hurried`): a response is stored and notified in two steps
  (`database/mysql-worker.ts:76-77`, `session/session-channel.ts:45-46`,
  `bridge/http-worker.ts:36-37`, `bridge/mcp-stdio-worker.ts:26-27`,
  `bridge/mcp-http-worker.ts:48-49`), and the notify may wake the next wait. A MySQL
  call then throws a stale response, although its statement is executed. The callers
  of the others look at nothing but the result of `Atomics.wait`: a session call decodes
  its own request; so does an HTTP call, which traps if cookies are on; an MCP
  program reads an old message again, or a torn one. A request of MCP over HTTP whose
  id was lost in that way is never answered, and none after it is served.
- `JobQueue`: a job enqueued by `start()`, before `startJobWorker()` has opened
  the database, is never inserted into the table (`bridge/jobs.ts:624`).
- `CronSchedule` (`reentered`): a handler that registers its own name again
  leaves two armed entries, one of which no name reaches any more
  (`bridge/schedule.ts:270`); `MaxDelay`: a delay beyond 2^31-1 ms fires at once
  (`bridge/schedule.ts:184`).
- `SessionStore` (`ClaimsKept`): in Redis, two overlapping changes of one session
  lose one of the two, and a change that overlaps `destroy()` brings the session
  back (`session/redis-store.ts:60`).
- `AccessControl` (`copies`): `_session_set_csrf` changes a copy of the session in
  a request worker and answers 1, so that the token is not stored
  (`bridge/session.ts:439`). Roles that a handler registers, and reset tokens, are
  known to its thread only.
- `HttpChannel` (`raced`): after a timeout the worker still executes the request
  and writes into the buffer of the next call (`bridge/http-client.ts:53`).
- `WebsocketRooms` (`reused`): a stop resets the counter of ids before the old
  sockets have closed; the close event of one of them removes the new client of
  the same id (`bridge/websocket.ts:194`). In request workers the registry is
  empty: what a handler sends or joins there has no effect.
- `Migrations` (`overlapped`, `faults`): nothing keeps two runs apart, a statement
  that fails is recorded as done, and a list that cannot be read counts as
  empty (`bridge/migration.ts:369`).
- `DatabaseBridge`: results of `_db_query_async` are there after the handler has
  returned, for the next one to read (`bridge/database.ts:6-10`). On the main
  thread, where jobs run, no request context is set, so that the last insert
  id persists.
- `HandleStores` (`cut`): `array_reduce` and `array_find` go on while the callback pushes.
  Of an array that a callback overwrites or shortens only lengths are claimed.
- `Routing`: the replacement of `*` also hits the group that an optional parameter was
  replaced by (`router/index.ts:145`, `:157`): `/users/:id?` becomes
  `^/users/([^/](.*))$`, which matches neither `/users` nor `/users/`, but
  `/users/1/x/y`, with `id` being `1/x/y`. Its second group has no name, like
  that of a wildcard, and optional parameters are named before required ones; so
  `/a/:y?/:x` binds `x` to the end of `y`, and parameters after a wildcard are shifted.
  `ParamsBound` claims the rest. `HEAD` takes a
  `*` route before an earlier `GET` one. A protected route wants exactly its role
  (`server.ts:420`), while `_auth_require_role` lets an administrator pass.
- The port of the command line always wins over the program's, while for the host
  the program wins (`server.ts:660`, `index.ts:150`); a port configured by the
  program before is not forgotten with the other settings
  (`bridge/http-server.ts:94`).
- `LocaleTexts`: a form of the count in the default locale's file is preferred
  over the `other` form of the language asked for, and the category is that of
  the locale asked for even when the text is from another file
  (`locale.ts:99-120`).

Three more are outside the models: `res.write()` of a stream is not awaited, so that
the frames for a slow client accumulate (`server.ts:585`); the client taken from the
pool is not released when `BEGIN` throws (`database/postgres-worker.ts:85`); the
date of medium length lacks the day in Japanese and Chinese (`locale.ts:529`).

## Not modelled

Formatting, logging, parsing of bytes and pure input and output (files, mail,
console, cryptography, strings, user interface) hold no state that steps
could interleave on. The timing of handlers is free throughout. Of the modelled
parts: what the middleware of the server does (CORS, limits, static files,
metrics), job arguments and delays between retries, cookie attributes, headers
and bodies of HTTP, the schema diff of migrations, placeholders, currencies and
dates of locales, percent decoding, and typed accessors of memory are left out;
`update()` and `extend()` of the session stores cannot be called from a worker.
The asynchronous fallback of `bridge/database.ts` for drivers without synchronous
calls is not reachable with the drivers there are. Node, Redis, the databases and
the WASM runtime appear as far as the code relies on them and are marked external.

## Plan

Done: the pool with its contract; server and shutdown; all blocking channels and
the connections behind one of them; sessions, jobs, schedules, streams,
WebSockets; transactions, queries and migrations; threads with their memory, handles
and instances; routes, access, locales; and proofs of their safety properties as
listed above.

Next, in this order:

1. An abstract specification of a blocking call that all channels are compared
   with, and the refinement of it by each.
2. Pure algorithms as operators against a definition: the next minute of a cron
   expression, the calendar arithmetic of `bridge/time.ts`.
3. The middleware of the server: rate limits over windows of time.
