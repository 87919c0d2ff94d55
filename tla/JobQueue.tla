------------------------------ MODULE JobQueue ------------------------------
(***************************************************************************)
(* The background job queue of bridge/jobs.ts: a table of jobs in SQLite,  *)
(* a write-through cache of the unfinished ones, and a poll loop on the    *)
(* main thread that claims due jobs, runs their handler and applies the    *)
(* outcome.  The process may be killed between any two database writes and *)
(* is started again; a write may fail.                                     *)
(*                                                                         *)
(* The jobs share one job name.  A timestamp is abstracted to whether it   *)
(* has been reached; arguments, results and error texts are left out.      *)
(***************************************************************************)
EXTENDS Integers, Sequences, FiniteSets, SequencesExt

CONSTANTS
    Jobs,           \* the jobs enqueueJobAt() may create, in this order
    Limits,         \* values of max_attempts given to _job_register
    MaxJobsPerPoll, \* MAX_JOBS_PER_POLL
    MaxFaults,      \* bound: failed database writes and failed openings
    MaxLives        \* bound: starts of the process

ASSUME JobsAssumption == Jobs \subseteq Nat \ {0} /\ IsFiniteSet(Jobs)
ASSUME LimitsAssumption == Limits \subseteq Nat \ {0}
ASSUME MaxJobsPerPollAssumption == MaxJobsPerPoll \in Nat \ {0}
ASSUME MaxFaultsAssumption == MaxFaults \in Nat
ASSUME MaxLivesAssumption == MaxLives \in Nat \ {0}

RecoveredAttempts == 3   \* maxAttempts of a recovered record
Terminal  == {"succeeded", "failed", "cancelled"}
Statuses  == {"pending", "running"} \cup Terminal
None      == 0

VARIABLES
    phase,      \* "down", "starting" (start() runs) or "serving" (workerStarted)
    limit,      \* configs: max_attempts of the job name, 0 when not registered
    db,         \* whether db is open
    records,    \* records: job -> JobRecord, for the jobs in Range(order)
    order,      \* the keys of records in insertion order
    due,        \* the rest of workerTick()'s list
    current,    \* the job whose handler runs, or None
    rows,       \* the table: what is durable of each job, or NoRow
    arrived,    \* jobs whose scheduled time has been reached
    runs,       \* how often the handler of each job was started
    outcome,    \* the first terminal status a job was given
    expired,    \* jobs whose finished row was deleted after the retention time
    faults, lives

memory  == <<limit, db, records, order, due, current>>
history == <<runs, outcome, expired>>
vars == <<phase, memory, rows, arrived, history, faults, lives>>

\* known: the handler name is set (it is '' after recovery).
Record(status, attempt, max, known) ==
    [status |-> status, attempt |-> attempt, max |-> max, known |-> known]
NoRecord == Record("none", 0, 0, FALSE)
Row(r)   == [status |-> r.status, attempt |-> r.attempt]
NoRow    == [status |-> "none", attempt |-> 0]

Cached == Range(order)

-----------------------------------------------------------------------------
(* Database writes.  Each is caught and logged when it fails.              *)

Attempted(ok) == /\ ok \in BOOLEAN
                 /\ ok \/ (db /\ faults < MaxFaults)
                 /\ faults' = IF ok THEN faults ELSE faults + 1

\* UPDATE ... WHERE id = ?
DbUpdate(j, r, ok) ==
    rows' = IF db /\ ok /\ rows[j] # NoRow THEN [rows EXCEPT ![j] = Row(r)] ELSE rows

DbInsert(j, r, ok) ==
    rows' = IF db /\ ok THEN [rows EXCEPT ![j] = Row(r)] ELSE rows

Position(j) == CHOOSE i \in DOMAIN order : order[i] = j

\* A terminal record leaves the cache when there is a database.
Evict(j, r) ==
    IF db THEN /\ records' = [records EXCEPT ![j] = NoRecord]
               /\ order' = RemoveAt(order, Position(j))
          ELSE /\ records' = [records EXCEPT ![j] = r]
               /\ UNCHANGED order

PersistAndEvict(j, status) ==
    \E ok \in BOOLEAN :
        /\ Attempted(ok)
        /\ DbUpdate(j, [records[j] EXCEPT !.status = status], ok)
        /\ Evict(j, [records[j] EXCEPT !.status = status])
        /\ outcome' = [outcome EXCEPT ![j] = IF @ = "none" THEN status ELSE @]

-----------------------------------------------------------------------------
(* The process.                                                            *)

Boot ==
    /\ phase = "down" /\ lives < MaxLives
    /\ phase' = "starting" /\ lives' = lives + 1
    /\ UNCHANGED <<memory, rows, arrived, history, faults>>

\* What a process loses when it ends.
ForgetNoRecord ==                                           \* seeded fault
    /\ phase' = "down" /\ limit' = 0 /\ db' = FALSE
    /\ due' = <<>> /\ current' = None /\ UNCHANGED <<records, order>>
Forget ==
    /\ phase' = "down"
    /\ limit' = 0 /\ db' = FALSE
    /\ records' = [j \in Jobs |-> NoRecord] /\ order' = <<>>
    /\ due' = <<>> /\ current' = None

Crash ==
    /\ phase # "down" /\ lives < MaxLives
    /\ Forget
    /\ UNCHANGED <<rows, arrived, history, faults, lives>>

\* stopJobWorker(), between two ticks
Stop ==
    /\ phase = "serving" /\ due = <<>> /\ lives < MaxLives
    /\ Forget
    /\ UNCHANGED <<rows, arrived, history, faults, lives>>

Unfinished == {j \in Jobs : rows[j].status \in {"pending", "running"}}
Orderings(S) == {p \in [1 .. Cardinality(S) -> S] : Range(p) = S}

\* recoverFromDisk(): the unfinished rows, in whatever order SELECT gives them
RecoverAsIs == [j \in Unfinished |->                        \* seeded fault
    Record(rows[j].status, rows[j].attempt, RecoveredAttempts, FALSE)]
Recovered == [j \in Unfinished |->
    Record("pending", rows[j].attempt, RecoveredAttempts, FALSE)]

Recover ==
    /\ records' = [j \in Jobs |-> IF j \in Unfinished THEN Recovered[j] ELSE records[j]]
    /\ \E p \in Orderings(Unfinished) : order' = order \o p

\* startJobWorker(): open, delete old finished rows, recover.  The retention
\* time may have passed for any finished row.  On an error there is no
\* database; the records read before the error stay.
StartJobWorker ==
    /\ phase = "starting"
    /\ phase' = "serving"
    /\ \/ /\ db' = TRUE
          /\ \E old \in SUBSET {j \in Jobs : rows[j].status \in Terminal} :
                /\ rows' = [j \in Jobs |->
                               IF j \in old THEN NoRow
                               ELSE IF rows[j].status = "running"
                                    THEN [rows[j] EXCEPT !.status = "pending"]
                                    ELSE rows[j]]
                /\ expired' = expired \cup old
          /\ Recover
          /\ UNCHANGED faults
       \/ /\ faults < MaxFaults /\ faults' = faults + 1
          /\ UNCHANGED <<db, rows, expired>>
          /\ \/ UNCHANGED <<records, order>>
             \/ (\E j \in Jobs : rows[j].status = "running") /\ Recover
    /\ UNCHANGED <<limit, due, current, arrived, runs, outcome, lives>>

-----------------------------------------------------------------------------
(* Calls of the program: start(), and handlers of jobs and schedules.  A   *)
(* tick runs to its end; only the handler it runs calls in between.        *)

HandlerRuns == current # None /\ records[current].known
MayCall == phase = "starting" \/ (phase = "serving" /\ (due = <<>> \/ HandlerRuns))

\* registerJob(): records of the name take the new configuration
Register(max) ==
    /\ MayCall /\ limit # max
    /\ limit' = max
    /\ records' = [j \in Jobs |->
          IF j \in Cached THEN [records[j] EXCEPT !.max = max, !.known = TRUE]
                          ELSE records[j]]
    /\ UNCHANGED <<phase, db, order, due, current, rows, arrived, history, faults, lives>>

Unused(j) == rows[j] = NoRow /\ j \notin Cached /\ outcome[j] = "none" /\ runs[j] = 0
NextJob(j) == Unused(j) /\ \A k \in Jobs : k < j => ~Unused(k)

EnqueueJobAt(j) ==
    /\ MayCall /\ limit # 0 /\ NextJob(j)
    /\ records' = [records EXCEPT ![j] = Record("pending", 0, limit, TRUE)]
    /\ order' = Append(order, j)
    /\ \E ok \in BOOLEAN : Attempted(ok) /\ DbInsert(j, Record("pending", 0, limit, TRUE), ok)
    /\ \E now \in BOOLEAN : arrived' = IF now THEN arrived \cup {j} ELSE arrived \ {j}
    /\ UNCHANGED <<phase, limit, db, due, current, history, lives>>

CancelJob(j) ==
    /\ MayCall /\ j \in Cached /\ records[j].status = "pending"
    /\ PersistAndEvict(j, "cancelled")
    /\ UNCHANGED <<phase, limit, db, due, current, arrived, runs, expired, lives>>

\* The clock reaches the scheduled time of a job.
Elapse(j) ==
    /\ j \notin arrived
    /\ "pending" \in {records[j].status, rows[j].status}
    /\ arrived' = arrived \cup {j}
    /\ UNCHANGED <<phase, memory, rows, history, faults, lives>>

-----------------------------------------------------------------------------
(* workerTick()                                                            *)

\* The list has the first pollable jobs, in the order of the cache.
Pollable(j) == records[j].status = "pending" /\ j \in arrived
PollDueJobs ==
    /\ phase = "serving" /\ due = <<>>
    /\ LET at == {i \in DOMAIN order : Pollable(order[i])}
           n == IF Cardinality(at) < MaxJobsPerPoll THEN Cardinality(at) ELSE MaxJobsPerPoll
       IN  /\ at # {}
           /\ \E list \in [1 .. n -> at] :
                 /\ \A k \in 1 .. n : Cardinality({i \in at : i <= list[k]}) = k
                 /\ due' = [k \in 1 .. n |-> order[list[k]]]
    /\ UNCHANGED <<phase, limit, db, records, order, current, rows, arrived, history,
                   faults, lives>>

AlwaysClaimable(j) == TRUE                                  \* seeded fault
Claimable(j) == j \in Cached /\ records[j].status = "pending"

\* claimJob(), then runHandler() up to the call of the handler
ForgetAttempt(r) == [r EXCEPT !.status = "running"]         \* seeded fault
Claimed(r) == [r EXCEPT !.status = "running", !.attempt = @ + 1]
Backfilled(r) == IF r.known \/ limit = 0 THEN r
                 ELSE [r EXCEPT !.max = limit, !.known = TRUE]

Start(j) ==
    LET r == Claimed(records[j])
    IN  /\ \E ok \in BOOLEAN : Attempted(ok) /\ DbUpdate(j, r, ok)
        /\ records' = [records EXCEPT ![j] = Backfilled(r)]
        /\ current' = j
        /\ runs' = [runs EXCEPT ![j] = @ + IF Backfilled(r).known THEN 1 ELSE 0]

ClaimJob ==
    /\ due # <<>> /\ current = None
    /\ LET j == Head(due)
       IN  IF Claimable(j)
           THEN Start(j) /\ UNCHANGED due
           ELSE due' = Tail(due) /\ UNCHANGED <<records, rows, current, runs, faults>>
    /\ UNCHANGED <<phase, limit, db, order, arrived, outcome, expired, lives>>

\* applyImplicitSuccess(), applyExplicitSuccess(), applyExplicitFail()
Finish(status) ==
    /\ current # None /\ records[current].known
    /\ PersistAndEvict(current, status)
    /\ UNCHANGED arrived

Exhausted(r) == r.attempt >= r.max

\* applyFailure(): the handler threw or there is none
Retry ==
    /\ current # None /\ ~Exhausted(records[current])
    /\ \E ok \in BOOLEAN :
          /\ Attempted(ok)
          /\ DbUpdate(current, [records[current] EXCEPT !.status = "pending"], ok)
    /\ records' = [records EXCEPT ![current].status = "pending"]
    /\ \E delayed \in BOOLEAN :
          arrived' = IF delayed THEN arrived \ {current} ELSE arrived
    /\ UNCHANGED <<order, outcome>>

GiveUp ==
    /\ current # None /\ Exhausted(records[current])
    /\ PersistAndEvict(current, "failed")
    /\ UNCHANGED arrived

HandlerDone ==
    /\ Finish("succeeded") \/ Finish("failed") \/ Retry \/ GiveUp
    /\ current' = None /\ due' = Tail(due)
    /\ UNCHANGED <<phase, limit, db, runs, expired, lives>>

WorkerTick == PollDueJobs \/ ClaimJob \/ HandlerDone

-----------------------------------------------------------------------------
Init ==
    /\ phase = "down" /\ limit = 0 /\ db = FALSE
    /\ records = [j \in Jobs |-> NoRecord] /\ order = <<>>
    /\ due = <<>> /\ current = None
    /\ rows = [j \in Jobs |-> NoRow]
    /\ arrived = {} /\ expired = {}
    /\ runs = [j \in Jobs |-> 0]
    /\ outcome = [j \in Jobs |-> "none"]
    /\ faults = 0 /\ lives = 0

Next ==
    \/ Boot \/ Crash \/ Stop \/ StartJobWorker
    \/ \E max \in Limits : Register(max)
    \/ \E j \in Jobs : EnqueueJobAt(j) \/ CancelJob(j) \/ Elapse(j)
    \/ WorkerTick

\* The process is started again, its clock and its poll timer run, and
\* handlers return; nothing obliges the program to call.
Fairness ==
    /\ WF_vars(Boot) /\ WF_vars(StartJobWorker) /\ WF_vars(WorkerTick)
    /\ \A j \in Jobs : WF_vars(Elapse(j))

Spec == Init /\ [][Next]_vars /\ Fairness

-----------------------------------------------------------------------------
\* Types; the keys of records are exactly the jobs with a record, each once,
\* and only the head of the tick's list runs.
TypeOK ==
    /\ phase \in {"down", "starting", "serving"}
    /\ limit \in Limits \cup {0}
    /\ db \in BOOLEAN
    /\ records \in [Jobs -> [status : Statuses \cup {"none"}, attempt : Nat, max : Nat,
                             known : BOOLEAN]]
    /\ order \in Seq(Jobs) /\ due \in Seq(Jobs)
    /\ IsInjective(order) /\ Cached = {j \in Jobs : records[j] # NoRecord}
    /\ current # None => (due # <<>> /\ current = Head(due))
    /\ rows \in [Jobs -> [status : Statuses \cup {"none"}, attempt : Nat]]
    /\ arrived \subseteq Jobs /\ expired \subseteq Jobs
    /\ runs \in [Jobs -> Nat]
    /\ outcome \in [Jobs -> Terminal \cup {"none"}]
    /\ faults \in 0 .. MaxFaults /\ lives \in 0 .. MaxLives

\* jobStatus()
JobStatus(j) ==
    IF j \in Cached THEN records[j].status
    ELSE IF db /\ rows[j] # NoRow THEN rows[j].status
    ELSE "not_found"

\* The comment in persistAndEvict(): when persistence is unavailable the
\* terminal record is kept so that status and result lookups can resolve it.  Of
\* a job that is over, _job_status tells how it ended until its row expires.
StatusResolves ==
    \A j \in Jobs :
        phase = "serving" /\ outcome[j] # "none" /\ j \notin expired /\ rows[j] # NoRow
            => JobStatus(j) = outcome[j]

\* Write-through: with an open database and no failed write, the table says of
\* every job what the cache says, and holds no unfinished job the cache lacks;
\* and the status of a job that is over can be looked up.
CacheMatchesTable ==
    phase = "serving" /\ db /\ faults = 0 =>
        /\ \A j \in Jobs :
              /\ j \in Cached /\ rows[j] # NoRow => Row(records[j]) = rows[j]
              /\ j \notin Cached => rows[j].status \in Terminal \cup {"none"}
        /\ StatusResolves

\* The attempt counter survives crashes: it counts every start of the handler,
\* so a job is started more often than its limit only because a crash cut an
\* attempt short, once for each crash.
AttemptsCounted ==
    faults = 0 =>
        \A j \in Jobs :
            /\ rows[j] # NoRow => runs[j] <= rows[j].attempt
            /\ runs[j] = 0 \/ \E max \in Limits : runs[j] <= max + (lives - 1)

\* A job leaves the running state with its handler: the cache never keeps a
\* running record that no handler works on.
NoneStuckRunning == \A j \in Cached : records[j].status = "running" => current = j

\* Unless a write failed, a job that succeeded, failed or was cancelled is never
\* started again, not even by the tick that had it in its list or by a later
\* process.
SettledForGood ==
    [][\A j \in Jobs : outcome[j] # "none" /\ faults' = 0 => runs'[j] = runs[j]]_vars

\* Unless a write failed, every job in the table is settled in the end, through
\* crashes and restarts.
EveryJobSettles ==
    \A j \in Jobs : rows[j] # NoRow ~> (outcome[j] # "none" \/ faults > 0)
=============================================================================
