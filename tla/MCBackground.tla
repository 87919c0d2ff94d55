---------------------------- MODULE MCBackground ----------------------------
(***************************************************************************)
(* The background work of the main thread, checked side by side: the job   *)
(* queue and the cron scheduler.  They share no state; an instance that    *)
(* runs one of them shows all that either can do.                          *)
(***************************************************************************)
EXTENDS JobQueue

CONSTANTS Names, Crons, Horizon, MaxDelay, MaxEntries, MaxTime

\* Of CronSchedule: minutes are natural numbers.
ASSUME CronsAssumption == \A ticks \in Crons : ticks \subseteq Nat
ASSUME MinutesAssumption ==
    Horizon \in Nat /\ MaxDelay \in Nat /\ MaxEntries \in Nat /\ MaxTime \in Nat

VARIABLES
    now, started, schedules, size, name, cron, active, timer, firing, cancelled, reentered,
    part  \* which of the two runs

Cron == INSTANCE CronSchedule

cronVars ==
    <<now, started, schedules, size, name, cron, active, timer, firing, cancelled, reentered>>
allVars == <<vars, cronVars, part>>

MCInit == Init /\ Cron!Init /\ part \in {"jobs", "cron"}

JobsOnly == part = "jobs" /\ UNCHANGED <<cronVars, part>>
CronOnly == part = "cron" /\ UNCHANGED <<vars, part>>

MCNext == (JobsOnly /\ Next) \/ (CronOnly /\ Cron!Next)

\* The fairness of the part that runs.
MCFairness ==
    /\ WF_allVars(JobsOnly /\ Boot) /\ WF_allVars(JobsOnly /\ StartJobWorker)
    /\ WF_allVars(JobsOnly /\ WorkerTick)
    /\ \A j \in Jobs : WF_allVars(JobsOnly /\ Elapse(j))
    /\ WF_allVars(CronOnly /\ Cron!Tick) /\ WF_allVars(CronOnly /\ Cron!HandlerDone)
    /\ \A e \in Cron!Entries : SF_allVars(CronOnly /\ Cron!FireHandler(e))

MCSpec == MCInit /\ [][MCNext]_allVars /\ MCFairness

-----------------------------------------------------------------------------
\* The types of both.
TypesOK == TypeOK /\ Cron!TypeOK

\* See JobQueue: the cache agrees with the table, no attempt is forgotten across a
\* crash, and no job stays marked as running that nobody runs.
TableConsistent == CacheMatchesTable /\ AttemptsCounted /\ NoneStuckRunning

\* See CronSchedule: the registry reaches every timer, and handlers run in time.
OneTimerPerName == Cron!OneTimerPerName
FiresAtTicks == Cron!FiresAtTicks

\* Every durable job is settled, and every minute an active schedule matches served.
WorkGetsDone == EveryJobSettles /\ Cron!SchedulesFire
=============================================================================
