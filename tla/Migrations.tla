----------------------------- MODULE Migrations -----------------------------
(***************************************************************************)
(* Schema migrations, bridge/migration.ts.  Every thread that instantiates *)
(* the program registers the same migrations and may run them; a call      *)
(* starts the work, returns what the previous one found, and the work goes *)
(* on over the awaits of the database driver.  The drivers' execute() does *)
(* not throw: a statement that fails counts as -1, which nobody reads, so  *)
(* only a throwing export of the program stops a run.                      *)
(***************************************************************************)
EXTENDS Integers, Sequences, FiniteSets

CONSTANTS
    Threads,
    Count,        \* migrations, numbered in the order in which start() registers them
    Kinds,
    MaxRuns,      \* runs started, over all threads
    MaxRollbacks,
    MaxFaults     \* statements that fail

VARIABLES
    kind,       \* each migration: "sql", or "wasm" (an export), or "none"
    database,   \* state.database of each thread: "none", "connecting" or "set"
    registered, \* how many migrations a thread has registered
    run,        \* the run under way in a thread: its stage, position and list
    applied,    \* lastMigrationsApplied
    back,       \* the rollback under way in a thread
    exists,     \* the table _migrations exists
    recorded,   \* its rows
    ups, downs, \* how often each migration was executed and undone
    tried,      \* migrations whose up was attempted or is not needed
    runs, rollbacks, faults,
    overlapped  \* two of these tasks have been under way at once

table == <<exists, recorded, ups, downs, tried>>
bounds == <<runs, rollbacks, faults, overlapped>>
vars == <<kind, database, registered, run, applied, back, table, bounds>>

Names == 1 .. Count
NoRun == [stage |-> "none", at |-> 0, known |-> {}, count |-> 0]
NoBack == [stage |-> "none", at |-> 0]

Init ==
    /\ kind \in [Names -> Kinds]
    /\ database = [t \in Threads |-> "none"] /\ registered = [t \in Threads |-> 0]
    /\ run = [t \in Threads |-> NoRun] /\ applied = [t \in Threads |-> 0]
    /\ back = [t \in Threads |-> NoBack]
    /\ exists = FALSE /\ recorded = {} /\ tried = {}
    /\ ups = [m \in Names |-> 0] /\ downs = [m \in Names |-> 0]
    /\ runs = 0 /\ rollbacks = 0 /\ faults = 0 /\ overlapped = FALSE

-----------------------------------------------------------------------------
\* The driver is there some time after the call has returned 0, or never.
_db_configure(t) ==
    /\ database[t] = "none" /\ database' = [database EXCEPT ![t] = "connecting"]
    /\ UNCHANGED <<kind, registered, run, applied, back, table, bounds>>

Configured(t) ==
    /\ database[t] = "connecting"
    /\ \E s \in {"set", "none"} : database' = [database EXCEPT ![t] = s]
    /\ UNCHANGED <<kind, registered, run, applied, back, table, bounds>>

\* A name that is already registered is left alone; start() runs once a thread.
_db_register_migration(t) ==
    /\ registered[t] < Count
    /\ registered' = [registered EXCEPT ![t] = @ + 1]
    /\ UNCHANGED <<kind, database, run, applied, back, table, bounds>>

-----------------------------------------------------------------------------
Busy == {t \in Threads : run[t] # NoRun \/ back[t] # NoBack}
Starting == overlapped' = (overlapped \/ Busy # {})
Fault == faults < MaxFaults /\ faults' = faults + 1 /\ UNCHANGED <<runs, rollbacks, overlapped>>

Stage(t, s) == run' = [run EXCEPT ![t].stage = s]

\* _db_run_migrations: the call returns lastMigrationsApplied, that of the run
\* before, and the table is created.
_db_run_migrations(t) ==
    /\ database[t] = "set" /\ run[t] = NoRun /\ runs < MaxRuns
    /\ runs' = runs + 1 /\ Starting /\ Stage(t, "create")
    /\ UNCHANGED <<kind, database, registered, applied, back, table, rollbacks, faults>>

CreateTable(t) ==
    /\ run[t].stage = "create" /\ Stage(t, "list")
    /\ \/ exists' = TRUE /\ UNCHANGED bounds
       \/ Fault /\ UNCHANGED exists
    /\ UNCHANGED <<kind, database, registered, applied, back, recorded, ups, downs, tried>>

\* What is applied is read once; a query that fails reads as nothing applied.
ListApplied(t) ==
    /\ run[t].stage = "list"
    /\ \/ /\ run' = [run EXCEPT ![t] = [@ EXCEPT !.stage = "next", !.known = recorded]]
          /\ UNCHANGED bounds
       \/ Fault /\ Stage(t, "next")
    /\ UNCHANGED <<kind, database, registered, applied, back, table>>

\* The next registered migration that is not known to be applied.
ToApply(t) == {m \in Names : m > run[t].at /\ m <= registered[t] /\ m \notin run[t].known}
Least(S) == CHOOSE m \in S : \A n \in S : m <= n

AppliesNext(t) == run[t].stage = "next" /\ ToApply(t) # {}

\* The statement is executed or fails, the export is called, or there is neither;
\* in all these cases the run goes on to record the migration.
RunUp(t) ==
    /\ AppliesNext(t)
    /\ LET m == Least(ToApply(t))
       IN  /\ run' = [run EXCEPT ![t] = [@ EXCEPT !.stage = "insert", !.at = m]]
           /\ tried' = tried \cup {m}
           /\ \/ /\ kind[m] # "none" => ups[m] < MaxRuns
                 /\ ups' = [ups EXCEPT ![m] = IF kind[m] = "none" THEN @ ELSE @ + 1]
                 /\ UNCHANGED bounds
              \/ kind[m] = "sql" /\ Fault /\ UNCHANGED ups
    /\ UNCHANGED <<kind, database, registered, applied, back, exists, recorded, downs>>

Finish(t) ==
    /\ run' = [run EXCEPT ![t] = NoRun]
    /\ applied' = [applied EXCEPT ![t] = run[t].count]

\* seeded fault: a migration whose export threw is skipped and the run goes on
SkipThrown(t) ==
    /\ AppliesNext(t) /\ kind[Least(ToApply(t))] = "wasm"
    /\ Fault /\ run' = [run EXCEPT ![t].at = Least(ToApply(t))]
    /\ UNCHANGED <<kind, database, registered, applied, back, table>>
\* The export throws: the run ends here, with what it has done so far.
UpThrows(t) ==
    /\ AppliesNext(t) /\ kind[Least(ToApply(t))] = "wasm"
    /\ Fault /\ Finish(t)
    /\ UNCHANGED <<kind, database, registered, back, table>>

InsertRow(t) ==
    /\ run[t].stage = "insert"
    /\ run' = [run EXCEPT ![t] = [@ EXCEPT !.stage = "next", !.count = run[t].count + 1]]
    /\ \/ exists /\ recorded' = recorded \cup {run[t].at} /\ UNCHANGED bounds
       \/ ~exists /\ UNCHANGED <<recorded, bounds>>
       \/ Fault /\ UNCHANGED recorded
    /\ UNCHANGED <<kind, database, registered, applied, back, exists, ups, downs, tried>>

RunEnds(t) ==
    /\ run[t].stage = "next" /\ ToApply(t) = {} /\ Finish(t)
    /\ UNCHANGED <<kind, database, registered, back, table, bounds>>

-----------------------------------------------------------------------------
\* _db_rollback_migration; the call has returned 0 before anything is known.
_db_rollback_migration(t, m) ==
    /\ database[t] = "set" /\ back[t] = NoBack /\ rollbacks < MaxRollbacks
    /\ rollbacks' = rollbacks + 1 /\ Starting
    /\ back' = [back EXCEPT ![t] = [stage |-> "check", at |-> m]]
    /\ UNCHANGED <<kind, database, registered, run, applied, table, runs, faults>>

CheckApplied(t) ==
    /\ back[t].stage = "check"
    /\ back' = [back EXCEPT ![t] = IF @.at \in recorded THEN [@ EXCEPT !.stage = "down"]
                                   ELSE NoBack]
    /\ UNCHANGED <<kind, database, registered, run, applied, table, bounds>>

RunDown(t) ==
    /\ back[t].stage = "down"
    /\ LET m == back[t].at
       IN  \/ /\ downs' = [downs EXCEPT ![m] = IF kind[m] = "none" THEN @ ELSE @ + 1]
              /\ back' = [back EXCEPT ![t].stage = "delete"] /\ UNCHANGED bounds
           \/ /\ kind[m] # "none" /\ Fault /\ UNCHANGED downs
              /\ back' = [back EXCEPT ![t] = IF kind[m] = "wasm" THEN NoBack
                                             ELSE [@ EXCEPT !.stage = "delete"]]
    /\ UNCHANGED <<kind, database, registered, run, applied, exists, recorded, ups, tried>>

DeleteRow(t) ==
    /\ back[t].stage = "delete" /\ back' = [back EXCEPT ![t] = NoBack]
    /\ \/ recorded' = recorded \ {back[t].at} /\ UNCHANGED bounds
       \/ Fault /\ UNCHANGED recorded
    /\ UNCHANGED <<kind, database, registered, run, applied, exists, ups, downs, tried>>

-----------------------------------------------------------------------------
Next ==
    \E t \in Threads :
        \/ _db_configure(t) \/ Configured(t) \/ _db_register_migration(t)
        \/ _db_run_migrations(t) \/ CreateTable(t) \/ ListApplied(t) \/ RunUp(t)
        \/ UpThrows(t) \/ InsertRow(t) \/ RunEnds(t)
        \/ CheckApplied(t) \/ RunDown(t) \/ DeleteRow(t)
        \/ \E m \in Names : _db_rollback_migration(t, m)

Spec == Init /\ [][Next]_vars

-----------------------------------------------------------------------------
TypeOK ==
    /\ kind \in [Names -> Kinds] /\ recorded \subseteq Names
    /\ database \in [Threads -> {"none", "connecting", "set"}]
    /\ registered \in [Threads -> 0 .. Count]
    /\ \A t \in Threads :
          /\ run[t].stage \in {"none", "create", "list", "next", "insert"}
          /\ run[t].at \in {0} \cup Names /\ run[t].known \subseteq Names
    /\ ups \in [Names -> 0 .. MaxRuns] /\ downs \in [Names -> 0 .. MaxRollbacks]

\* Nothing is recorded that was not attempted, and nothing is attempted before each
\* earlier migration was, whatever fails and whoever else runs or rolls back.
InOrder ==
    /\ recorded \subseteq tried
    /\ \A m \in tried : \A n \in 1 .. m - 1 : n \in tried

\* Without overlap and without a statement that failed, a migration is executed
\* exactly when it is not recorded, and the rows say what the schema has.
OnceEach ==
    (~overlapped /\ faults = 0) =>
        \A m \in Names : kind[m] # "none" =>
            LET inRun == \E t \in Threads : run[t].stage = "insert" /\ run[t].at = m
                inBack == \E t \in Threads : back[t].stage = "delete" /\ back[t].at = m
            IN  ups[m] - downs[m] =
                    IF (m \in recorded \/ inRun) /\ ~inBack THEN 1 ELSE 0

MigrationsRecorded == InOrder /\ OnceEach
=============================================================================
