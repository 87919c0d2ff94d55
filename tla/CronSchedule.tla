---------------------------- MODULE CronSchedule ----------------------------
(***************************************************************************)
(* The cron scheduler of bridge/schedule.ts: a registry of named entries,  *)
(* each with a timer that fires the entry's handler on the init instance   *)
(* and is then armed again.  The code runs on the main thread; a handler   *)
(* runs to its end inside its timer callback and may itself register and   *)
(* cancel schedules.                                                       *)
(*                                                                         *)
(* A ScheduleEntry object is a number, in the order of creation.  Time is  *)
(* counted in minutes; a cron expression is the set of minutes it matches. *)
(***************************************************************************)
EXTENDS Integers, FiniteSets, FiniteSetsExt

CONSTANTS
    Names,      \* names of schedules
    Crons,      \* valid cron expressions, each the set of minutes it matches
    Horizon,    \* how many minutes nextCronTickMs() looks ahead
    MaxDelay,   \* the longest delay a Node timer can wait, in minutes
    MaxEntries, \* bound: calls of _schedule_cron
    MaxTime     \* bound: the clock

Entries == 1 .. MaxEntries
None == 0
NoName == "noName"
NoTimer == [due |-> -1, from |-> -1]

VARIABLES
    now,       \* the minute of the clock
    started,   \* schedulerStarted; schedulerState is set exactly then
    schedules, \* schedules: name -> entry, or None
    size,      \* number of entries created
    name, cron, active,  \* fields of the entries
    timer,     \* entry.timer: when it is due, and when it was armed
    firing,    \* the entry whose handler runs, or None
    cancelled, \* names whose last call was a _schedule_cancel that returned 1
    reentered  \* names that a handler of their own registered again while it ran

vars ==
    <<now, started, schedules, size, name, cron, active, timer, firing, cancelled, reentered>>

-----------------------------------------------------------------------------
(* nextCronTickMs() and scheduleNext()                                     *)

ThisMinute(ticks) == {t \in ticks : now <= t /\ t <= now + Horizon}  \* seeded fault
Upcoming(ticks) == {t \in ticks : now < t /\ t <= now + Horizon}


\* Node sets a delay that does not fit 32 bits to 1 ms.
Due(tick) == IF tick - now <= MaxDelay THEN tick ELSE now

Armed(ticks) == [due |-> Due(Min(Upcoming(ticks))), from |-> now]

\* scheduleNext(e), for an entry that is active in the state `live`
ScheduleNext(e, ticks, live) ==
    IF ~live[e] \/ ~started
    THEN /\ active' = live
         /\ timer' = [timer EXCEPT ![e] = NoTimer]
    ELSE IF Upcoming(ticks) = {}
    THEN /\ active' = [live EXCEPT ![e] = FALSE]
         /\ timer' = [timer EXCEPT ![e] = NoTimer]
    ELSE /\ active' = live
         /\ timer' = [timer EXCEPT ![e] = Armed(ticks)]

-----------------------------------------------------------------------------
(* Calls of the program: from start(), from handlers, between callbacks    *)

\* clearTimeout(existing.timer)
KeepTimers(n) == timer                                      \* seeded fault
ClearTimer(n) ==
    IF schedules[n] = None THEN timer ELSE [timer EXCEPT ![schedules[n]] = NoTimer]

ScheduleCron(n, ticks) ==
    LET e == size + 1
    IN  /\ size < MaxEntries
        /\ size' = e
        /\ name' = [name EXCEPT ![e] = n]
        /\ cron' = [cron EXCEPT ![e] = ticks]
        /\ schedules' = [schedules EXCEPT ![n] = e]
        /\ cancelled' = cancelled \ {n}
        /\ reentered' = IF firing # None /\ name[firing] = n THEN reentered \cup {n}
                                                            ELSE reentered
        /\ IF started /\ Upcoming(ticks) # {}
           THEN /\ active' = [active EXCEPT ![e] = TRUE]
                /\ timer' = [ClearTimer(n) EXCEPT ![e] = Armed(ticks)]
           ELSE /\ active' = [active EXCEPT ![e] = ~started]
                /\ timer' = ClearTimer(n)
        /\ UNCHANGED <<now, started, firing>>

Deactivate(e) == [active EXCEPT ![e] = FALSE]

ScheduleCancel(n) ==
    LET e == schedules[n]
    IN  /\ e # None /\ active[e]
        /\ active' = Deactivate(e)
        /\ timer' = [timer EXCEPT ![e] = NoTimer]
        /\ cancelled' = cancelled \cup {n}
        /\ UNCHANGED <<now, started, schedules, size, name, cron, firing, reentered>>

-----------------------------------------------------------------------------
(* Timers                                                                  *)

\* The callback of the timer, up to the handler.
FireHandler(e) ==
    /\ firing = None /\ timer[e] # NoTimer /\ timer[e].due <= now
    /\ timer' = [timer EXCEPT ![e] = NoTimer]
    /\ firing' = IF active[e] /\ started THEN e ELSE None
    /\ UNCHANGED <<now, started, schedules, size, name, cron, active, cancelled, reentered>>

\* The handler has returned, thrown or does not exist; the entry is armed again.
Rearm(e, ticks, live) == ScheduleNext(e, ticks, live)

HandlerDone ==
    /\ firing # None
    /\ Rearm(firing, cron[firing], active)
    /\ firing' = None
    /\ UNCHANGED <<now, started, schedules, size, name, cron, cancelled, reentered>>

Tick ==
    /\ now < MaxTime
    /\ now' = now + 1
    /\ UNCHANGED <<started, schedules, size, name, cron, active, timer, firing, cancelled,
                   reentered>>

-----------------------------------------------------------------------------
(* Lifecycle                                                               *)

Registered(e) == \E n \in Names : schedules[n] = e

StartScheduler ==
    /\ ~started /\ firing = None
    /\ started' = TRUE
    /\ LET waiting == {e \in Entries : Registered(e) /\ active[e]}
           fruitful == {e \in waiting : Upcoming(cron[e]) # {}}
       IN  /\ timer' = [e \in Entries |-> IF e \in fruitful THEN Armed(cron[e]) ELSE timer[e]]
           /\ active' = [e \in Entries |-> active[e] /\ e \notin waiting \ fruitful]
    /\ UNCHANGED <<now, schedules, size, name, cron, firing, cancelled, reentered>>

StopScheduler ==
    /\ started /\ firing = None
    /\ started' = FALSE
    /\ timer' = [e \in Entries |-> IF Registered(e) THEN NoTimer ELSE timer[e]]
    /\ active' = [e \in Entries |-> active[e] /\ ~Registered(e)]
    /\ schedules' = [n \in Names |-> None]
    /\ UNCHANGED <<now, size, name, cron, firing, cancelled, reentered>>

Init ==
    /\ now = 0 /\ started = FALSE
    /\ schedules = [n \in Names |-> None]
    /\ size = 0
    /\ name = [e \in Entries |-> NoName]
    /\ cron = [e \in Entries |-> {}]
    /\ active = [e \in Entries |-> FALSE]
    /\ timer = [e \in Entries |-> NoTimer]
    /\ firing = None /\ cancelled = {} /\ reentered = {}

Next ==
    \/ \E n \in Names : ScheduleCancel(n) \/ \E ticks \in Crons : ScheduleCron(n, ticks)
    \/ \E e \in Entries : FireHandler(e)
    \/ HandlerDone \/ Tick \/ StartScheduler \/ StopScheduler

\* The clock goes on, handlers return and due timers are served in turn.
Fairness ==
    WF_vars(Tick) /\ WF_vars(HandlerDone) /\ \A e \in Entries : SF_vars(FireHandler(e))

Spec == Init /\ [][Next]_vars /\ Fairness

-----------------------------------------------------------------------------
\* Types; timers that are armed were armed after the last start.
TypeOK ==
    /\ now \in 0 .. MaxTime
    /\ started \in BOOLEAN
    /\ schedules \in [Names -> Entries \cup {None}]
    /\ size \in 0 .. MaxEntries
    /\ name \in [Entries -> Names \cup {NoName}]
    /\ cron \in [Entries -> Crons \cup {{}}]
    /\ active \in [Entries -> BOOLEAN]
    /\ \A e \in Entries : timer[e] # NoTimer => 
          e <= size /\ timer[e].from \in 0 .. now /\ timer[e].due >= timer[e].from
    /\ firing \in Entries \cup {None}
    /\ cancelled \subseteq Names /\ reentered \subseteq Names

\* Registering a name replaces the entry it had: an entry that has a timer is
\* the one its name stands for, so that each name has one timer, and
\* _schedule_cancel and stopScheduler() reach every timer.  It does not hold
\* for a name that its own handler registered again: the entry that runs has no
\* timer to clear, stays active and is armed again beside the new one.
OneTimerPerName ==
    \A e \in Entries :
        timer[e] # NoTimer /\ name[e] \notin reentered => Registered(e) /\ active[e]

\* A handler fires at or after a minute its expression matches, once for each
\* arming, never between two matching minutes; and not after its schedule was
\* cancelled, whatever was armed or running when it was.
FiresAtTicks ==
    [][\A e \in Entries :
          firing' = e /\ firing = None =>
              /\ \E t \in cron[e] : timer[e].from < t /\ t <= now
              /\ name[e] \notin cancelled \/ name[e] \in reentered]_vars

\* A running scheduler serves every minute that an active schedule matches:
\* at or after that minute its handler runs, unless the schedule is cancelled,
\* replaced or dropped before.  A minute that passes while the handler runs is
\* served by that run.
SchedulesFire ==
    \A e \in Entries, t \in 1 .. MaxTime :
        started /\ Registered(e) /\ active[e] /\ t \in cron[e] /\ t \in now + 1 .. now + Horizon
            ~> (firing = e /\ now >= t) \/ ~Registered(e) \/ ~active[e]
=============================================================================
