-------------------------- MODULE Background_proofs --------------------------
(***************************************************************************)
(* Theorems about the background work of MCBackground: the job queue for   *)
(* any number of jobs, faults and lives of the process (JobQueue), and the *)
(* cron scheduler for any names and expressions (CronSchedule).            *)
(***************************************************************************)
EXTENDS MCBackground, SequenceFacts, FiniteSetTheorems

-----------------------------------------------------------------------------
(***************************************************************************)
(* The inductive invariant of the job queue.                               *)
(***************************************************************************)
Unfinish == {"pending", "running"}

\* What is set in which phase: a process that starts has no database yet, so what it
\* has in its cache is not in the table.
Phases ==
    /\ phase = "down" => limit = 0 /\ order = <<>>
    /\ phase # "serving" => ~db /\ due = <<>> /\ current = None
    /\ phase = "starting" => \A j \in Cached : rows[j] = NoRow
    /\ phase # "down" => lives >= 1
    /\ phase = "serving" /\ faults = 0 => db

RecordsSane ==
    /\ \A j \in Cached :
          /\ records[j].status \in Statuses
          /\ records[j].known => records[j].max \in Limits
          /\ records[j].status = "running" => current = j
    /\ current # None => current \in Cached /\ records[current].status = "running"

\* Without a failed write the table follows the cache.
TableFollows ==
    faults = 0 => \A j \in Jobs :
        /\ j \in Cached /\ rows[j] # NoRow => Row(records[j]) = rows[j]
        /\ phase = "serving" /\ j \notin Cached => rows[j].status \in Terminal \cup {"none"}

\* A job that is over stays so, in the table and in the cache.
SettledStays ==
    faults = 0 => \A j \in Jobs : outcome[j] # "none" =>
        /\ rows[j] = NoRow \/ rows[j].status = outcome[j]
        /\ j \in Cached => records[j].status \in Terminal

\* Jobs whose handler may be called once more within the bound of AttemptsCounted.
MayRun(j) ==
    \/ j \in Cached /\ records[j].status = "pending"
    \/ j \in Cached /\ records[j].status = "running" /\ ~records[j].known
    \/ phase = "starting" /\ rows[j].status \in Unfinish

Within(j, more) == runs[j] = 0 \/ \E max \in Limits : runs[j] + more <= max + (lives - 1)

RunsCounted ==
    faults = 0 => \A j \in Jobs :
        /\ rows[j] # NoRow => runs[j] <= rows[j].attempt
        /\ j \in Cached => runs[j] <= records[j].attempt
        /\ Within(j, 0)
        /\ MayRun(j) => Within(j, 1)

JobInv ==
    /\ TypeOK /\ Phases /\ RecordsSane
    /\ TableFollows /\ SettledStays /\ RunsCounted

RecordSet == [status : Statuses \cup {"none"}, attempt : Nat, max : Nat, known : BOOLEAN]
RowSet == [status : Statuses \cup {"none"}, attempt : Nat]

\* The keys of the cache.
LEMMA CacheKeys ==
    ASSUME TypeOK
    PROVE  /\ order \in Seq(Jobs) /\ IsInjective(order) /\ Cached \subseteq Jobs
           /\ \A j \in Jobs : j \in Cached <=> records[j] # NoRecord
           /\ records \in [Jobs -> RecordSet] /\ rows \in [Jobs -> RowSet]
           /\ NoRecord \in RecordSet /\ NoRow \in RowSet /\ NoRecord.status = "none"
           /\ None \notin Jobs
  <1>1. /\ order \in Seq(Jobs) /\ IsInjective(order)
        /\ Cached = {j \in Jobs : records[j] # NoRecord}
        /\ records \in [Jobs -> RecordSet] /\ rows \in [Jobs -> RowSet]
    BY DEF TypeOK, RecordSet, RowSet
  <1>2. /\ NoRecord \in RecordSet /\ NoRow \in RowSet /\ NoRecord.status = "none"
        /\ None \notin Jobs
    BY JobsAssumption DEF NoRecord, NoRow, Record, RecordSet, RowSet, None, Statuses
  <1> QED
    BY <1>1, <1>2

\* A record that is over leaves the cache, or stays in it when there is no database.
LEMMA EvictFacts ==
    ASSUME TypeOK, NEW j \in Cached, NEW r \in RecordSet, r.status # "none", Evict(j, r)
    PROVE  /\ records' \in [Jobs -> RecordSet]
           /\ records'[j] = IF db THEN NoRecord ELSE r
           /\ \A k \in Jobs : k # j => records'[k] = records[k]
           /\ order' \in Seq(Jobs) /\ IsInjective(order')
           /\ Cached' = IF db THEN Cached \ {j} ELSE Cached
           /\ Cached' = {k \in Jobs : records'[k] # NoRecord}
  <1>1. CASE db
    <2>1. PICK i \in DOMAIN order : order[i] = j
      BY DEF Cached, Range
    <2>2. Position(j) \in DOMAIN order /\ order[Position(j)] = j
      BY <2>1 DEF Position
    <2>3. /\ order' \in Seq(Jobs) /\ IsInjective(order')
          /\ Range(order') = Range(order) \ {j}
      <3>1. order' = RemoveAt(order, Position(j)) /\ Position(j) \in 1 .. Len(order)
        BY <1>1, <2>2, CacheKeys, LenProperties DEF Evict
      <3> QED
        BY <2>2, <3>1, CacheKeys, InjectiveRemoveAt
    <2>4. /\ records' \in [Jobs -> RecordSet] /\ records'[j] = NoRecord
          /\ \A k \in Jobs : k # j => records'[k] = records[k]
      BY <1>1, CacheKeys DEF Evict
    <2> QED
      BY <1>1, <2>3, <2>4, CacheKeys DEF Cached
  <1>2. CASE ~db
    <2>1. /\ records' \in [Jobs -> RecordSet] /\ records'[j] = r /\ order' = order
          /\ \A k \in Jobs : k # j => records'[k] = records[k]
      BY <1>2, CacheKeys DEF Evict
    <2> QED
      BY <1>2, <2>1, CacheKeys DEF Cached
  <1> QED
    BY <1>1, <1>2

\* A database write keeps the types, and is exact when it does not fail.
LEMMA UpdateFacts ==
    ASSUME TypeOK, NEW j \in Jobs, NEW r \in RecordSet, NEW ok \in BOOLEAN,
           Attempted(ok), DbUpdate(j, r, ok)
    PROVE  /\ rows' \in [Jobs -> RowSet] /\ \A k \in Jobs : k # j => rows'[k] = rows[k]
           /\ faults' \in 0 .. MaxFaults /\ (faults' = 0 => faults = 0)
           /\ faults' = 0 => rows'[j] = IF db /\ rows[j] # NoRow THEN Row(r) ELSE rows[j]
  <1>1. Row(r) \in RowSet
    BY DEF Row, RowSet, RecordSet
  <1>2. rows' \in [Jobs -> RowSet] /\ \A k \in Jobs : k # j => rows'[k] = rows[k]
    BY <1>1, CacheKeys DEF DbUpdate
  <1>3. faults' \in 0 .. MaxFaults /\ (faults' = 0 => ok /\ faults = 0)
    <2>1. faults \in 0 .. MaxFaults
      BY DEF TypeOK
    <2>2. CASE ok
      BY <2>1, <2>2 DEF Attempted
    <2>3. CASE ~ok
      BY <2>1, <2>3, MaxFaultsAssumption DEF Attempted
    <2> QED
      BY <2>2, <2>3
  <1>4. ok => rows'[j] = IF db /\ rows[j] # NoRow THEN Row(r) ELSE rows[j]
    BY CacheKeys DEF DbUpdate
  <1> QED
    BY <1>2, <1>3, <1>4

\* A job is over: cancelled, or settled by the tick that ran it.
LEMMA SettleStep ==
    ASSUME JobInv, NEW j \in Cached, NEW status \in Terminal, PersistAndEvict(j, status),
           records[j].status \in Unfinish, phase # "down",
           UNCHANGED <<phase, limit, db, runs, arrived, expired, lives>>,
           \/ current = j /\ current' = None /\ due' \in Seq(Jobs) /\ phase = "serving"
           \/ current # j /\ UNCHANGED <<current, due>>
    PROVE  JobInv'
  <1> DEFINE r == [records[j] EXCEPT !.status = status]
  <1>0. TypeOK /\ Phases /\ RecordsSane /\ TableFollows /\ SettledStays /\ RunsCounted
    BY DEF JobInv
  <1>1. /\ j \in Jobs /\ r \in RecordSet /\ r.status = status /\ r.attempt = records[j].attempt
        /\ r.known = records[j].known /\ r.max = records[j].max /\ status # "none"
    BY <1>0, CacheKeys DEF RecordSet, Statuses, Terminal
  <1>2. PICK ok \in BOOLEAN :
           /\ Attempted(ok) /\ DbUpdate(j, r, ok) /\ Evict(j, r)
           /\ outcome' = [outcome EXCEPT ![j] = IF @ = "none" THEN status ELSE @]
    BY DEF PersistAndEvict
  <1> HIDE DEF r
  <1>3. /\ records' \in [Jobs -> RecordSet]
        /\ records'[j] = IF db THEN NoRecord ELSE r
        /\ \A k \in Jobs : k # j => records'[k] = records[k]
        /\ order' \in Seq(Jobs) /\ IsInjective(order')
        /\ Cached' = IF db THEN Cached \ {j} ELSE Cached
        /\ Cached' = {k \in Jobs : records'[k] # NoRecord}
    BY <1>0, <1>1, <1>2, EvictFacts
  <1>4. /\ rows' \in [Jobs -> RowSet] /\ \A k \in Jobs : k # j => rows'[k] = rows[k]
        /\ faults' \in 0 .. MaxFaults /\ (faults' = 0 => faults = 0)
        /\ faults' = 0 => rows'[j] = IF db /\ rows[j] # NoRow THEN Row(r) ELSE rows[j]
    BY <1>0, <1>1, <1>2, UpdateFacts
  <1>5. /\ outcome' \in [Jobs -> Terminal \cup {"none"}]
        /\ \A k \in Jobs : k # j => outcome'[k] = outcome[k]
        /\ outcome[j] = "none" => outcome'[j] = status
    BY <1>0, <1>1, <1>2 DEF TypeOK
  <1>6. TypeOK'
    <2>1. current' # None => due' # <<>> /\ current' = Head(due')
      BY <1>0 DEF TypeOK
    <2> QED
      BY <1>0, <1>3, <1>4, <1>5, <2>1 DEF TypeOK, RecordSet, RowSet
  <1>7. Phases'
    <2>1. phase = "starting" => \A k \in Cached' : rows'[k] = NoRow
      <3> SUFFICES ASSUME phase = "starting", NEW k \in Cached' PROVE rows'[k] = NoRow
        OBVIOUS
      <3>1. ~db /\ k \in Cached /\ rows[k] = NoRow /\ rows[j] = NoRow
        BY <1>0, <1>3 DEF Phases
      <3>2. rows' = rows
        BY <1>2, <3>1 DEF DbUpdate
      <3> QED
        BY <3>1, <3>2
    <2> QED
      BY <1>0, <1>4, <2>1 DEF Phases
  <1>8. RecordsSane'
    <2>1. \A k \in Cached' : k \in Jobs /\ k \in Cached
      BY <1>3
    <2>2. /\ Statuses = {"pending", "running"} \cup Terminal
          /\ Terminal = {"succeeded", "failed", "cancelled"}
      BY DEF Statuses, Terminal
    <2>3. ASSUME NEW k \in Cached'
          PROVE  /\ records'[k].status \in Statuses
                 /\ records'[k].known => records'[k].max \in Limits
                 /\ records'[k].status = "running" => current' = k
      <3>1. CASE k = j
        BY <1>0, <1>1, <1>3, <2>2, <3>1 DEF RecordsSane
      <3>2. CASE k # j
        BY <1>0, <1>3, <2>1, <3>2 DEF RecordsSane
      <3> QED
        BY <3>1, <3>2
    <2>4. current' # None => current' \in Cached' /\ records'[current'].status = "running"
      BY <1>0, <1>3, <2>1, CacheKeys DEF RecordsSane
    <2> QED
      BY <2>3, <2>4 DEF RecordsSane
  \* Without a failed write, a job is over once, and its row says how.
  <1>9. ASSUME faults' = 0
        PROVE  /\ faults = 0 /\ outcome[j] = "none" /\ outcome'[j] = status
               /\ rows'[j] = NoRow \/ (db /\ rows'[j] = Row(r))
    <2>1. outcome[j] = "none"
      BY <1>0, <1>1, <1>4, <1>9 DEF SettledStays, Unfinish, Terminal
    <2>2. ~db => rows[j] = NoRow
      BY <1>0, <1>4, <1>9 DEF Phases, TypeOK
    <2> QED
      BY <1>4, <1>5, <1>9, <2>1, <2>2
  <1>10. TableFollows'
    <2> SUFFICES ASSUME faults' = 0, NEW k \in Jobs
                 PROVE  /\ k \in Cached' /\ rows'[k] # NoRow => Row(records'[k]) = rows'[k]
                        /\ phase' = "serving" /\ k \notin Cached' =>
                              rows'[k].status \in Terminal \cup {"none"}
      BY DEF TableFollows
    <2>1. CASE k = j
      BY <1>1, <1>3, <1>9, <2>1 DEF Row, NoRow
    <2>2. CASE k # j
      BY <1>0, <1>3, <1>4, <1>9, <2>2 DEF TableFollows
    <2> QED
      BY <2>1, <2>2
  <1>11. SettledStays'
    <2> SUFFICES ASSUME faults' = 0, NEW k \in Jobs, outcome'[k] # "none"
                 PROVE  /\ rows'[k] = NoRow \/ rows'[k].status = outcome'[k]
                        /\ k \in Cached' => records'[k].status \in Terminal
      BY DEF SettledStays
    <2>1. CASE k = j
      BY <1>1, <1>3, <1>9, <2>1 DEF Row
    <2>2. CASE k # j
      BY <1>0, <1>3, <1>4, <1>5, <1>9, <2>2 DEF SettledStays
    <2> QED
      BY <2>1, <2>2
  <1>12. RunsCounted'
    <2> SUFFICES ASSUME faults' = 0, NEW k \in Jobs
                 PROVE  /\ rows'[k] # NoRow => runs[k] <= rows'[k].attempt
                        /\ k \in Cached' => runs[k] <= records'[k].attempt
                        /\ Within(k, 0) /\ (MayRun(k)' => Within(k, 1))
      BY DEF RunsCounted, Within
    <2>1. CASE k = j
      <3>1. runs[j] <= records[j].attempt /\ Within(j, 0)
        BY <1>0, <1>1, <1>9 DEF RunsCounted
      <3>2. r.status \notin Unfinish /\ NoRow.status \notin Unfinish
        BY <1>1 DEF Unfinish, Terminal, NoRow
      <3>3. ~MayRun(j)'
        BY <1>3, <1>9, <3>2 DEF MayRun, Unfinish, Row
      <3> QED
        BY <1>1, <1>3, <1>9, <2>1, <3>1, <3>3 DEF Row
    <2>2. CASE k # j
      BY <1>0, <1>3, <1>4, <1>9, <2>2 DEF RunsCounted, MayRun
    <2> QED
      BY <2>1, <2>2
  <1> QED
    BY <1>6, <1>7, <1>8, <1>10, <1>11, <1>12 DEF JobInv

\* The record of a job changes, and it stays in the cache.
LEMMA RecordKept ==
    ASSUME TypeOK, NEW j \in Cached, NEW r \in RecordSet, r.status # "none",
           records' = [records EXCEPT ![j] = r], UNCHANGED order
    PROVE  /\ records' \in [Jobs -> RecordSet] /\ records'[j] = r
           /\ \A k \in Jobs : k # j => records'[k] = records[k]
           /\ Cached' = Cached /\ Cached' = {k \in Jobs : records'[k] # NoRecord}
  BY CacheKeys DEF Cached

\* claimJob(), and runHandler() up to the call of the handler.
LEMMA StartStep ==
    ASSUME JobInv, NEW j, due # <<>>, current = None, j = Head(due), Claimable(j), Start(j),
           UNCHANGED <<due, phase, limit, db, order, arrived, outcome, expired, lives>>
    PROVE  JobInv'
  <1> DEFINE c == Claimed(records[j])
             r == Backfilled(c)
  <1>0. TypeOK /\ Phases /\ RecordsSane /\ TableFollows /\ SettledStays /\ RunsCounted
    BY DEF JobInv
  <1>1. /\ j \in Cached /\ j \in Jobs /\ records[j].status = "pending"
        /\ records[j] \in RecordSet /\ limit \in Limits \cup {0} /\ phase = "serving"
        /\ lives \in Nat /\ lives >= 1
    BY <1>0, CacheKeys, MaxLivesAssumption DEF Claimable, TypeOK, Phases
  <1>2. /\ c \in RecordSet /\ c.status = "running" /\ c.attempt = records[j].attempt + 1
        /\ c.known = records[j].known /\ c.max = records[j].max
    <2>1. records[j].attempt \in Nat /\ records[j].attempt + 1 \in Nat
      BY <1>1 DEF RecordSet
    <2>2. c = [records[j] EXCEPT !.status = "running", !.attempt = records[j].attempt + 1]
      BY DEF Claimed
    <2> QED
      BY <1>1, <2>1, <2>2 DEF RecordSet, Statuses
  <1>3. /\ r \in RecordSet /\ r.status = "running" /\ r.attempt = records[j].attempt + 1
        /\ r.known => r.max \in Limits
        /\ records[j].known => r.known
    <2>1. limit \in Nat /\ (records[j].known => c.max \in Limits)
      BY <1>0, <1>1, <1>2, LimitsAssumption DEF RecordsSane
    <2>2. CASE c.known \/ limit = 0
      BY <1>2, <2>1, <2>2 DEF Backfilled
    <2>3. CASE ~(c.known \/ limit = 0)
      BY <1>1, <1>2, <2>1, <2>3 DEF Backfilled, RecordSet
    <2> QED
      BY <2>2, <2>3
  <1>4. PICK ok \in BOOLEAN : Attempted(ok) /\ DbUpdate(j, c, ok)
    BY DEF Start
  <1>5. /\ records' = [records EXCEPT ![j] = r] /\ current' = j
        /\ runs' = [runs EXCEPT ![j] = @ + IF r.known THEN 1 ELSE 0]
    BY DEF Start
  <1> HIDE DEF c, r
  <1>6. /\ records' \in [Jobs -> RecordSet] /\ records'[j] = r
        /\ \A k \in Jobs : k # j => records'[k] = records[k]
        /\ Cached' = Cached /\ Cached' = {k \in Jobs : records'[k] # NoRecord}
    BY <1>0, <1>1, <1>3, <1>5, RecordKept
  <1>7. /\ rows' \in [Jobs -> RowSet] /\ \A k \in Jobs : k # j => rows'[k] = rows[k]
        /\ faults' \in 0 .. MaxFaults /\ (faults' = 0 => faults = 0)
        /\ faults' = 0 => rows'[j] = IF db /\ rows[j] # NoRow THEN Row(c) ELSE rows[j]
    BY <1>0, <1>1, <1>2, <1>4, UpdateFacts
  <1>8. /\ runs' \in [Jobs -> Nat] /\ \A k \in Jobs : k # j => runs'[k] = runs[k]
        /\ r.known => runs'[j] = runs[j] + 1
        /\ ~r.known => runs'[j] = runs[j]
        /\ runs[j] \in Nat
    <2>1. runs \in [Jobs -> Nat] /\ j \in Jobs
      BY <1>0, <1>1 DEF TypeOK
    <2> QED
      BY <1>5, <2>1
  <1>9. TypeOK'
    BY <1>0, <1>5, <1>6, <1>7, <1>8 DEF TypeOK, RecordSet, RowSet
  <1>10. Phases'
    BY <1>0, <1>1, <1>7 DEF Phases
  <1>11. RecordsSane'
    <2>1. ASSUME NEW k \in Cached'
          PROVE  /\ records'[k].status \in Statuses
                 /\ records'[k].known => records'[k].max \in Limits
                 /\ records'[k].status = "running" => current' = k
      <3>1. CASE k = j
        BY <1>3, <1>5, <1>6, <3>1 DEF Statuses
      <3>2. CASE k # j
        <4>1. k \in Jobs /\ k \in Cached /\ k # None
          BY <1>0, <1>6, <2>1, CacheKeys
        <4> QED
          BY <1>0, <1>6, <3>2, <4>1 DEF RecordsSane
      <3> QED
        BY <3>1, <3>2
    <2> QED
      BY <1>1, <1>3, <1>5, <1>6, <2>1 DEF RecordsSane
  <1>12. ASSUME faults' = 0
         PROVE  /\ faults = 0 /\ outcome[j] = "none" /\ db
                /\ rows'[j] = IF rows[j] # NoRow THEN Row(r) ELSE NoRow
    <2>1. outcome[j] = "none"
      BY <1>0, <1>1, <1>7, <1>12 DEF SettledStays, Terminal
    <2>2. Row(c) = Row(r)
      BY <1>2, <1>3 DEF Row
    <2> QED
      BY <1>0, <1>1, <1>7, <1>12, <2>1, <2>2 DEF Phases
  <1>13. TableFollows'
    <2> SUFFICES ASSUME faults' = 0, NEW k \in Jobs
                 PROVE  /\ k \in Cached' /\ rows'[k] # NoRow => Row(records'[k]) = rows'[k]
                        /\ phase' = "serving" /\ k \notin Cached' =>
                              rows'[k].status \in Terminal \cup {"none"}
      BY DEF TableFollows
    <2>1. CASE k = j
      BY <1>1, <1>6, <1>12, <2>1
    <2>2. CASE k # j
      BY <1>0, <1>6, <1>7, <1>12, <2>2 DEF TableFollows
    <2> QED
      BY <2>1, <2>2
  <1>14. SettledStays'
    <2> SUFFICES ASSUME faults' = 0, NEW k \in Jobs, outcome[k] # "none"
                 PROVE  /\ rows'[k] = NoRow \/ rows'[k].status = outcome[k]
                        /\ k \in Cached' => records'[k].status \in Terminal
      BY DEF SettledStays
    <2>1. k # j
      BY <1>12
    <2> QED
      BY <1>0, <1>6, <1>7, <1>12, <2>1 DEF SettledStays
  <1>15. RunsCounted'
    <2> SUFFICES ASSUME faults' = 0, NEW k \in Jobs
                 PROVE  /\ rows'[k] # NoRow => runs'[k] <= rows'[k].attempt
                        /\ k \in Cached' => runs'[k] <= records'[k].attempt
                        /\ Within(k, 0)' /\ (MayRun(k)' => Within(k, 1)')
      BY DEF RunsCounted, Within
    <2>1. CASE k = j
      <3>1. runs[j] <= records[j].attempt /\ records[j].attempt \in Nat /\ Within(j, 1)
        BY <1>0, <1>1, <1>12 DEF RunsCounted, MayRun, RecordSet
      <3>2. runs'[j] <= r.attempt
        BY <1>3, <1>8, <3>1
      <3>3. rows'[j] # NoRow => rows'[j].attempt = r.attempt
        BY <1>12 DEF Row
      <3>4. MayRun(j)' => ~r.known
        BY <1>1, <1>3, <1>6 DEF MayRun
      <3>5. Within(j, 0)' /\ (~r.known => Within(j, 1)')
        <4>1. CASE r.known
          <5>1. \E max \in Limits : runs[j] + 1 <= max + (lives - 1)
            <6>1. CASE runs[j] = 0
              <7>1. \A max \in Limits : max \in Nat /\ max >= 1
                BY LimitsAssumption
              <7>2. r.max \in Limits
                BY <1>3, <4>1
              <7> QED
                BY <1>1, <6>1, <7>1, <7>2
            <6>2. CASE runs[j] # 0
              BY <3>1, <6>2 DEF Within
            <6> QED
              BY <6>1, <6>2
          <5> QED
            BY <1>8, <4>1, <5>1, LimitsAssumption DEF Within
        <4>2. CASE ~r.known
          <5>1. \A max \in Limits : runs[j] + 1 <= max + (lives - 1) =>
                                    runs[j] + 0 <= max + (lives - 1)
            BY <1>1, <1>8, LimitsAssumption
          <5> QED
            BY <1>8, <3>1, <4>2, <5>1 DEF Within
        <4> QED
          BY <4>1, <4>2
      <3> QED
        BY <1>6, <2>1, <3>2, <3>3, <3>4, <3>5
    <2>2. CASE k # j
      BY <1>0, <1>6, <1>7, <1>8, <1>12, <2>2 DEF RunsCounted, MayRun, Within
    <2> QED
      BY <2>1, <2>2
  <1> QED
    BY <1>9, <1>10, <1>11, <1>13, <1>14, <1>15 DEF JobInv

\* applyFailure() with an attempt left: the job waits for its next attempt.
LEMMA RetryStep ==
    ASSUME JobInv, Retry, current' = None, due' \in Seq(Jobs),
           UNCHANGED <<phase, limit, db, runs, expired, lives>>
    PROVE  JobInv'
  <1> DEFINE j == current
             r == [records[j] EXCEPT !.status = "pending"]
  <1>0. TypeOK /\ Phases /\ RecordsSane /\ TableFollows /\ SettledStays /\ RunsCounted
    BY DEF JobInv
  <1>1. /\ j \in Cached /\ j \in Jobs /\ records[j].status = "running" /\ j # None
        /\ records[j] \in RecordSet /\ ~Exhausted(records[j]) /\ phase = "serving"
        /\ UNCHANGED <<order, outcome>>
    BY <1>0, CacheKeys DEF Retry, RecordsSane, Phases, TypeOK
  <1>2. /\ r \in RecordSet /\ r.status = "pending" /\ r.attempt = records[j].attempt
        /\ r.known = records[j].known /\ r.max = records[j].max
    BY <1>1 DEF RecordSet, Statuses
  <1>3. PICK ok \in BOOLEAN : Attempted(ok) /\ DbUpdate(j, r, ok)
    BY DEF Retry
  <1>4. records' = [records EXCEPT ![j] = r] /\ arrived' \subseteq Jobs
    BY <1>0, <1>1, CacheKeys DEF Retry, TypeOK
  <1> HIDE DEF r
  <1>5. /\ records' \in [Jobs -> RecordSet] /\ records'[j] = r
        /\ \A k \in Jobs : k # j => records'[k] = records[k]
        /\ Cached' = Cached /\ Cached' = {k \in Jobs : records'[k] # NoRecord}
    BY <1>0, <1>1, <1>2, <1>4, RecordKept
  <1>6. /\ rows' \in [Jobs -> RowSet] /\ \A k \in Jobs : k # j => rows'[k] = rows[k]
        /\ faults' \in 0 .. MaxFaults /\ (faults' = 0 => faults = 0)
        /\ faults' = 0 => rows'[j] = IF db /\ rows[j] # NoRow THEN Row(r) ELSE rows[j]
    BY <1>0, <1>1, <1>2, <1>3, UpdateFacts
  <1>7. TypeOK'
    BY <1>0, <1>1, <1>4, <1>5, <1>6 DEF TypeOK, RecordSet, RowSet
  <1>8. Phases'
    BY <1>0, <1>1, <1>6 DEF Phases
  <1>9. RecordsSane'
    <2>1. ASSUME NEW k \in Cached'
          PROVE  /\ records'[k].status \in Statuses
                 /\ records'[k].known => records'[k].max \in Limits
                 /\ records'[k].status # "running"
      <3>1. CASE k = j
        BY <1>0, <1>1, <1>2, <1>5, <3>1 DEF RecordsSane, Statuses
      <3>2. CASE k # j
        <4>1. k \in Jobs /\ k \in Cached
          BY <1>0, <1>5, <2>1, CacheKeys
        <4> QED
          BY <1>0, <1>5, <3>2, <4>1 DEF RecordsSane
      <3> QED
        BY <3>1, <3>2
    <2> QED
      BY <2>1 DEF RecordsSane
  <1>10. ASSUME faults' = 0
         PROVE  /\ faults = 0 /\ outcome[j] = "none" /\ db
                /\ rows'[j] = IF rows[j] # NoRow THEN Row(r) ELSE NoRow
    <2>1. outcome[j] = "none"
      BY <1>0, <1>1, <1>6, <1>10 DEF SettledStays, Terminal
    <2> QED
      BY <1>0, <1>1, <1>6, <1>10, <2>1 DEF Phases
  <1>11. TableFollows'
    <2> SUFFICES ASSUME faults' = 0, NEW k \in Jobs
                 PROVE  /\ k \in Cached' /\ rows'[k] # NoRow => Row(records'[k]) = rows'[k]
                        /\ phase' = "serving" /\ k \notin Cached' =>
                              rows'[k].status \in Terminal \cup {"none"}
      BY DEF TableFollows
    <2>1. CASE k = j
      BY <1>1, <1>5, <1>10, <2>1
    <2>2. CASE k # j
      BY <1>0, <1>5, <1>6, <1>10, <2>2 DEF TableFollows
    <2> QED
      BY <2>1, <2>2
  <1>12. SettledStays'
    <2> SUFFICES ASSUME faults' = 0, NEW k \in Jobs, outcome[k] # "none"
                 PROVE  /\ rows'[k] = NoRow \/ rows'[k].status = outcome[k]
                        /\ k \in Cached' => records'[k].status \in Terminal
      BY <1>1 DEF SettledStays
    <2>1. k # j
      BY <1>10
    <2> QED
      BY <1>0, <1>5, <1>6, <1>10, <2>1 DEF SettledStays
  <1>13. RunsCounted'
    <2> SUFFICES ASSUME faults' = 0, NEW k \in Jobs
                 PROVE  /\ rows'[k] # NoRow => runs[k] <= rows'[k].attempt
                        /\ k \in Cached' => runs[k] <= records'[k].attempt
                        /\ Within(k, 0) /\ (MayRun(k)' => Within(k, 1))
      BY DEF RunsCounted, Within
    <2>1. CASE k = j
      <3>1. runs[j] <= records[j].attempt /\ Within(j, 0)
        BY <1>0, <1>1, <1>10 DEF RunsCounted
      <3>2. Within(j, 1)
        <4>1. CASE records[j].known
          <5>1. records[j].max \in Limits /\ records[j].attempt + 1 <= records[j].max
            BY <1>0, <1>1, <4>1 DEF Exhausted, RecordsSane, RecordSet
          <5>2. lives \in Nat /\ lives >= 1 /\ runs[j] \in Nat /\ records[j].max \in Nat
                /\ records[j].attempt \in Nat
            BY <1>0, <1>1, MaxLivesAssumption DEF TypeOK, Phases, RecordSet
          <5>3. runs[j] + 1 <= records[j].max + (lives - 1)
            BY <3>1, <5>1, <5>2
          <5> QED
            BY <5>1, <5>3 DEF Within
        <4>2. CASE ~records[j].known
          BY <1>0, <1>1, <1>10, <4>2 DEF RunsCounted, MayRun
        <4> QED
          BY <4>1, <4>2
      <3> QED
        BY <1>2, <1>5, <1>10, <2>1, <3>1, <3>2 DEF Row
    <2>2. CASE k # j
      BY <1>0, <1>5, <1>6, <1>10, <2>2 DEF RunsCounted, MayRun
    <2> QED
      BY <2>1, <2>2
  <1> QED
    BY <1>7, <1>8, <1>9, <1>11, <1>12, <1>13 DEF JobInv

\* The clock, the list of a poll, and steps that change nothing of the queue.
LEMMA QueueStays ==
    ASSUME JobInv, TypeOK',
           UNCHANGED <<phase, limit, db, records, order, current, rows, outcome, runs, faults,
                       lives>>,
           due' = due \/ phase = "serving"
    PROVE  JobInv'
  <1>1. Cached' = Cached
    BY DEF Cached
  <1>2. Phases' /\ RecordsSane'
    BY <1>1 DEF JobInv, Phases, RecordsSane
  <1>3. TableFollows' /\ SettledStays' /\ RunsCounted'
    BY <1>1 DEF JobInv, TableFollows, SettledStays, RunsCounted, MayRun, Within
  <1> QED
    BY <1>2, <1>3 DEF JobInv

LEMMA EmptyCache ==
    ASSUME NEW s, s = <<>>
    PROVE  s \in Seq(Jobs) /\ IsInjective(s) /\ Range(s) = {}
  <1>1. s \in Seq(Jobs) /\ DOMAIN s = {}
    BY EmptySeq, LenProperties
  <1> QED
    BY <1>1 DEF IsInjective, Range

\* The process ends: what is left is the table.
LEMMA ForgetStep ==
    ASSUME JobInv, Forget, UNCHANGED <<rows, arrived, history, faults, lives>>
    PROVE  JobInv'
  <1>0. TypeOK /\ SettledStays /\ RunsCounted
    BY DEF JobInv
  <1>1. /\ phase' = "down" /\ limit' = 0 /\ db' = FALSE /\ order' = <<>> /\ due' = <<>>
        /\ current' = None /\ records' = [j \in Jobs |-> NoRecord]
        /\ UNCHANGED <<rows, arrived, runs, outcome, expired, faults, lives>>
    BY DEF Forget, history
  <1>2. order' \in Seq(Jobs) /\ due' \in Seq(Jobs) /\ IsInjective(order') /\ Cached' = {}
    BY <1>1, EmptyCache DEF Cached
  <1>3. TypeOK'
    <2>1. records' \in [Jobs -> RecordSet] /\ \A j \in Jobs : records'[j] = NoRecord
      BY <1>0, <1>1, CacheKeys
    <2> QED
      BY <1>0, <1>1, <1>2, <2>1 DEF TypeOK, RecordSet
  <1>4. Phases' /\ RecordsSane' /\ TableFollows' /\ SettledStays'
    BY <1>0, <1>1, <1>2 DEF Phases, RecordsSane, TableFollows, SettledStays
  <1>5. RunsCounted'
    BY <1>0, <1>1, <1>2 DEF RunsCounted, MayRun, Within
  <1> QED
    BY <1>3, <1>4, <1>5 DEF JobInv

\* Another process starts: each attempt that was cut short may be made again.
LEMMA BootStep == ASSUME JobInv, Boot PROVE JobInv'
  <1>0. TypeOK /\ Phases /\ SettledStays /\ RunsCounted
    BY DEF JobInv
  <1>1. /\ phase = "down" /\ phase' = "starting" /\ lives' = lives + 1 /\ lives < MaxLives
        /\ UNCHANGED <<limit, db, records, order, due, current, rows, arrived, runs, outcome,
                       expired, faults>>
    BY DEF Boot, memory, history
  <1>2. /\ lives \in Nat /\ lives' \in 0 .. MaxLives /\ lives' >= 1 /\ runs \in [Jobs -> Nat]
        /\ order = <<>> /\ ~db /\ due = <<>> /\ current = None
    BY <1>0, <1>1, MaxLivesAssumption DEF TypeOK, Phases
  <1>3. Cached = {} /\ Cached' = Cached
    BY <1>1, <1>2, EmptyCache DEF Cached
  <1>4. TypeOK'
    BY <1>0, <1>1, <1>2, <1>3 DEF TypeOK
  <1>5. Phases' /\ RecordsSane' /\ TableFollows' /\ SettledStays'
    BY <1>0, <1>1, <1>2, <1>3 DEF Phases, RecordsSane, TableFollows, SettledStays
  <1>6. RunsCounted'
    <2>1. ASSUME NEW j \in Jobs, Within(j, 0) PROVE Within(j, 0)' /\ Within(j, 1)'
      <3>1. runs[j] \in Nat /\ lives \in Nat
        BY <1>2
      <3>2. ASSUME NEW max \in Limits, runs[j] + 0 <= max + (lives - 1)
            PROVE  runs[j] + 0 <= max + (lives' - 1) /\ runs[j] + 1 <= max + (lives' - 1)
        <4>1. max \in Nat
          BY LimitsAssumption
        <4> QED
          BY <1>1, <3>1, <3>2, <4>1
      <3> QED
        BY <1>1, <2>1, <3>2 DEF Within
    <2> QED
      BY <1>0, <1>1, <1>3, <2>1 DEF RunsCounted
  <1> QED
    BY <1>4, <1>5, <1>6 DEF JobInv

\* recoverFromDisk(): the unfinished rows join the cache.
LEMMA RecoverFacts ==
    ASSUME JobInv, phase = "starting", Recover
    PROVE  /\ Unfinished \subseteq Jobs /\ Unfinished \cap Cached = {}
           /\ order' \in Seq(Jobs) /\ IsInjective(order') /\ Cached' = Cached \cup Unfinished
           /\ records' \in [Jobs -> RecordSet]
           /\ \A j \in Unfinished : /\ records'[j].status = "pending" /\ ~records'[j].known
                                    /\ records'[j].attempt = rows[j].attempt
           /\ \A j \in Jobs : j \notin Unfinished => records'[j] = records[j]
           /\ Cached' = {j \in Jobs : records'[j] # NoRecord}
  <1>0. TypeOK /\ Phases
    BY DEF JobInv
  <1>1. Unfinished \subseteq Jobs /\ Unfinished \cap Cached = {}
    BY <1>0 DEF Unfinished, Phases, NoRow
  <1>2. PICK p \in Orderings(Unfinished) : order' = order \o p
    BY DEF Recover
  <1>3. p \in Seq(Jobs) /\ IsInjective(p) /\ Range(p) = Unfinished
    <2>1. IsFiniteSet(Unfinished)
      BY <1>1, JobsAssumption, FS_Subset
    <2> DEFINE n == Cardinality(Unfinished)
    <2>2. n \in Nat
      BY <2>1, FS_CardinalityType
    <2>3. p \in [1 .. n -> Unfinished] /\ Range(p) = Unfinished
      BY DEF Orderings
    <2>4. IsFiniteSet(1 .. n) /\ Cardinality(1 .. n) = n
      BY <2>2, FS_Interval
    <2>5. p \in Surjection(1 .. n, Unfinished)
      BY <2>3 DEF Surjection, Range
    <2>6. IsInjective(p)
      BY <2>4, <2>5, FS_SurjSameCardinalityImpliesInj DEF Injection
    <2> HIDE DEF n
    <2>7. p \in Seq(Jobs)
      BY <1>1, <2>2, <2>3
    <2> QED
      BY <2>3, <2>6, <2>7
  <1>4. /\ order' \in Seq(Jobs) /\ IsInjective(order')
        /\ Cached' = Cached \cup Unfinished
    BY <1>0, <1>1, <1>2, <1>3, CacheKeys, InjectiveConcat DEF Cached
  <1>5. ASSUME NEW j \in Unfinished
        PROVE  /\ Recovered[j] = Record("pending", rows[j].attempt, RecoveredAttempts, FALSE)
               /\ Recovered[j] \in RecordSet /\ Recovered[j].status = "pending"
               /\ ~Recovered[j].known /\ Recovered[j].attempt = rows[j].attempt
    <2>1. Recovered[j] = Record("pending", rows[j].attempt, RecoveredAttempts, FALSE)
      BY DEF Recovered
    <2>2. rows[j].attempt \in Nat
      BY <1>0, <1>1, CacheKeys DEF RowSet
    <2> QED
      BY <2>1, <2>2 DEF Record, RecordSet, RecoveredAttempts, Statuses
  <1>6. records' = [j \in Jobs |-> IF j \in Unfinished THEN Recovered[j] ELSE records[j]]
    BY DEF Recover
  <1>7. records' \in [Jobs -> RecordSet]
    BY <1>0, <1>5, <1>6, CacheKeys
  <1>8. \A j \in Jobs : IF j \in Unfinished THEN records'[j] = Recovered[j]
                                            ELSE records'[j] = records[j]
    BY <1>6
  <1>9. \A j \in Unfinished : records'[j] # NoRecord
    BY <1>0, <1>1, <1>5, <1>8, CacheKeys
  <1>10. Cached' = {j \in Jobs : records'[j] # NoRecord}
    BY <1>0, <1>1, <1>4, <1>8, <1>9, CacheKeys
  <1> QED
    BY <1>1, <1>4, <1>5, <1>7, <1>8, <1>10

\* A job that is over has no row to recover.
LEMMA SettledIsFinished ==
    ASSUME TypeOK, SettledStays, faults = 0, NEW j \in Jobs, outcome[j] # "none"
    PROVE  j \notin Unfinished
  <1>1. outcome[j] \in Terminal
    BY DEF TypeOK
  <1>2. outcome[j] \in {"succeeded", "failed", "cancelled"}
    BY <1>1 DEF Terminal
  <1>3. rows[j] = NoRow \/ rows[j].status = outcome[j]
    BY DEF SettledStays
  <1>4. NoRow.status = "none"
    BY DEF NoRow
  <1> QED
    BY <1>2, <1>3, <1>4 DEF Unfinished

\* startJobWorker(): the table is read, or the process serves without a database.
LEMMA StartWorkerStep == ASSUME JobInv, StartJobWorker PROVE JobInv'
  <1>0. TypeOK /\ Phases /\ RecordsSane /\ TableFollows /\ SettledStays /\ RunsCounted
    BY DEF JobInv
  <1>1. /\ phase = "starting" /\ phase' = "serving" /\ ~db /\ due = <<>> /\ current = None
        /\ UNCHANGED <<limit, due, current, arrived, runs, outcome, lives>>
        /\ \A j \in Cached : rows[j] = NoRow
    BY <1>0 DEF StartJobWorker, Phases
  \* What recovery makes of the cache.
  <1>2. ASSUME Recover
        PROVE  /\ Cached' = Cached \cup Unfinished /\ Unfinished \cap Cached = {}
               /\ RecordsSane'
               /\ \A j \in Jobs : faults = 0 /\ outcome[j] # "none" /\ j \in Cached' =>
                     records'[j].status \in Terminal
    <2>1. /\ Cached' = Cached \cup Unfinished /\ Unfinished \cap Cached = {}
          /\ Unfinished \subseteq Jobs /\ Cached \subseteq Jobs
          /\ \A j \in Unfinished : records'[j].status = "pending" /\ ~records'[j].known
          /\ \A j \in Jobs : j \notin Unfinished => records'[j] = records[j]
      BY <1>0, <1>1, <1>2, RecoverFacts, CacheKeys
    <2>2. RecordsSane'
      <3>1. ASSUME NEW j \in Cached'
            PROVE  /\ records'[j].status \in Statuses
                   /\ records'[j].known => records'[j].max \in Limits
                   /\ records'[j].status = "running" => current' = j
        <4>1. CASE j \in Unfinished
          BY <2>1, <4>1 DEF Statuses
        <4>2. CASE j \notin Unfinished
          BY <1>0, <1>1, <2>1, <3>1, <4>2 DEF RecordsSane
        <4> QED
          BY <4>1, <4>2
      <3> QED
        BY <1>1, <3>1 DEF RecordsSane
    <2>3. ASSUME NEW j \in Jobs, faults = 0, outcome[j] # "none", j \in Cached'
          PROVE  records'[j].status \in Terminal
      <3>1. j \notin Unfinished
        BY <1>0, <2>3, SettledIsFinished
      <3> QED
        BY <1>0, <2>1, <2>3, <3>1 DEF SettledStays
    <2> QED
      BY <2>1, <2>2, <2>3
  <1>3. CASE db' = TRUE /\ Recover /\ UNCHANGED faults
             /\ \E old \in SUBSET {j \in Jobs : rows[j].status \in Terminal} :
                   /\ rows' = [j \in Jobs |->
                                  IF j \in old THEN NoRow
                                  ELSE IF rows[j].status = "running"
                                       THEN [rows[j] EXCEPT !.status = "pending"]
                                       ELSE rows[j]]
                   /\ expired' = expired \cup old
    <2>1. PICK old \in SUBSET {j \in Jobs : rows[j].status \in Terminal} :
             /\ rows' = [j \in Jobs |->
                            IF j \in old THEN NoRow
                            ELSE IF rows[j].status = "running"
                                 THEN [rows[j] EXCEPT !.status = "pending"]
                                 ELSE rows[j]]
             /\ expired' = expired \cup old
      BY <1>3
    <2>2. /\ order' \in Seq(Jobs) /\ IsInjective(order') /\ Cached' = Cached \cup Unfinished
          /\ records' \in [Jobs -> RecordSet] /\ Cached \subseteq Jobs
          /\ \A j \in Unfinished : /\ records'[j].status = "pending" /\ ~records'[j].known
                                   /\ records'[j].attempt = rows[j].attempt
          /\ \A j \in Jobs : j \notin Unfinished => records'[j] = records[j]
          /\ Cached' = {j \in Jobs : records'[j] # NoRecord}
      BY <1>0, <1>1, <1>3, RecoverFacts, CacheKeys
    <2>3. ASSUME NEW j \in Jobs
          PROVE  /\ rows'[j] \in RowSet
                 /\ rows'[j] = NoRow \/ rows'[j].attempt = rows[j].attempt
                 /\ rows[j] = NoRow => rows'[j] = NoRow
                 /\ rows'[j] # NoRow => rows[j] # NoRow
                 /\ j \in Unfinished => rows'[j].status = "pending"
                                        /\ rows'[j].attempt = rows[j].attempt
                 /\ j \notin Unfinished => rows'[j] = NoRow \/ rows'[j] = rows[j]
      <3>1. rows[j] \in RowSet /\ NoRow \in RowSet
        BY <1>0, CacheKeys
      <3>2. CASE j \in old
        BY <2>1, <3>1, <3>2 DEF Unfinished, Terminal, NoRow
      <3>3. CASE j \notin old /\ rows[j].status = "running"
        <4>1. rows'[j] = [rows[j] EXCEPT !.status = "pending"]
          BY <2>1, <3>3
        <4>2. /\ rows'[j] \in RowSet /\ rows'[j].status = "pending"
              /\ rows'[j].attempt = rows[j].attempt
          BY <3>1, <4>1 DEF RowSet, Statuses
        <4> QED
          BY <3>3, <4>2 DEF Unfinished, NoRow
      <3>4. CASE j \notin old /\ rows[j].status # "running"
        <4>1. rows'[j] = rows[j]
          BY <2>1, <3>4
        <4> QED
          BY <3>1, <3>4, <4>1 DEF Unfinished
      <3> QED
        BY <3>2, <3>3, <3>4
    <2>4. TypeOK'
      <3>1. rows' \in [Jobs -> RowSet]
        BY <2>1, <2>3
      <3>2. expired' \subseteq Jobs
        BY <1>0, <2>1 DEF TypeOK
      <3> QED
        BY <1>0, <1>1, <1>3, <2>2, <3>1, <3>2 DEF TypeOK, RecordSet, RowSet
    <2>5. Phases'
      BY <1>0, <1>1, <1>3 DEF Phases
    <2>6. TableFollows'
      <3> SUFFICES ASSUME NEW j \in Jobs
                   PROVE  /\ j \in Cached' /\ rows'[j] # NoRow => Row(records'[j]) = rows'[j]
                          /\ j \notin Cached' => rows'[j].status \in Terminal \cup {"none"}
        BY DEF TableFollows
      <3>1. ASSUME j \in Cached', rows'[j] # NoRow PROVE Row(records'[j]) = rows'[j]
        <4>1. j \in Unfinished
          BY <1>1, <2>2, <2>3, <3>1
        <4> QED
          BY <2>2, <2>3, <4>1 DEF Row, RowSet
      <3>2. ASSUME j \notin Cached' PROVE rows'[j].status \in Terminal \cup {"none"}
        <4>1. j \notin Unfinished /\ rows[j] \in RowSet
          BY <1>0, <2>2, <3>2, CacheKeys
        <4> QED
          BY <2>3, <4>1 DEF Unfinished, RowSet, Statuses, NoRow
      <3> QED
        BY <3>1, <3>2
    <2>7. SettledStays'
      <3> SUFFICES ASSUME faults = 0, NEW j \in Jobs, outcome[j] # "none"
                   PROVE  rows'[j] = NoRow \/ rows'[j].status = outcome[j]
        BY <1>0, <1>1, <1>2, <1>3 DEF SettledStays
      <3>1. j \notin Unfinished
        BY <1>0, SettledIsFinished
      <3> QED
        BY <1>0, <2>3, <3>1 DEF SettledStays
    <2>8. RunsCounted'
      <3> SUFFICES ASSUME faults = 0, NEW j \in Jobs
                   PROVE  /\ rows'[j] # NoRow => runs[j] <= rows'[j].attempt
                          /\ j \in Cached' => runs[j] <= records'[j].attempt
                          /\ Within(j, 0) /\ (MayRun(j)' => Within(j, 1))
        BY <1>1, <1>3 DEF RunsCounted, Within
      <3>1. rows'[j] # NoRow => runs[j] <= rows'[j].attempt
        BY <1>0, <2>3 DEF RunsCounted
      <3>2. j \in Cached' => runs[j] <= records'[j].attempt
        <4>1. j \in Unfinished => rows[j] # NoRow
          BY DEF Unfinished, NoRow
        <4> QED
          BY <1>0, <2>2, <4>1 DEF RunsCounted
      <3>3. MayRun(j)' => MayRun(j)
        <4>1. CASE j \in Unfinished
          BY <1>1, <4>1 DEF MayRun, Unfinished, Unfinish
        <4>2. CASE j \notin Unfinished
          BY <1>1, <2>2, <4>2 DEF MayRun
        <4> QED
          BY <4>1, <4>2
      <3> QED
        BY <1>0, <3>1, <3>2, <3>3 DEF RunsCounted
    <2> QED
      BY <1>2, <1>3, <2>4, <2>5, <2>6, <2>7, <2>8 DEF JobInv
  <1>4. CASE /\ faults < MaxFaults /\ faults' = faults + 1 /\ UNCHANGED <<db, rows, expired>>
             /\ UNCHANGED <<records, order>> \/ Recover
    <2>1. faults' \in 0 .. MaxFaults /\ faults' # 0
      BY <1>0, <1>4, MaxFaultsAssumption DEF TypeOK
    <2>2. Phases' /\ TableFollows' /\ SettledStays' /\ RunsCounted'
      BY <1>0, <1>1, <1>4, <2>1 DEF Phases, TableFollows, SettledStays, RunsCounted
    <2>3. CASE Recover
      <3>1. /\ order' \in Seq(Jobs) /\ IsInjective(order')
            /\ records' \in [Jobs -> RecordSet]
            /\ Cached' = {j \in Jobs : records'[j] # NoRecord}
        BY <1>1, <2>3, RecoverFacts
      <3>2. TypeOK'
        BY <1>0, <1>1, <1>4, <2>1, <3>1 DEF TypeOK, RecordSet
      <3> QED
        BY <1>2, <2>2, <2>3, <3>2 DEF JobInv
    <2>4. CASE UNCHANGED <<records, order>>
      <3>1. Cached' = Cached
        BY <2>4 DEF Cached
      <3>2. TypeOK'
        BY <1>0, <1>1, <1>4, <2>1, <2>4, <3>1 DEF TypeOK
      <3>3. RecordsSane'
        BY <1>0, <1>1, <2>4, <3>1 DEF RecordsSane
      <3> QED
        BY <2>2, <3>2, <3>3 DEF JobInv
    <2> QED
      BY <1>4, <2>3, <2>4
  <1> QED
    BY <1>3, <1>4 DEF StartJobWorker

\* registerJob(): the cached records take the new limit.
LEMMA RegisterStep == ASSUME JobInv, NEW max \in Limits, Register(max) PROVE JobInv'
  <1>0. TypeOK /\ Phases /\ RecordsSane /\ TableFollows /\ SettledStays /\ RunsCounted
    BY DEF JobInv
  <1>1. /\ MayCall /\ limit' = max
        /\ records' = [j \in Jobs |->
              IF j \in Cached THEN [records[j] EXCEPT !.max = max, !.known = TRUE]
                              ELSE records[j]]
        /\ UNCHANGED <<phase, db, order, due, current, rows, arrived, runs, outcome, expired,
                       faults, lives>>
    BY DEF Register, history
  <1>2. phase # "down" /\ max \in Nat /\ Cached' = Cached
    BY <1>1, LimitsAssumption DEF MayCall, Cached
  <1>3. ASSUME NEW j \in Jobs
        PROVE  /\ records'[j] \in RecordSet /\ records'[j].status = records[j].status
               /\ records'[j].attempt = records[j].attempt
               /\ j \in Cached => records'[j].max \in Limits /\ records'[j].known
               /\ j \notin Cached => records'[j] = records[j]
    <2>1. records[j] \in RecordSet
      BY <1>0, CacheKeys
    <2>2. CASE j \in Cached
      <3>1. records'[j] = [records[j] EXCEPT !.max = max, !.known = TRUE]
        BY <1>1, <2>2
      <3> QED
        BY <1>2, <2>1, <2>2, <3>1 DEF RecordSet
    <2>3. CASE j \notin Cached
      BY <1>1, <2>1, <2>3
    <2> QED
      BY <2>2, <2>3
  <1>4. TypeOK'
    <2>1. records' \in [Jobs -> RecordSet]
      BY <1>1, <1>3
    <2>2. Cached' = {j \in Jobs : records'[j] # NoRecord}
      <3>1. \A j \in Cached : records[j].status # "none"
        BY <1>0 DEF RecordsSane, Statuses, Terminal
      <3>2. \A j \in Cached : records'[j] # NoRecord
        BY <1>0, <1>3, <3>1, CacheKeys
      <3> QED
        BY <1>0, <1>2, <1>3, <3>2, CacheKeys
    <2> QED
      BY <1>0, <1>1, <2>1, <2>2 DEF TypeOK, RecordSet
  <1>5. Phases' /\ RecordsSane'
    <2>1. Cached \subseteq Jobs
      BY <1>0, CacheKeys
    <2>2. Phases'
      BY <1>0, <1>1, <1>2 DEF Phases
    <2>3. ASSUME NEW j \in Cached
          PROVE  /\ records'[j].status \in Statuses /\ records'[j].max \in Limits
                 /\ records'[j].status = "running" => current = j
      <3>1. records[j].status \in Statuses /\ (records[j].status = "running" => current = j)
        BY <1>0 DEF RecordsSane
      <3>2. records'[j].status = records[j].status /\ records'[j].max \in Limits
        BY <1>3, <2>1
      <3> QED
        BY <3>1, <3>2
    <2>4. current # None => current \in Cached /\ records'[current].status = "running"
      <3>1. current # None => current \in Cached /\ records[current].status = "running"
        BY <1>0 DEF RecordsSane
      <3> QED
        BY <1>3, <2>1, <3>1
    <2>5. RecordsSane'
      BY <1>1, <1>2, <2>3, <2>4 DEF RecordsSane
    <2> QED
      BY <2>2, <2>5
  <1>6. TableFollows' /\ SettledStays'
    BY <1>0, <1>1, <1>2, <1>3 DEF TableFollows, SettledStays, Row
  <1>7. RunsCounted'
    <2>1. \A j \in Jobs : MayRun(j)' => MayRun(j)
      BY <1>1, <1>2, <1>3 DEF MayRun
    <2> QED
      BY <1>0, <1>1, <1>2, <1>3, <2>1 DEF RunsCounted, Within
  <1> QED
    BY <1>4, <1>5, <1>6, <1>7 DEF JobInv

\* enqueueJobAt(): a new job joins the cache, and the table when it is open.
LEMMA EnqueueStep == ASSUME JobInv, NEW j \in Jobs, EnqueueJobAt(j) PROVE JobInv'
  <1> DEFINE r == Record("pending", 0, limit, TRUE)
  <1>0. TypeOK /\ Phases /\ RecordsSane /\ TableFollows /\ SettledStays /\ RunsCounted
    BY DEF JobInv
  <1>1. /\ limit \in Limits /\ limit \in Nat /\ phase # "down"
        /\ rows[j] = NoRow /\ j \notin Cached /\ outcome[j] = "none" /\ runs[j] = 0
    BY <1>0, LimitsAssumption DEF EnqueueJobAt, MayCall, NextJob, Unused, TypeOK
  <1>2. /\ records' = [records EXCEPT ![j] = r] /\ order' = Append(order, j)
        /\ UNCHANGED <<phase, limit, db, due, current, runs, outcome, expired, lives>>
    BY DEF EnqueueJobAt, history
  <1>3. PICK ok \in BOOLEAN : Attempted(ok) /\ DbInsert(j, r, ok)
    BY DEF EnqueueJobAt
  <1>4. arrived' \subseteq Jobs
    BY <1>0 DEF EnqueueJobAt, TypeOK
  <1>5. /\ r \in RecordSet /\ r.status = "pending" /\ r.attempt = 0 /\ r.max = limit
        /\ r # NoRecord /\ Row(r) \in RowSet /\ Row(r).attempt = 0
    BY <1>1 DEF Record, NoRecord, Row, RecordSet, RowSet, Statuses
  <1> HIDE DEF r
  <1>6. /\ records' \in [Jobs -> RecordSet] /\ records'[j] = r
        /\ \A k \in Jobs : k # j => records'[k] = records[k]
    BY <1>0, <1>2, <1>5, CacheKeys
  <1>7. /\ order' \in Seq(Jobs) /\ IsInjective(order') /\ Cached' = Cached \cup {j}
    BY <1>0, <1>1, <1>2, CacheKeys, InjectiveAppend DEF Cached
  <1>8. Cached' = {k \in Jobs : records'[k] # NoRecord}
    BY <1>0, <1>1, <1>5, <1>6, <1>7, CacheKeys
  <1>9. /\ rows' \in [Jobs -> RowSet] /\ \A k \in Jobs : k # j => rows'[k] = rows[k]
        /\ rows'[j] \in {NoRow, Row(r)} /\ (~db => rows' = rows)
    BY <1>0, <1>1, <1>3, <1>5, CacheKeys DEF DbInsert
  <1>10. faults' \in 0 .. MaxFaults /\ (faults' = 0 => faults = 0)
    <2>1. faults \in 0 .. MaxFaults
      BY <1>0 DEF TypeOK
    <2>2. CASE ok
      BY <1>3, <2>1, <2>2 DEF Attempted
    <2>3. CASE ~ok
      BY <1>3, <2>1, <2>3, MaxFaultsAssumption DEF Attempted
    <2> QED
      BY <2>2, <2>3
  <1>11. TypeOK'
    BY <1>0, <1>2, <1>4, <1>6, <1>7, <1>8, <1>9, <1>10 DEF TypeOK, RecordSet, RowSet
  <1>12. Phases'
    BY <1>0, <1>1, <1>2, <1>7, <1>9, <1>10 DEF Phases
  <1>13. RecordsSane'
    <2>1. ASSUME NEW k \in Cached'
          PROVE  /\ records'[k].status \in Statuses
                 /\ records'[k].known => records'[k].max \in Limits
                 /\ records'[k].status = "running" => current' = k
      <3>1. CASE k = j
        BY <1>1, <1>5, <1>6, <3>1 DEF Statuses
      <3>2. CASE k # j
        <4>1. k \in Cached /\ k \in Jobs
          BY <1>0, <1>7, <2>1, <3>2, CacheKeys
        <4> QED
          BY <1>0, <1>2, <1>6, <3>2, <4>1 DEF RecordsSane
      <3> QED
        BY <3>1, <3>2
    <2>2. current' # None => current' \in Cached' /\ records'[current'].status = "running"
      <3>1. current # None => current \in Jobs /\ current # j /\ current \in Cached
        BY <1>0, <1>1, CacheKeys DEF RecordsSane
      <3> QED
        BY <1>0, <1>2, <1>6, <1>7, <3>1 DEF RecordsSane
    <2> QED
      BY <2>1, <2>2 DEF RecordsSane
  <1>14. TableFollows' /\ SettledStays'
    BY <1>0, <1>1, <1>2, <1>6, <1>7, <1>9, <1>10 DEF TableFollows, SettledStays
  <1>15. RunsCounted'
    <2> SUFFICES ASSUME faults' = 0, NEW k \in Jobs
                 PROVE  /\ rows'[k] # NoRow => runs[k] <= rows'[k].attempt
                        /\ k \in Cached' => runs[k] <= records'[k].attempt
                        /\ Within(k, 0) /\ (MayRun(k)' => Within(k, 1))
      BY <1>2 DEF RunsCounted, Within
    <2>1. CASE k = j
      BY <1>1, <1>5, <1>6, <1>9, <2>1 DEF Within
    <2>2. CASE k # j
      BY <1>0, <1>2, <1>6, <1>7, <1>9, <1>10, <2>2 DEF RunsCounted, MayRun
    <2> QED
      BY <2>1, <2>2
  <1> QED
    BY <1>11, <1>12, <1>13, <1>14, <1>15 DEF JobInv

\* The list of a poll: the jobs at some positions of the cache.
LEMMA PollStep == ASSUME JobInv, PollDueJobs PROVE JobInv'
  <1> DEFINE at == {i \in DOMAIN order : Pollable(order[i])}
             n == IF Cardinality(at) < MaxJobsPerPoll THEN Cardinality(at) ELSE MaxJobsPerPoll
  <1>0. TypeOK /\ order \in Seq(Jobs)
    BY DEF JobInv, TypeOK
  <1>1. IsFiniteSet(at)
    <2>1. DOMAIN order = 1 .. Len(order) /\ Len(order) \in Nat /\ at \subseteq DOMAIN order
      BY <1>0, LenProperties
    <2>2. IsFiniteSet(1 .. Len(order))
      BY <2>1, FS_Interval
    <2> QED
      BY <2>1, <2>2, FS_Subset
  <1>2. n \in Nat
    BY <1>1, FS_CardinalityType, MaxJobsPerPollAssumption
  <1>3. PICK list \in [1 .. n -> at] : due' = [k \in 1 .. n |-> order[list[k]]]
    BY DEF PollDueJobs
  <1>4. \A k \in 1 .. n : order[list[k]] \in Jobs
    <2>1. \A i \in DOMAIN order : order[i] \in Jobs
      BY <1>0, LenProperties, ElementOfSeq
    <2> QED
      BY <1>3, <2>1
  <1> HIDE DEF n
  <1>5. due' \in Seq(Jobs)
    BY <1>2, <1>3, <1>4
  <1>6. /\ phase = "serving" /\ due = <<>>
        /\ UNCHANGED <<phase, limit, db, records, order, current, rows, arrived, runs, outcome,
                       expired, faults, lives>>
    BY DEF PollDueJobs, history
  <1>7. TypeOK'
    <2>1. current = None /\ Cached' = Cached
      BY <1>0, <1>6 DEF TypeOK, Cached
    <2> QED
      BY <1>0, <1>5, <1>6, <2>1 DEF TypeOK
  <1> QED
    BY <1>6, <1>7, QueueStays

\* The scheduled time of a job is reached.
LEMMA ElapseStep == ASSUME JobInv, NEW j \in Jobs, Elapse(j) PROVE JobInv'
  <1>1. /\ arrived' = arrived \cup {j}
        /\ UNCHANGED <<phase, limit, db, records, order, due, current, rows, runs, outcome,
                       expired, faults, lives>>
    BY DEF Elapse, memory, history
  <1>2. TypeOK'
    <2>1. TypeOK /\ Cached' = Cached
      BY <1>1 DEF JobInv, Cached
    <2> QED
      BY <1>1, <2>1 DEF TypeOK
  <1> QED
    BY <1>1, <1>2, QueueStays

\* The tick takes the head of its list: it runs the job, or skips one that is over.
LEMMA ClaimStep == ASSUME JobInv, ClaimJob PROVE JobInv'
  <1> DEFINE j == Head(due)
  <1>1. /\ due # <<>> /\ current = None
        /\ UNCHANGED <<phase, limit, db, order, arrived, outcome, expired, lives>>
    BY DEF ClaimJob
  <1>2. CASE Claimable(j)
    BY <1>1, <1>2, StartStep DEF ClaimJob
  <1>3. CASE ~Claimable(j)
    <2>1. due' = Tail(due) /\ UNCHANGED <<records, rows, current, runs, faults>>
      BY <1>3 DEF ClaimJob
    <2>2. TypeOK /\ Cached' = Cached /\ phase = "serving"
      BY <1>1 DEF JobInv, Phases, TypeOK, Cached
    <2>3. due' \in Seq(Jobs)
      BY <1>1, <2>1, <2>2, HeadTailProperties DEF TypeOK
    <2>4. TypeOK'
      BY <1>1, <2>1, <2>2, <2>3 DEF TypeOK
    <2> QED
      BY <1>1, <2>1, <2>2, <2>4, QueueStays
  <1> QED
    BY <1>2, <1>3

\* The handler returns, throws, or settles its job itself.
LEMMA DoneStep == ASSUME JobInv, HandlerDone PROVE JobInv'
  <1>1. /\ current' = None /\ due' = Tail(due)
        /\ UNCHANGED <<phase, limit, db, runs, expired, lives>>
        /\ current # None
    BY DEF HandlerDone, Finish, Retry, GiveUp
  <1>2. /\ TypeOK /\ current \in Cached /\ records[current].status \in Unfinish
        /\ phase = "serving" /\ due \in Seq(Jobs) /\ due # <<>>
    BY <1>1 DEF JobInv, RecordsSane, Phases, TypeOK, Unfinish
  <1>3. due' \in Seq(Jobs)
    BY <1>1, <1>2, HeadTailProperties
  <1>4. ASSUME NEW status \in Terminal, PersistAndEvict(current, status), UNCHANGED arrived
        PROVE  JobInv'
    BY <1>1, <1>2, <1>3, <1>4, SettleStep
  <1>5. CASE Retry
    BY <1>1, <1>3, <1>5, RetryStep
  <1>6. CASE Finish("succeeded") \/ Finish("failed") \/ GiveUp
    BY <1>4, <1>6 DEF Finish, GiveUp, Terminal
  <1> QED
    BY <1>5, <1>6 DEF HandlerDone

\* cancelJob()
LEMMA CancelStep == ASSUME JobInv, NEW j \in Jobs, CancelJob(j) PROVE JobInv'
  <1>1. /\ MayCall /\ j \in Cached /\ records[j].status = "pending"
        /\ PersistAndEvict(j, "cancelled")
        /\ UNCHANGED <<phase, limit, db, due, current, arrived, runs, expired, lives>>
    BY DEF CancelJob
  <1>2. current # j /\ phase # "down"
    <2>1. RecordsSane /\ j # None
      BY CacheKeys DEF JobInv
    <2> QED
      BY <1>1, <2>1 DEF RecordsSane, MayCall
  <1> QED
    BY <1>1, <1>2, SettleStep DEF Unfinish, Terminal

LEMMA JobNext == ASSUME JobInv, [Next]_vars PROVE JobInv'
  <1>1. CASE Next
    <2>1. CASE Crash \/ Stop
      BY <2>1, ForgetStep DEF Crash, Stop
    <2>2. CASE WorkerTick
      BY <2>2, PollStep, ClaimStep, DoneStep DEF WorkerTick
    <2> QED
      BY <1>1, <2>1, <2>2, BootStep, StartWorkerStep, RegisterStep, EnqueueStep, CancelStep,
         ElapseStep DEF Next
  <1>2. CASE UNCHANGED vars
    <2>1. UNCHANGED <<phase, limit, db, records, order, due, current, rows, arrived, runs,
                      outcome, expired, faults, lives>>
      BY <1>2 DEF vars, memory, history
    <2>2. TypeOK'
      <3>1. TypeOK /\ Cached' = Cached
        BY <2>1 DEF JobInv, Cached
      <3> QED
        BY <2>1, <3>1 DEF TypeOK
    <2> QED
      BY <2>1, <2>2, QueueStays
  <1> QED
    BY <1>1, <1>2

LEMMA JobInit == ASSUME Init PROVE JobInv
  <1>1. order \in Seq(Jobs) /\ due \in Seq(Jobs) /\ IsInjective(order) /\ Cached = {}
    BY EmptyCache DEF Init, Cached
  <1>2. TypeOK
    <2>1. NoRecord \in RecordSet /\ NoRow \in RowSet
      BY DEF NoRecord, NoRow, Record, RecordSet, RowSet
    <2>2. Cached = {j \in Jobs : records[j] # NoRecord}
      BY <1>1 DEF Init
    <2>3. faults \in 0 .. MaxFaults /\ lives \in 0 .. MaxLives /\ runs \in [Jobs -> Nat]
      BY MaxFaultsAssumption, MaxLivesAssumption DEF Init
    <2> QED
      BY <1>1, <2>1, <2>2, <2>3 DEF Init, TypeOK, RecordSet, RowSet
  <1>3. Phases /\ RecordsSane /\ TableFollows /\ SettledStays
    BY <1>1 DEF Init, Phases, RecordsSane, TableFollows, SettledStays
  <1>4. RunsCounted
    BY <1>1 DEF Init, RunsCounted, MayRun, Within
  <1> QED
    BY <1>2, <1>3, <1>4 DEF JobInv

LEMMA JobInvariant == MCSpec => []JobInv
  <1>1. MCInit => JobInv
    BY JobInit DEF MCInit
  <1>2. JobInv /\ [MCNext]_allVars => JobInv'
    BY JobNext DEF MCNext, JobsOnly, CronOnly, allVars
  <1> QED
    BY <1>1, <1>2, PTL DEF MCSpec

\* The cache and the table agree on every job while no write has failed, a settled
\* job's status can be looked up, every start of a handler is counted through crashes,
\* and no record stays marked as running: for any number of jobs, limits and lives.
THEOREM TableIsConsistent == MCSpec => []TableConsistent
  <1>1. ASSUME JobInv PROVE TableConsistent
    <2>0. TypeOK /\ RecordsSane /\ TableFollows /\ SettledStays /\ RunsCounted
      BY <1>1 DEF JobInv
    <2>1. CacheMatchesTable
      <3> SUFFICES ASSUME phase = "serving", db, faults = 0, NEW j \in Jobs
                   PROVE  /\ j \in Cached /\ rows[j] # NoRow => Row(records[j]) = rows[j]
                          /\ j \notin Cached => rows[j].status \in Terminal \cup {"none"}
                          /\ outcome[j] # "none" /\ rows[j] # NoRow =>
                                JobStatus(j) = outcome[j]
        BY DEF CacheMatchesTable, StatusResolves
      <3>1. /\ j \in Cached /\ rows[j] # NoRow => Row(records[j]) = rows[j]
            /\ j \notin Cached => rows[j].status \in Terminal \cup {"none"}
        BY <2>0 DEF TableFollows
      <3>2. ASSUME outcome[j] # "none", rows[j] # NoRow PROVE JobStatus(j) = outcome[j]
        <4>1. rows[j].status = outcome[j]
          BY <2>0, <3>2 DEF SettledStays
        <4>2. j \in Cached => records[j].status = rows[j].status
          BY <3>1, <3>2 DEF Row
        <4> QED
          BY <3>2, <4>1, <4>2 DEF JobStatus
      <3> QED
        BY <3>1, <3>2
    <2>2. AttemptsCounted
      <3> SUFFICES ASSUME faults = 0, NEW j \in Jobs
                   PROVE  /\ rows[j] # NoRow => runs[j] <= rows[j].attempt
                          /\ runs[j] = 0 \/ \E max \in Limits : runs[j] <= max + (lives - 1)
        BY DEF AttemptsCounted
      <3>1. (rows[j] # NoRow => runs[j] <= rows[j].attempt) /\ Within(j, 0)
        BY <2>0 DEF RunsCounted
      <3>2. runs[j] \in Nat /\ runs[j] + 0 = runs[j]
        BY <2>0 DEF TypeOK
      <3> QED
        BY <3>1, <3>2 DEF Within
    <2>3. NoneStuckRunning
      BY <2>0 DEF RecordsSane, NoneStuckRunning
    <2> QED
      BY <2>1, <2>2, <2>3 DEF TableConsistent
  <1> QED
    BY <1>1, JobInvariant, PTL

\* Only the start of a claimed job calls a handler.
LEMMA OnlyStartRuns ==
    ASSUME Next, NEW j \in Jobs, runs'[j] # runs[j]
    PROVE  Claimable(Head(due)) /\ Start(Head(due))
  <1>1. CASE Boot \/ Crash \/ Stop \/ StartJobWorker
    BY <1>1 DEF Boot, Crash, Stop, StartJobWorker, history
  <1>2. CASE \E max \in Limits : Register(max)
    BY <1>2 DEF Register, history
  <1>3. CASE \E k \in Jobs : EnqueueJobAt(k) \/ CancelJob(k) \/ Elapse(k)
    BY <1>3 DEF EnqueueJobAt, CancelJob, Elapse, history
  <1>4. CASE PollDueJobs \/ HandlerDone
    BY <1>4 DEF PollDueJobs, HandlerDone, history
  <1>5. CASE ClaimJob
    BY <1>5 DEF ClaimJob
  <1> QED
    BY <1>1, <1>2, <1>3, <1>4, <1>5 DEF Next, WorkerTick

\* Unless a write failed, the handler of a job that is over is never called again, not
\* by the tick that had it in its list and not by a later process.
THEOREM SettledIsForGood == MCSpec => SettledForGood
  <1>1. ASSUME JobInv, Next, NEW j \in Jobs, outcome[j] # "none", faults' = 0
        PROVE  runs'[j] = runs[j]
    <2> SUFFICES ASSUME runs'[j] # runs[j] PROVE FALSE
      OBVIOUS
    <2> DEFINE h == Head(due)
    <2>1. Claimable(h) /\ Start(h)
      BY <1>1, OnlyStartRuns
    <2>2. h \in Cached /\ h \in Jobs /\ records[h].status = "pending" /\ TypeOK
      BY <1>1, <2>1, CacheKeys DEF Claimable, JobInv
    <2>3. faults = 0
      <3>1. faults \in Nat /\ \E ok \in BOOLEAN : Attempted(ok)
        BY <2>1, <2>2, MaxFaultsAssumption DEF TypeOK, Start
      <3> QED
        BY <1>1, <3>1 DEF Attempted
    <2>4. h = j
      BY <2>1, <2>2 DEF Start, TypeOK
    <2> QED
      BY <1>1, <2>2, <2>3, <2>4 DEF JobInv, SettledStays, Terminal
  <1>2. JobInv /\ [MCNext]_allVars =>
            [\A j \in Jobs : outcome[j] # "none" /\ faults' = 0 => runs'[j] = runs[j]]_vars
    BY <1>1 DEF MCNext, JobsOnly, CronOnly, allVars
  <1> QED
    BY <1>2, JobInvariant, PTL DEF MCSpec, SettledForGood

-----------------------------------------------------------------------------
(***************************************************************************)
(* The inductive invariant of the cron scheduler.                          *)
(***************************************************************************)
Timers == [due : Int, from : Int]
NoTimer == Cron!NoTimer
Armed(e) == timer[e] # NoTimer
Excused(e) == name[e] \in reentered

CronTypes == Cron!TypeOK /\ timer \in [Cron!Entries -> Timers]

\* The registry maps a name to an entry that was created for it.
NamesOwn ==
    \A n \in Names : schedules[n] # None => schedules[n] <= size /\ name[schedules[n]] = n

\* Entries not created yet have no timer; without a scheduler nothing is armed; the
\* handler that runs has an entry and a scheduler.
EntriesFresh ==
    /\ \A e \in Cron!Entries : e > size => ~Armed(e) /\ ~active[e]
    /\ ~started => \A e \in Cron!Entries : Armed(e) => Excused(e)
    /\ firing # None => started /\ firing <= size

\* While the handler of a name that was not registered again from within runs, its
\* entry is the registered one, so that arming it again gives the name its one timer.
FiringOwns ==
    firing # None /\ ~Excused(firing) /\ active[firing] => Cron!Registered(firing)

\* A cancelled name has no active entry.
CancelledRests ==
    \A n \in cancelled \ reentered : schedules[n] # None => ~active[schedules[n]]

\* The delay that Node's timers can wait reaches the next minute an expression matches.
OccurrencesFit ==
    \A ticks \in Crons, m \in 0 .. MaxTime : \A t \in ticks :
        m < t /\ t <= m + Horizon => \E u \in ticks : m < u /\ u <= t /\ u <= m + MaxDelay

\* A timer is due at a minute that its expression matches.
TimersFit ==
    OccurrencesFit => \A e \in Cron!Entries : Armed(e) =>
        \E t \in cron[e] : timer[e].from < t /\ t <= timer[e].due

CronInv ==
    /\ CronTypes /\ NamesOwn /\ EntriesFresh /\ Cron!OneTimerPerName /\ FiringOwns
    /\ CancelledRests /\ TimersFit

LEMMA MinOfMinutes ==
    ASSUME NEW S, S \subseteq Nat, S # {}
    PROVE  Cron!Min(S) \in S /\ \A y \in S : Cron!Min(S) <= y
  BY LeastNatural DEF Cron!Min

\* scheduleNext() arms a timer for the next minute the expression matches.
LEMMA ArmedFacts ==
    ASSUME NEW ticks \in Crons, Cron!Upcoming(ticks) # {}, now \in 0 .. MaxTime
    PROVE  /\ Cron!Armed(ticks) \in Timers /\ Cron!Armed(ticks) # NoTimer
           /\ Cron!Armed(ticks).from = now /\ Cron!Armed(ticks).due >= now
           /\ OccurrencesFit => \E t \in ticks : now < t /\ t <= Cron!Armed(ticks).due
  <1> DEFINE up == Cron!Upcoming(ticks)
             t == Cron!Min(up)
  <1>1. up \subseteq Nat /\ up = {u \in ticks : now < u /\ u <= now + Horizon}
    BY CronsAssumption DEF Cron!Upcoming
  <1>2. /\ t \in ticks /\ t \in Nat /\ now < t /\ t <= now + Horizon
        /\ \A y \in up : t <= y
    BY <1>1, MinOfMinutes
  <1>3. now \in Nat /\ MaxDelay \in Nat /\ Horizon \in Nat
    BY MinutesAssumption
  <1>4. Cron!Armed(ticks) = [due |-> Cron!Due(t), from |-> now]
    BY DEF Cron!Armed
  <1> HIDE DEF t, up
  <1>5. Cron!Due(t) \in Int /\ Cron!Due(t) >= now
    BY <1>2, <1>3 DEF Cron!Due
  <1>6. ASSUME OccurrencesFit PROVE Cron!Due(t) = t
    <2>1. PICK u \in ticks : now < u /\ u <= t /\ u <= now + MaxDelay
      BY <1>2, <1>6 DEF OccurrencesFit
    <2>2. u \in Nat
      BY CronsAssumption
    <2>3. u \in up
      BY <1>1, <1>2, <1>3, <2>1, <2>2
    <2>4. t - now <= MaxDelay
      BY <1>2, <1>3, <2>1, <2>2, <2>3
    <2> QED
      BY <2>4 DEF Cron!Due
  <1>7. Cron!Armed(ticks) # NoTimer
    BY <1>3, <1>4 DEF Cron!NoTimer, NoTimer
  <1> QED
    BY <1>2, <1>3, <1>4, <1>5, <1>6, <1>7 DEF Timers

LEMMA CronFacts ==
    ASSUME CronInv
    PROVE  /\ now \in 0 .. MaxTime /\ now \in Nat /\ started \in BOOLEAN /\ size \in 0 .. MaxEntries
           /\ schedules \in [Names -> Cron!Entries \cup {0}]
           /\ name \in [Cron!Entries -> Names \cup {Cron!NoName}]
           /\ cron \in [Cron!Entries -> Crons \cup {{}}]
           /\ active \in [Cron!Entries -> BOOLEAN]
           /\ timer \in [Cron!Entries -> Timers] /\ NoTimer \in Timers
           /\ firing \in Cron!Entries \cup {0} /\ 0 \notin Cron!Entries
           /\ Cron!None = 0 /\ None = 0
           /\ cancelled \subseteq Names /\ reentered \subseteq Names
           /\ Cron!Entries = 1 .. MaxEntries /\ MaxEntries \in Nat
           /\ \A e \in Cron!Entries : Armed(e) =>
                 e <= size /\ timer[e].from \in 0 .. now /\ timer[e].due >= timer[e].from
  <1>1. CronTypes /\ Cron!TypeOK
    BY DEF CronInv, CronTypes
  <1>2. /\ now \in 0 .. MaxTime /\ started \in BOOLEAN /\ size \in 0 .. MaxEntries
        /\ schedules \in [Names -> Cron!Entries \cup {0}]
        /\ name \in [Cron!Entries -> Names \cup {Cron!NoName}]
        /\ cron \in [Cron!Entries -> Crons \cup {{}}]
        /\ active \in [Cron!Entries -> BOOLEAN]
        /\ firing \in Cron!Entries \cup {0}
        /\ cancelled \subseteq Names /\ reentered \subseteq Names
    BY <1>1 DEF Cron!TypeOK, Cron!None
  <1>3. timer \in [Cron!Entries -> Timers] /\ NoTimer \in Timers
    BY <1>1 DEF CronTypes, Timers, NoTimer, Cron!NoTimer
  <1>4. 0 \notin Cron!Entries /\ Cron!Entries = 1 .. MaxEntries
    BY MinutesAssumption DEF Cron!Entries
  <1>5. \A e \in Cron!Entries : Armed(e) =>
           e <= size /\ timer[e].from \in 0 .. now /\ timer[e].due >= timer[e].from
    BY <1>1 DEF Cron!TypeOK, Armed, NoTimer
  <1>6. now \in Nat /\ MaxEntries \in Nat /\ Cron!None = 0 /\ None = 0
    BY <1>2, MinutesAssumption DEF Cron!None, None
  <1> QED
    BY <1>2, <1>3, <1>4, <1>5, <1>6

\* _schedule_cron: the entry a name had loses its timer to the new one.
LEMMA ScheduleCronStep ==
    ASSUME CronInv, NEW n \in Names, NEW ticks \in Crons, Cron!ScheduleCron(n, ticks)
    PROVE  CronInv'
  <1> DEFINE a == Cron!Armed(ticks)
  <1>e. PICK e \in Nat : e = size + 1
    BY CronFacts
  <1>0. /\ CronTypes /\ NamesOwn /\ EntriesFresh /\ Cron!OneTimerPerName /\ FiringOwns
        /\ CancelledRests /\ TimersFit
    BY DEF CronInv
  <1>1. /\ size < MaxEntries /\ size' = e
        /\ name' = [name EXCEPT ![e] = n] /\ cron' = [cron EXCEPT ![e] = ticks]
        /\ schedules' = [schedules EXCEPT ![n] = e] /\ cancelled' = cancelled \ {n}
        /\ reentered' = IF firing # None /\ name[firing] = n THEN reentered \cup {n}
                                                            ELSE reentered
        /\ UNCHANGED <<now, started, firing>>
    BY <1>e DEF Cron!ScheduleCron, Cron!None, None
  <1>2. /\ size \in Nat /\ e \in Nat /\ e \in Cron!Entries /\ e <= MaxEntries
        /\ ~Armed(e) /\ ~active[e]
        /\ \A m \in Names : schedules[m] # e
    <2>1. size \in Nat /\ e \in 1 .. MaxEntries /\ e > size
      BY <1>e, <1>1, CronFacts
    <2>2. \A m \in Names : schedules[m] # e
      BY <1>0, <2>1, CronFacts DEF NamesOwn
    <2> QED
      BY <1>0, <2>1, <2>2, CronFacts DEF EntriesFresh
  <1>3. /\ \/ timer'[e] = NoTimer
           \/ started /\ Cron!Upcoming(ticks) # {} /\ timer'[e] = a /\ active'[e] = TRUE
        /\ \A k \in Cron!Entries : k # e =>
              timer'[k] = IF k = schedules[n] THEN NoTimer ELSE timer[k]
        /\ timer' \in [Cron!Entries -> Timers]
    <2>1. Cron!ClearTimer(n) \in [Cron!Entries -> Timers]
      BY CronFacts DEF Cron!ClearTimer, NoTimer
    <2>2. \A k \in Cron!Entries :
             Cron!ClearTimer(n)[k] = IF k = schedules[n] THEN NoTimer ELSE timer[k]
      BY CronFacts DEF Cron!ClearTimer, NoTimer
    <2>3. timer[e] = NoTimer
      BY <1>2 DEF Armed
    <2>4. active[e] \in BOOLEAN /\ active \in [Cron!Entries -> BOOLEAN] /\ started \in BOOLEAN
      BY <1>2, CronFacts
    <2>5. CASE started /\ Cron!Upcoming(ticks) # {}
      <3>1. /\ timer' = [Cron!ClearTimer(n) EXCEPT ![e] = a]
            /\ active' = [active EXCEPT ![e] = TRUE]
        BY <1>e, <2>5 DEF Cron!ScheduleCron
      <3>2. a \in Timers
        BY <2>5, ArmedFacts, CronFacts
      <3> QED
        BY <1>2, <2>1, <2>2, <2>4, <2>5, <3>1, <3>2
    <2>6. CASE ~(started /\ Cron!Upcoming(ticks) # {})
      <3>1. timer' = Cron!ClearTimer(n)
        BY <2>6 DEF Cron!ScheduleCron
      <3> QED
        BY <1>2, <2>1, <2>2, <2>3, <3>1
    <2> QED
      BY <2>5, <2>6
  <1>4. /\ active' \in [Cron!Entries -> BOOLEAN]
        /\ \A k \in Cron!Entries : k # e => active'[k] = active[k]
    <2>1. active \in [Cron!Entries -> BOOLEAN] /\ started \in BOOLEAN
      BY CronFacts
    <2>2. active' = [active EXCEPT ![e] = TRUE] \/ active' = [active EXCEPT ![e] = ~started]
      BY <1>e DEF Cron!ScheduleCron
    <2> QED
      BY <1>2, <2>1, <2>2
  <1>5. /\ name'[e] = n /\ \A k \in Cron!Entries : k # e => name'[k] = name[k]
        /\ cron'[e] = ticks /\ \A k \in Cron!Entries : k # e => cron'[k] = cron[k]
        /\ schedules'[n] = e /\ \A m \in Names : m # n => schedules'[m] = schedules[m]
        /\ name' \in [Cron!Entries -> Names \cup {Cron!NoName}]
        /\ cron' \in [Cron!Entries -> Crons \cup {{}}]
        /\ schedules' \in [Names -> Cron!Entries \cup {0}]
        /\ reentered \subseteq reentered' /\ reentered' \subseteq Names
    BY <1>1, <1>2, CronFacts
  <1>6. \A k \in Cron!Entries : k # e /\ Armed(k)' =>
           Armed(k) /\ k # schedules[n] /\ timer'[k] = timer[k]
    BY <1>3 DEF Armed, NoTimer, Cron!NoTimer
  <1>7. Armed(e)' => started /\ timer'[e] = a /\ active'[e] /\ a.from = now /\ a.due >= now
                     /\ (OccurrencesFit => \E t \in ticks : now < t /\ t <= a.due)
    BY <1>3, ArmedFacts, CronFacts DEF Armed, NoTimer, Cron!NoTimer
  <1> HIDE DEF a
  <1>8. CronTypes'
    <2>1. ASSUME NEW k \in Cron!Entries, Armed(k)'
          PROVE  k <= size' /\ timer'[k].from \in 0 .. now' /\ timer'[k].due >= timer'[k].from
      <3>1. CASE k = e
        BY <1>1, <1>2, <1>7, <2>1, <3>1, CronFacts
      <3>2. CASE k # e
        <4>1. k <= size /\ timer'[k].from \in 0 .. now /\ timer'[k].due >= timer'[k].from
          BY <1>6, <2>1, <3>2, CronFacts
        <4>2. k \in Nat /\ size' = size + 1
          BY <1>1, <1>e, CronFacts
        <4> QED
          BY <1>1, <1>2, <4>1, <4>2
      <3> QED
        BY <3>1, <3>2
    <2>2. /\ size' \in 0 .. MaxEntries /\ now' \in 0 .. MaxTime
          /\ firing' \in Cron!Entries \cup {0}
          /\ cancelled' \subseteq Names
      BY <1>1, <1>2, CronFacts
    <2>3. started' \in BOOLEAN
      BY <1>1, CronFacts
    <2>4. Cron!TypeOK'
      <3>1. \A k \in Cron!Entries : timer'[k] # Cron!NoTimer =>
               k <= size' /\ timer'[k].from \in 0 .. now' /\ timer'[k].due >= timer'[k].from
        BY <2>1 DEF Armed, NoTimer
      <3> QED
        BY <1>4, <1>5, <2>2, <2>3, <3>1 DEF Cron!TypeOK, Cron!None
    <2> QED
      BY <1>3, <2>4 DEF CronTypes
  <1>9. NamesOwn'
    <2> SUFFICES ASSUME NEW m \in Names, schedules'[m] # None
                 PROVE  schedules'[m] <= size' /\ name'[schedules'[m]] = m
      BY DEF NamesOwn, None
    <2>1. CASE m = n
      BY <1>1, <1>2, <1>5, <2>1
    <2>2. CASE m # n
      <3>1. /\ schedules'[m] = schedules[m] /\ schedules[m] \in Cron!Entries
            /\ schedules[m] <= size /\ name[schedules[m]] = m /\ schedules[m] # e
        BY <1>0, <1>2, <1>5, <2>2, CronFacts DEF NamesOwn
      <3>2. schedules[m] \in Nat /\ size' = size + 1
        BY <1>1, <1>e, <3>1, CronFacts
      <3> QED
        BY <1>2, <1>5, <3>1, <3>2
    <2> QED
      BY <2>1, <2>2
  <1>10. EntriesFresh'
    <2>1. ASSUME NEW k \in Cron!Entries, k > size' PROVE ~Armed(k)' /\ ~active'[k]
      <3>1. k # e /\ k > size
        BY <1>1, <1>2, <1>e, <2>1, CronFacts
      <3> QED
        BY <1>0, <1>4, <1>6, <3>1 DEF EntriesFresh
    <2>2. ASSUME ~started', NEW k \in Cron!Entries, Armed(k)' PROVE Excused(k)'
      <3>1. k # e /\ Armed(k)
        BY <1>1, <1>6, <1>7, <2>2
      <3> QED
        BY <1>0, <1>1, <1>5, <2>2, <3>1 DEF EntriesFresh, Excused
    <2>3. firing' # None => started' /\ firing' <= size'
      <3>1. firing # None => started /\ firing <= size
        BY <1>0 DEF EntriesFresh
      <3>2. firing \in Nat /\ size' = size + 1 /\ started' = started /\ firing' = firing
        BY <1>1, <1>e, CronFacts
      <3> QED
        BY <1>2, <3>1, <3>2
    <2> QED
      BY <2>1, <2>2, <2>3 DEF EntriesFresh
  <1>11. Cron!OneTimerPerName'
    <2> SUFFICES ASSUME NEW k \in Cron!Entries, Armed(k)', ~Excused(k)'
                 PROVE  Cron!Registered(k)' /\ active'[k]
      BY DEF Cron!OneTimerPerName, Armed, NoTimer, Excused
    <2>1. CASE k = e
      BY <1>5, <1>7, <2>1 DEF Cron!Registered
    <2>2. CASE k # e
      <3>1. Armed(k) /\ k # schedules[n] /\ ~Excused(k)
        BY <1>5, <1>6, <2>2 DEF Excused
      <3>2. Cron!Registered(k) /\ active[k]
        BY <1>0, <3>1 DEF Cron!OneTimerPerName, Armed, NoTimer, Excused
      <3>3. PICK m \in Names : schedules[m] = k
        BY <3>2 DEF Cron!Registered
      <3>4. schedules'[m] = k
        BY <1>5, <3>1, <3>3
      <3> QED
        BY <1>4, <2>2, <3>2, <3>4 DEF Cron!Registered
    <2> QED
      BY <2>1, <2>2
  <1>12. FiringOwns'
    <2> SUFFICES ASSUME firing # None, ~Excused(firing)', active'[firing]
                 PROVE  Cron!Registered(firing)'
      BY <1>1 DEF FiringOwns, Excused
    <2>1. firing \in Cron!Entries /\ firing # e
      BY <1>0, <1>2, <1>e, CronFacts DEF EntriesFresh
    <2>2. ~Excused(firing) /\ active[firing] /\ name[firing] # n
      BY <1>1, <1>4, <1>5, <2>1 DEF Excused
    <2>3. PICK m \in Names : schedules[m] = firing
      BY <1>0, <2>2 DEF FiringOwns, Cron!Registered
    <2>4. m # n
      BY <1>0, <2>2, <2>3 DEF NamesOwn
    <2> QED
      BY <1>1, <1>5, <2>3, <2>4 DEF Cron!Registered
  <1>13. CancelledRests'
    <2> SUFFICES ASSUME NEW m \in cancelled' \ reentered', schedules'[m] # None
                 PROVE  ~active'[schedules'[m]]
      BY DEF CancelledRests, None
    <2>1. m \in cancelled \ reentered /\ m # n /\ m \in Names
      BY <1>1, <1>5, CronFacts
    <2>2. schedules'[m] = schedules[m] /\ schedules[m] \in Cron!Entries /\ schedules[m] # e
      BY <1>2, <1>5, <2>1, CronFacts
    <2> QED
      BY <1>0, <1>4, <2>1, <2>2 DEF CancelledRests
  <1>14. TimersFit'
    <2> SUFFICES ASSUME OccurrencesFit, NEW k \in Cron!Entries, Armed(k)'
                 PROVE  \E t \in cron'[k] : timer'[k].from < t /\ t <= timer'[k].due
      BY DEF TimersFit
    <2>1. CASE k = e
      BY <1>5, <1>7, <2>1
    <2>2. CASE k # e
      BY <1>0, <1>5, <1>6, <2>2 DEF TimersFit
    <2> QED
      BY <2>1, <2>2
  <1> QED
    BY <1>8, <1>9, <1>10, <1>11, <1>12, <1>13, <1>14 DEF CronInv

\* _schedule_cancel: the entry of the name rests, whether it was armed or running.
LEMMA ScheduleCancelStep ==
    ASSUME CronInv, NEW n \in Names, Cron!ScheduleCancel(n)
    PROVE  CronInv'
  <1>0. /\ CronTypes /\ NamesOwn /\ EntriesFresh /\ Cron!OneTimerPerName /\ FiringOwns
        /\ CancelledRests /\ TimersFit
    BY DEF CronInv
  <1>e. PICK e : e = schedules[n]
    OBVIOUS
  <1>1. /\ e \in Cron!Entries
        /\ active' = [active EXCEPT ![e] = FALSE] /\ timer' = [timer EXCEPT ![e] = NoTimer]
        /\ cancelled' = cancelled \cup {n}
        /\ UNCHANGED <<now, started, schedules, size, name, cron, firing, reentered>>
    BY <1>e, CronFacts DEF Cron!ScheduleCancel, Cron!Deactivate, Cron!None, NoTimer
  <1>2. /\ active' \in [Cron!Entries -> BOOLEAN] /\ ~active'[e]
        /\ \A k \in Cron!Entries : k # e => active'[k] = active[k]
    <2>1. active \in [Cron!Entries -> BOOLEAN]
      BY CronFacts
    <2> QED
      BY <1>1, <2>1
  <1>3. /\ timer' \in [Cron!Entries -> Timers] /\ timer'[e] = NoTimer
        /\ \A k \in Cron!Entries : k # e => timer'[k] = timer[k]
    BY <1>1, CronFacts
  <1>4. \A k \in Cron!Entries : Armed(k)' => k # e /\ Armed(k) /\ timer'[k] = timer[k]
    BY <1>3 DEF Armed, NoTimer, Cron!NoTimer
  <1>5. CronTypes'
    <2>1. \A k \in Cron!Entries : timer'[k] # Cron!NoTimer =>
             k <= size /\ timer'[k].from \in 0 .. now /\ timer'[k].due >= timer'[k].from
      BY <1>4, CronFacts DEF Armed, NoTimer
    <2>2. cancelled' \subseteq Names
      BY <1>1, CronFacts
    <2> QED
      BY <1>0, <1>1, <1>2, <1>3, <2>1, <2>2 DEF CronTypes, Cron!TypeOK
  <1>6. NamesOwn'
    BY <1>0, <1>1 DEF NamesOwn
  <1>7. EntriesFresh'
    BY <1>0, <1>1, <1>2, <1>4 DEF EntriesFresh, Excused
  <1>8. Cron!OneTimerPerName'
    BY <1>0, <1>1, <1>2, <1>4 DEF Cron!OneTimerPerName, Armed, NoTimer, Cron!Registered
  <1>9. FiringOwns'
    <2>1. active'[firing] /\ firing # None => active[firing]
      BY <1>2, CronFacts
    <2> QED
      BY <1>0, <1>1, <2>1 DEF FiringOwns, Excused, Cron!Registered
  <1>10. CancelledRests'
    <2> SUFFICES ASSUME NEW m \in cancelled' \ reentered', schedules[m] # None
                 PROVE  ~active'[schedules[m]]
      BY <1>1 DEF CancelledRests
    <2>1. CASE schedules[m] = e
      BY <1>2, <2>1
    <2>2. CASE schedules[m] # e
      BY <1>e, <1>0, <1>1, <1>2, <2>2, CronFacts DEF CancelledRests
    <2> QED
      BY <2>1, <2>2
  <1>11. TimersFit'
    BY <1>0, <1>1, <1>4 DEF TimersFit
  <1> QED
    BY <1>5, <1>6, <1>7, <1>8, <1>9, <1>10, <1>11 DEF CronInv

\* The timer's callback: an armed entry that no handler of its name replaced is the
\* registered one.
LEMMA FireStep ==
    ASSUME CronInv, NEW e \in Cron!Entries, Cron!FireHandler(e)
    PROVE  CronInv'
  <1>0. /\ CronTypes /\ NamesOwn /\ EntriesFresh /\ Cron!OneTimerPerName /\ FiringOwns
        /\ CancelledRests /\ TimersFit
    BY DEF CronInv
  <1>1. /\ Armed(e) /\ timer' = [timer EXCEPT ![e] = NoTimer]
        /\ firing' = IF active[e] /\ started THEN e ELSE None
        /\ UNCHANGED <<now, started, schedules, size, name, cron, active, cancelled, reentered>>
    BY DEF Cron!FireHandler, Armed, NoTimer, Cron!None, None
  <1>2. /\ timer' \in [Cron!Entries -> Timers] /\ timer'[e] = NoTimer
        /\ \A k \in Cron!Entries : k # e => timer'[k] = timer[k]
    BY <1>1, CronFacts
  <1>3. \A k \in Cron!Entries : Armed(k)' => Armed(k) /\ timer'[k] = timer[k]
    BY <1>2 DEF Armed, NoTimer, Cron!NoTimer
  <1>4. CronTypes'
    <2>1. \A k \in Cron!Entries : timer'[k] # Cron!NoTimer =>
             k <= size /\ timer'[k].from \in 0 .. now /\ timer'[k].due >= timer'[k].from
      BY <1>3, CronFacts DEF Armed, NoTimer
    <2>2. firing' \in Cron!Entries \cup {Cron!None}
      BY <1>1, CronFacts
    <2> QED
      BY <1>0, <1>1, <1>2, <2>1, <2>2 DEF CronTypes, Cron!TypeOK
  <1>5. NamesOwn' /\ CancelledRests'
    BY <1>0, <1>1 DEF NamesOwn, CancelledRests
  <1>6. EntriesFresh'
    <2>1. firing' # None => started /\ firing' <= size
      <3>1. e <= size
        BY <1>1, CronFacts
      <3> QED
        BY <1>1, <3>1
    <2> QED
      BY <1>0, <1>1, <1>3, <2>1 DEF EntriesFresh, Excused
  <1>7. Cron!OneTimerPerName'
    BY <1>0, <1>1, <1>3 DEF Cron!OneTimerPerName, Armed, NoTimer, Cron!Registered
  <1>8. FiringOwns'
    <2>1. Excused(e) \/ Cron!Registered(e)
      BY <1>0, <1>1 DEF Cron!OneTimerPerName, Armed, NoTimer, Excused
    <2>2. firing' = None \/ firing' = e
      BY <1>1
    <2> QED
      BY <1>1, <2>1, <2>2 DEF FiringOwns, Excused, Cron!Registered
  <1>9. TimersFit'
    BY <1>0, <1>1, <1>3 DEF TimersFit
  <1> QED
    BY <1>4, <1>5, <1>6, <1>7, <1>8, <1>9 DEF CronInv

\* The handler has returned: the entry is armed again, unless it was cancelled.
LEMMA RearmStep == ASSUME CronInv, Cron!HandlerDone PROVE CronInv'
  <1>0. /\ CronTypes /\ NamesOwn /\ EntriesFresh /\ Cron!OneTimerPerName /\ FiringOwns
        /\ CancelledRests /\ TimersFit
    BY DEF CronInv
  <1>e. PICK e \in Cron!Entries : e = firing
    BY CronFacts DEF Cron!HandlerDone
  <1>1. /\ Cron!ScheduleNext(e, cron[e], active) /\ firing' = None /\ started /\ e <= size
        /\ UNCHANGED <<now, started, schedules, size, name, cron, cancelled, reentered>>
    BY <1>0, <1>e, CronFacts DEF Cron!HandlerDone, Cron!Rearm, EntriesFresh
  <1>2. /\ \A k \in Cron!Entries : k # e => timer'[k] = timer[k]
        /\ timer' \in [Cron!Entries -> Timers]
        /\ \/ timer'[e] = NoTimer
           \/ /\ active[e] /\ active'[e] /\ Cron!Upcoming(cron[e]) # {} /\ cron[e] \in Crons
              /\ timer'[e] = Cron!Armed(cron[e])
        /\ active' \in [Cron!Entries -> BOOLEAN]
        /\ \A k \in Cron!Entries : k # e => active'[k] = active[k]
        /\ active'[e] => active[e]
    <2>1. active \in [Cron!Entries -> BOOLEAN] /\ timer \in [Cron!Entries -> Timers]
          /\ NoTimer \in Timers
      BY CronFacts
    <2>2. CASE ~active[e] \/ ~started
      <3>1. active' = active /\ timer' = [timer EXCEPT ![e] = NoTimer]
        BY <1>1, <2>2 DEF Cron!ScheduleNext, NoTimer
      <3> QED
        BY <2>1, <3>1
    <2>3. CASE ~(~active[e] \/ ~started) /\ Cron!Upcoming(cron[e]) = {}
      <3>1. active' = [active EXCEPT ![e] = FALSE] /\ timer' = [timer EXCEPT ![e] = NoTimer]
        BY <1>1, <2>3 DEF Cron!ScheduleNext, NoTimer
      <3> QED
        BY <2>1, <2>3, <3>1
    <2>4. CASE ~(~active[e] \/ ~started) /\ Cron!Upcoming(cron[e]) # {}
      <3>1. active' = active /\ timer' = [timer EXCEPT ![e] = Cron!Armed(cron[e])]
        BY <1>1, <2>4 DEF Cron!ScheduleNext
      <3>2. cron[e] \in Crons
        BY <2>4, CronFacts DEF Cron!Upcoming
      <3>3. Cron!Armed(cron[e]) \in Timers
        BY <2>4, <3>2, ArmedFacts, CronFacts
      <3> QED
        BY <2>1, <2>4, <3>1, <3>2, <3>3
    <2> QED
      BY <2>2, <2>3, <2>4
  <1>3. \A k \in Cron!Entries : k # e /\ Armed(k)' => Armed(k) /\ timer'[k] = timer[k]
    BY <1>2 DEF Armed, NoTimer, Cron!NoTimer
  <1>4. Armed(e)' =>
           /\ active[e] /\ active'[e] /\ timer'[e].from = now /\ timer'[e].due >= now
           /\ OccurrencesFit => \E t \in cron[e] : timer'[e].from < t /\ t <= timer'[e].due
    <2> SUFFICES ASSUME Armed(e)'
                 PROVE  /\ active[e] /\ active'[e] /\ timer'[e].from = now
                        /\ timer'[e].due >= now
                        /\ OccurrencesFit =>
                              \E t \in cron[e] : timer'[e].from < t /\ t <= timer'[e].due
      OBVIOUS
    <2>1. /\ active[e] /\ active'[e] /\ Cron!Upcoming(cron[e]) # {} /\ cron[e] \in Crons
          /\ timer'[e] = Cron!Armed(cron[e])
      BY <1>2 DEF Armed, NoTimer, Cron!NoTimer
    <2> QED
      BY <2>1, ArmedFacts, CronFacts
  <1>5. CronTypes'
    <2>1. ASSUME NEW k \in Cron!Entries, Armed(k)'
          PROVE  k <= size /\ timer'[k].from \in 0 .. now /\ timer'[k].due >= timer'[k].from
      <3>1. CASE k = e
        BY <1>1, <1>4, <2>1, <3>1, CronFacts
      <3>2. CASE k # e
        BY <1>3, <2>1, <3>2, CronFacts
      <3> QED
        BY <3>1, <3>2
    <2>2. \A k \in Cron!Entries : timer'[k] # Cron!NoTimer =>
             k <= size /\ timer'[k].from \in 0 .. now /\ timer'[k].due >= timer'[k].from
      BY <2>1 DEF Armed, NoTimer
    <2>3. firing' \in Cron!Entries \cup {Cron!None}
      BY <1>1, CronFacts
    <2> QED
      BY <1>0, <1>1, <1>2, <2>2, <2>3 DEF CronTypes, Cron!TypeOK
  <1>6. NamesOwn' /\ FiringOwns'
    BY <1>0, <1>1 DEF NamesOwn, FiringOwns
  <1>7. EntriesFresh'
    <2>1. ASSUME NEW k \in Cron!Entries, k > size PROVE ~Armed(k)' /\ ~active'[k]
      <3>1. k # e
        BY <1>1, <2>1, CronFacts
      <3> QED
        BY <1>0, <1>2, <1>3, <2>1, <3>1 DEF EntriesFresh
    <2> QED
      BY <1>1, <2>1 DEF EntriesFresh
  <1>8. Cron!OneTimerPerName'
    <2> SUFFICES ASSUME NEW k \in Cron!Entries, Armed(k)', ~Excused(k)
                 PROVE  Cron!Registered(k) /\ active'[k]
      BY <1>1 DEF Cron!OneTimerPerName, Armed, NoTimer, Excused, Cron!Registered
    <2>1. CASE k = e
      <3>1. active[e] /\ active'[e]
        BY <1>4, <2>1
      <3> QED
        BY <1>0, <1>e, <2>1, <3>1, CronFacts DEF FiringOwns
    <2>2. CASE k # e
      BY <1>0, <1>2, <1>3, <2>2 DEF Cron!OneTimerPerName, Armed, NoTimer, Excused
    <2> QED
      BY <2>1, <2>2
  <1>9. CancelledRests'
    BY <1>0, <1>1, <1>2, CronFacts DEF CancelledRests
  <1>10. TimersFit'
    <2> SUFFICES ASSUME OccurrencesFit, NEW k \in Cron!Entries, Armed(k)'
                 PROVE  \E t \in cron[k] : timer'[k].from < t /\ t <= timer'[k].due
      BY <1>1 DEF TimersFit
    <2>1. CASE k = e
      BY <1>4, <2>1
    <2>2. CASE k # e
      BY <1>0, <1>3, <2>2 DEF TimersFit
    <2> QED
      BY <2>1, <2>2
  <1> QED
    BY <1>5, <1>6, <1>7, <1>8, <1>9, <1>10 DEF CronInv

\* startScheduler(): the registered active entries are armed; none of them had a timer.
LEMMA StartSchedulerStep == ASSUME CronInv, Cron!StartScheduler PROVE CronInv'
  <1>0. /\ CronTypes /\ NamesOwn /\ EntriesFresh /\ Cron!OneTimerPerName /\ FiringOwns
        /\ CancelledRests /\ TimersFit
    BY DEF CronInv
  <1> DEFINE waiting == {e \in Cron!Entries : Cron!Registered(e) /\ active[e]}
             fruitful == {e \in waiting : Cron!Upcoming(cron[e]) # {}}
  <1>1. /\ ~started /\ firing = None /\ started' = TRUE
        /\ timer' = [e \in Cron!Entries |->
                        IF e \in fruitful THEN Cron!Armed(cron[e]) ELSE timer[e]]
        /\ active' = [e \in Cron!Entries |-> active[e] /\ e \notin waiting \ fruitful]
        /\ UNCHANGED <<now, schedules, size, name, cron, firing, cancelled, reentered>>
    BY DEF Cron!StartScheduler, Cron!None, None
  <1>2. ASSUME NEW e \in fruitful
        PROVE  /\ cron[e] \in Crons /\ timer'[e] \in Timers /\ e <= size
               /\ timer'[e].from = now /\ timer'[e].due >= now
               /\ OccurrencesFit => \E t \in cron[e] : timer'[e].from < t /\ t <= timer'[e].due
    <2>1. cron[e] \in Crons /\ Cron!Upcoming(cron[e]) # {} /\ timer'[e] = Cron!Armed(cron[e])
      BY <1>1, CronFacts DEF Cron!Upcoming
    <2>2. e <= size
      BY <1>0, CronFacts DEF Cron!Registered, NamesOwn
    <2> QED
      BY <2>1, <2>2, ArmedFacts, CronFacts
  <1>3. /\ \A e \in Cron!Entries : e \notin fruitful => timer'[e] = timer[e]
        /\ \A e \in Cron!Entries : active'[e] => active[e]
        /\ \A e \in fruitful : active'[e] /\ Cron!Registered(e) /\ active[e]
        /\ active' \in [Cron!Entries -> BOOLEAN]
    BY <1>1, CronFacts
  <1>4. timer' \in [Cron!Entries -> Timers]
    BY <1>1, <1>2, CronFacts
  <1>5. CronTypes'
    <2>1. ASSUME NEW k \in Cron!Entries, timer'[k] # Cron!NoTimer
          PROVE  k <= size /\ timer'[k].from \in 0 .. now /\ timer'[k].due >= timer'[k].from
      <3>1. CASE k \in fruitful
        BY <1>2, <3>1, CronFacts
      <3>2. CASE k \notin fruitful
        BY <1>3, <2>1, <3>2, CronFacts DEF Armed, NoTimer
      <3> QED
        BY <3>1, <3>2
    <2> QED
      BY <1>0, <1>1, <1>3, <1>4, <2>1 DEF CronTypes, Cron!TypeOK
  <1>6. NamesOwn' /\ FiringOwns'
    BY <1>0, <1>1 DEF NamesOwn, FiringOwns
  <1>7. EntriesFresh'
    <2>1. ASSUME NEW k \in Cron!Entries, k > size PROVE ~Armed(k)' /\ ~active'[k]
      <3>1. k \notin fruitful
        BY <1>0, <1>3, <2>1 DEF EntriesFresh
      <3> QED
        BY <1>0, <1>3, <2>1, <3>1 DEF EntriesFresh, Armed, NoTimer, Cron!NoTimer
    <2> QED
      BY <1>1, <2>1 DEF EntriesFresh
  <1>8. Cron!OneTimerPerName'
    <2> SUFFICES ASSUME NEW k \in Cron!Entries, Armed(k)', ~Excused(k)
                 PROVE  Cron!Registered(k) /\ active'[k]
      BY <1>1 DEF Cron!OneTimerPerName, Armed, NoTimer, Excused, Cron!Registered
    <2>1. k \in fruitful
      BY <1>0, <1>1, <1>3 DEF EntriesFresh, Armed, NoTimer, Cron!NoTimer
    <2> QED
      BY <1>3, <2>1
  <1>9. CancelledRests'
    BY <1>0, <1>1, <1>3, CronFacts DEF CancelledRests
  <1>10. TimersFit'
    <2> SUFFICES ASSUME OccurrencesFit, NEW k \in Cron!Entries, Armed(k)'
                 PROVE  \E t \in cron[k] : timer'[k].from < t /\ t <= timer'[k].due
      BY <1>1 DEF TimersFit
    <2>1. CASE k \in fruitful
      BY <1>2, <2>1
    <2>2. CASE k \notin fruitful
      BY <1>0, <1>3, <2>2 DEF TimersFit, Armed, NoTimer, Cron!NoTimer
    <2> QED
      BY <2>1, <2>2
  <1> QED
    BY <1>5, <1>6, <1>7, <1>8, <1>9, <1>10 DEF CronInv

\* stopScheduler(): it reaches the timers of the registered entries, which are all
\* that are armed, except those of a name registered again by its own handler.
LEMMA StopSchedulerStep == ASSUME CronInv, Cron!StopScheduler PROVE CronInv'
  <1>0. /\ CronTypes /\ NamesOwn /\ EntriesFresh /\ Cron!OneTimerPerName /\ FiringOwns
        /\ CancelledRests /\ TimersFit
    BY DEF CronInv
  <1>1. /\ firing = None /\ started' = FALSE
        /\ timer' = [e \in Cron!Entries |-> IF Cron!Registered(e) THEN NoTimer ELSE timer[e]]
        /\ active' = [e \in Cron!Entries |-> active[e] /\ ~Cron!Registered(e)]
        /\ schedules' = [n \in Names |-> None]
        /\ UNCHANGED <<now, size, name, cron, firing, cancelled, reentered>>
    BY DEF Cron!StopScheduler, Cron!None, None, NoTimer
  <1>2. /\ \A e \in Cron!Entries : active'[e] => active[e]
        /\ active' \in [Cron!Entries -> BOOLEAN]
    BY <1>1, CronFacts
  <1>3. timer' \in [Cron!Entries -> Timers]
    BY <1>1, CronFacts
  <1>4. \A k \in Cron!Entries : Armed(k)' =>
           Armed(k) /\ timer'[k] = timer[k] /\ ~Cron!Registered(k)
    BY <1>1 DEF Armed, NoTimer, Cron!NoTimer
  <1>5. \A k \in Cron!Entries : Armed(k)' => Excused(k)
    BY <1>0, <1>4 DEF Cron!OneTimerPerName, Armed, NoTimer, Excused
  <1>6. CronTypes'
    <2>1. \A k \in Cron!Entries : timer'[k] # Cron!NoTimer =>
             k <= size /\ timer'[k].from \in 0 .. now /\ timer'[k].due >= timer'[k].from
      BY <1>4, CronFacts DEF Armed, NoTimer
    <2>2. schedules' \in [Names -> Cron!Entries \cup {Cron!None}]
      BY <1>1, CronFacts
    <2> QED
      BY <1>0, <1>1, <1>2, <1>3, <2>1, <2>2 DEF CronTypes, Cron!TypeOK
  <1>7. NamesOwn' /\ FiringOwns' /\ CancelledRests'
    BY <1>1, CronFacts DEF NamesOwn, FiringOwns, CancelledRests
  <1>8. EntriesFresh'
    BY <1>0, <1>1, <1>2, <1>4, <1>5 DEF EntriesFresh, Excused
  <1>9. Cron!OneTimerPerName'
    BY <1>1, <1>5 DEF Cron!OneTimerPerName, Armed, NoTimer, Excused
  <1>10. TimersFit'
    BY <1>0, <1>1, <1>4 DEF TimersFit
  <1> QED
    BY <1>6, <1>7, <1>8, <1>9, <1>10 DEF CronInv

LEMMA CronStays ==
    ASSUME CronInv, now' \in 0 .. MaxTime, now' >= now,
           UNCHANGED <<started, schedules, size, name, cron, active, timer, firing, cancelled,
                       reentered>>
    PROVE  CronInv'
  <1>0. /\ CronTypes /\ NamesOwn /\ EntriesFresh /\ Cron!OneTimerPerName /\ FiringOwns
        /\ CancelledRests /\ TimersFit
    BY DEF CronInv
  <1>1. CronTypes'
    <2>1. ASSUME NEW k \in Cron!Entries, timer[k] # Cron!NoTimer
          PROVE  k <= size /\ timer[k].from \in 0 .. now' /\ timer[k].due >= timer[k].from
      BY <2>1, CronFacts DEF Armed, NoTimer
    <2> QED
      BY <1>0, <2>1 DEF CronTypes, Cron!TypeOK
  <1>2. NamesOwn' /\ EntriesFresh' /\ FiringOwns' /\ CancelledRests' /\ TimersFit'
    BY <1>0 DEF NamesOwn, EntriesFresh, FiringOwns, CancelledRests, TimersFit, Armed, Excused,
                Cron!Registered
  <1>3. Cron!OneTimerPerName'
    BY <1>0 DEF Cron!OneTimerPerName, Cron!Registered
  <1> QED
    BY <1>1, <1>2, <1>3 DEF CronInv

LEMMA CronNext == ASSUME CronInv, Cron!Next \/ UNCHANGED cronVars PROVE CronInv'
  <1>1. CASE Cron!Tick
    <2>1. now' \in 0 .. MaxTime /\ now' >= now
      BY <1>1, CronFacts, MinutesAssumption DEF Cron!Tick
    <2> QED
      BY <1>1, <2>1, CronStays DEF Cron!Tick
  <1>2. CASE UNCHANGED cronVars
    <2>1. now' \in 0 .. MaxTime /\ now' >= now
      BY <1>2, CronFacts DEF cronVars
    <2> QED
      BY <1>2, <2>1, CronStays DEF cronVars
  <1> QED
    BY <1>1, <1>2, ScheduleCancelStep, ScheduleCronStep, FireStep, RearmStep,
       StartSchedulerStep, StopSchedulerStep DEF Cron!Next

LEMMA CronInit == ASSUME Cron!Init PROVE CronInv
  <1>1. timer \in [Cron!Entries -> Timers] /\ \A e \in Cron!Entries : timer[e] = NoTimer
    BY DEF Cron!Init, Timers, NoTimer, Cron!NoTimer
  <1>2. now \in 0 .. MaxTime /\ size \in 0 .. MaxEntries
    BY MinutesAssumption DEF Cron!Init
  <1>3. CronTypes
    BY <1>1, <1>2 DEF CronTypes, Cron!Init, Cron!TypeOK, NoTimer
  <1>4. Cron!OneTimerPerName
    BY <1>1 DEF Cron!OneTimerPerName, NoTimer
  <1>5. NamesOwn /\ EntriesFresh /\ FiringOwns /\ CancelledRests /\ TimersFit
    BY <1>1 DEF Cron!Init, NamesOwn, EntriesFresh, FiringOwns, CancelledRests, TimersFit, Armed,
                Cron!None, None
  <1> QED
    BY <1>3, <1>4, <1>5 DEF CronInv

LEMMA CronInvariant == MCSpec => []CronInv
  <1>1. MCInit => CronInv
    BY CronInit DEF MCInit
  <1>2. CronInv /\ [MCNext]_allVars => CronInv'
    BY CronNext DEF MCNext, JobsOnly, CronOnly, allVars
  <1> QED
    BY <1>1, <1>2, PTL DEF MCSpec

\* The types of both parts of the background work.
THEOREM BackgroundTypes == MCSpec => []TypesOK
  <1>1. JobInv /\ CronInv => TypesOK
    BY DEF JobInv, CronInv, CronTypes, TypesOK
  <1> QED
    BY <1>1, JobInvariant, CronInvariant, PTL

\* An entry that has a timer is the one its name stands for, so that registering,
\* cancelling and stopping reach every timer, unless a handler registered its own name
\* again while it ran: for any names, expressions and delays.
THEOREM RegistryReachesTimers == MCSpec => []OneTimerPerName
  <1>1. CronInv => OneTimerPerName
    BY DEF CronInv, OneTimerPerName
  <1> QED
    BY <1>1, CronInvariant, PTL

\* A handler runs at or after a minute that its expression matches, once for each time
\* the timer was armed, and never after its schedule was cancelled.  The hypothesis is
\* the one case in which the code fires early: an expression with more minutes between
\* two occurrences than a Node timer can wait.
THEOREM FiresOnlyAtTicks == ASSUME OccurrencesFit PROVE MCSpec => FiresAtTicks
  <1>1. ASSUME CronInv, Cron!Next, NEW e \in Cron!Entries, firing' = e, firing = Cron!None
        PROVE  /\ \E t \in cron[e] : timer[e].from < t /\ t <= now
               /\ name[e] \notin cancelled \/ name[e] \in reentered
    <2>1. Cron!FireHandler(e) /\ active[e]
      <3>1. e # Cron!None
        BY <1>1, CronFacts
      <3>2. PICK k \in Cron!Entries : Cron!FireHandler(k)
        BY <1>1, <3>1 DEF Cron!Next, Cron!ScheduleCancel, Cron!ScheduleCron, Cron!HandlerDone,
                          Cron!Tick, Cron!StartScheduler, Cron!StopScheduler
      <3> QED
        BY <1>1, <3>1, <3>2 DEF Cron!FireHandler
    <2>2. Armed(e) /\ timer[e].due <= now
      BY <2>1 DEF Cron!FireHandler, Armed, NoTimer
    <2>3. \E t \in cron[e] : timer[e].from < t /\ t <= now
      <3>1. PICK t \in cron[e] : timer[e].from < t /\ t <= timer[e].due
        BY <1>1, <2>2 DEF CronInv, TimersFit
      <3>2. t \in Nat /\ timer[e].due \in Int /\ now \in Nat
        BY <1>1, CronFacts, CronsAssumption DEF Timers
      <3> QED
        BY <2>2, <3>1, <3>2
    <2>4. name[e] \notin cancelled \/ name[e] \in reentered
      <3> SUFFICES ASSUME ~Excused(e), name[e] \in cancelled PROVE FALSE
        BY DEF Excused
      <3>1. PICK n \in Names : schedules[n] = e
        BY <1>1, <2>2 DEF CronInv, Cron!OneTimerPerName, Cron!Registered, Armed, NoTimer,
                          Excused
      <3>2. name[e] = n /\ e # None
        BY <1>1, <3>1, CronFacts DEF CronInv, NamesOwn
      <3> QED
        BY <1>1, <2>1, <3>1, <3>2 DEF CronInv, CancelledRests, Excused
    <2> QED
      BY <2>3, <2>4
  <1>2. CronInv /\ [MCNext]_allVars =>
            [\A e \in Cron!Entries :
                 firing' = e /\ firing = Cron!None =>
                     /\ \E t \in cron[e] : timer[e].from < t /\ t <= now
                     /\ name[e] \notin cancelled \/ name[e] \in reentered]_(Cron!vars)
    BY <1>1 DEF MCNext, JobsOnly, CronOnly, allVars, cronVars, Cron!vars
  <1> QED
    BY <1>2, CronInvariant, PTL DEF MCSpec, FiresAtTicks, Cron!FiresAtTicks

=============================================================================
