--------------------------- MODULE DatabaseBridge ---------------------------
(***************************************************************************)
(* What the database functions of the bridge, bridge/database.ts, keep     *)
(* between calls: the id of the last INSERT of a request, the results of   *)
(* asynchronous calls, which are there when the handler has returned, and  *)
(* the pages a client asks for one request at a time while other workers   *)
(* change the table.  One worker thread; the table, its other writers and  *)
(* the drivers are external.                                               *)
(***************************************************************************)
EXTENDS Naturals, Sequences, SequencesExt, FiniteSets, Enumerations

CONSTANTS
    MaxKey,       \* values of the field that orders the pages, each in one row
    PerPages,     \* per_page arguments
    MaxPerPage,   \* 1000
    MaxRequests,
    MaxCalls,     \* statements of one request
    MaxInserts,   \* rows this worker inserts
    MaxChanges    \* changes by others

VARIABLES
    reports,      \* the driver reports the ids of inserted rows
    running, request, calls,
    rowid,        \* the last id the connection has given to a row
    lastInsertId, \* state.lastInsertId (0 = null)
    inserted,     \* the id of the last INSERT this request has made with _db_execute
    cache,        \* asyncCache: the number of the call each result is of
    pending,      \* asynchronous calls not yet settled, and the next of their numbers
    issued,
    told,         \* what LAST_INSERT_ID() and the result functions last returned
    table,        \* the values of the field that are in the table
    changes,
    cursor,       \* a walk by _db_cursor_page
    pages         \* a walk by _db_paginate

answers == <<lastInsertId, inserted, cache, pending, issued, told>>
walks == <<cursor, pages>>
vars == <<reports, running, request, calls, rowid, answers, table, changes, walks>>

KeySet == 1 .. MaxKey
Untold == [last |-> 0, own |-> 0, query |-> 0]
NoCursor == [open |-> FALSE, per |-> 0, after |-> 0, seen |-> <<>>, more |-> TRUE,
             stable |-> {}, ever |-> {}]
NoPages == [open |-> FALSE, per |-> 0, page |-> 1, items |-> <<>>, seen |-> <<>>,
            total |-> 0, counting |-> FALSE, changed |-> FALSE, start |-> {}]

Init ==
    /\ reports \in BOOLEAN /\ running = FALSE /\ request = 0 /\ calls = 0 /\ rowid = 0
    /\ lastInsertId = 0 /\ inserted = 0
    /\ cache = [query |-> 0, execute |-> 0] /\ pending = <<>> /\ issued = 0 /\ told = Untold
    /\ table \in SUBSET KeySet /\ changes = 0
    /\ cursor = NoCursor /\ pages = NoPages

-----------------------------------------------------------------------------
\* setRequestContext forgets the id.
setRequestContext == lastInsertId' = 0

Begin ==
    /\ ~running /\ pending = <<>> /\ request < MaxRequests
    /\ running' = TRUE /\ request' = request + 1 /\ calls' = 0
    /\ setRequestContext /\ inserted' = 0
    /\ UNCHANGED <<reports, rowid, cache, pending, issued, told, table, changes, walks>>

End ==
    /\ running /\ ~pages.counting /\ running' = FALSE
    /\ UNCHANGED <<reports, request, calls, rowid, answers, table, changes, walks>>

Call == running /\ ~pages.counting /\ calls < MaxCalls /\ calls' = calls + 1

\* A statement that is no INSERT reports the id of an earlier one, and one that
\* fails or a driver that does not know ids reports none.
Kinds == {"insert", "update", "failure"}
isInsert(kind) == kind = "insert"
Reported(kind, id) == IF reports /\ kind # "failure" THEN id ELSE 0
RowidAfter(kind) == IF kind = "insert" THEN rowid + 1 ELSE rowid
MayInsert(kind) == kind = "insert" => rowid < MaxInserts

Remember(kind, id) ==
    IF Reported(kind, id) # 0 /\ isInsert(kind) THEN Reported(kind, id) ELSE lastInsertId

_db_execute(kind) ==
    /\ Call /\ MayInsert(kind) /\ rowid' = RowidAfter(kind)
    /\ lastInsertId' = Remember(kind, rowid')
    /\ inserted' = IF kind = "insert" /\ reports THEN rowid' ELSE inserted
    /\ UNCHANGED <<reports, running, request, cache, pending, issued, told, table,
                   changes, walks>>

\* The driver executes the statement at once, its result comes with the promise.
_db_execute_async(kind) ==
    /\ Call /\ MayInsert(kind) /\ rowid' = RowidAfter(kind)
    /\ issued' = issued + 1
    /\ pending' = Append(pending, [op |-> "execute", kind |-> kind, id |-> rowid', no |-> issued'])
    /\ UNCHANGED <<reports, running, request, lastInsertId, inserted, cache, told, table,
                   changes, walks>>

_db_query_async ==
    /\ Call /\ issued' = issued + 1
    /\ pending' = Append(pending, [op |-> "query", kind |-> "update", id |-> 0, no |-> issued'])
    /\ UNCHANGED <<reports, running, request, rowid, lastInsertId, inserted, cache, told,
                   table, changes, walks>>

\* The promises settle in the order of the calls, when the handler has returned.
Settle ==
    /\ ~running /\ pending # <<>> /\ pending' = Tail(pending)
    /\ LET p == Head(pending)
       IN  /\ cache' = [cache EXCEPT ![p.op] = p.no]
           /\ lastInsertId' = IF p.op = "execute" THEN Remember(p.kind, p.id) ELSE lastInsertId
    /\ UNCHANGED <<reports, running, request, calls, rowid, inserted, issued, told, table,
                   changes, walks>>

\* SELECT LAST_INSERT_ID() does not reach the driver.
lastInsertIdResponse ==
    /\ Call /\ told' = [told EXCEPT !.last = lastInsertId, !.own = inserted]
    /\ UNCHANGED <<reports, running, request, rowid, lastInsertId, inserted, cache, pending,
                   issued, table, changes, walks>>

_db_query_result ==
    /\ Call /\ told' = [told EXCEPT !.query = cache.query]
    /\ UNCHANGED <<reports, running, request, rowid, lastInsertId, inserted, cache, pending,
                   issued, table, changes, walks>>

-----------------------------------------------------------------------------
\* Another worker inserts or deletes a row, also between two statements of one
\* call.
Change(k) ==
    /\ changes < MaxChanges /\ changes' = changes + 1
    /\ table' = IF k \in table THEN table \ {k} ELSE table \cup {k}
    /\ cursor' = [cursor EXCEPT !.stable = @ \ {k}, !.ever = @ \cup {k}]
    /\ pages' = [pages EXCEPT !.changed = TRUE]
    /\ UNCHANGED <<reports, running, request, calls, rowid, answers>>

Smaller(a, b) == IF a < b THEN a ELSE b
safePerPage(n) == IF n < 1 THEN 1 ELSE Smaller(n, MaxPerPage)
Rows(after) == Ascending({k \in table : k > after})
Upto(s, n) == SubSeq(s, 1, Smaller(n, Len(s)))

\* seeded fault: one row too few is asked for, so that there are never more
ExactFetch(after, per) == Upto(Rows(after), per)
\* One row more than the page holds shows whether there are more.
cursorFetch(after, per) == Upto(Rows(after), per + 1)

\* One page of a walk; the client passes next_cursor on, and is done when
\* has_more is false.
_db_cursor_page(per) ==
    /\ Call /\ cursor.more
    /\ LET first == ~cursor.open
           rows == cursorFetch(cursor.after, safePerPage(per))
           hasMore == Len(rows) > safePerPage(per)
           items == IF hasMore THEN Upto(rows, safePerPage(per)) ELSE rows
       IN  cursor' = [cursor EXCEPT
               !.open = TRUE, !.seen = @ \o items, !.more = hasMore,
               !.after = IF hasMore THEN Last(items) ELSE 0,
               !.stable = IF first THEN table ELSE @,
               !.ever = IF first THEN table ELSE @]
    /\ UNCHANGED <<reports, running, request, rowid, answers, table, changes, pages>>

\* LIMIT and OFFSET of an ordered query.
offset(page, per) == (page - 1) * per
pageItems(page, per) ==
    LET rows == Rows(0) IN SubSeq(rows, offset(page, per) + 1,
                                  Smaller(offset(page, per) + per, Len(rows)))
totalPages(total, per) == (total + per - 1) \div per

_db_paginate(per) ==
    /\ Call /\ (pages.open => per = pages.per /\ pages.page <= pages.total)
    /\ pages' = [pages EXCEPT
           !.open = TRUE, !.per = per, !.counting = TRUE,
           !.items = pageItems(pages.page, safePerPage(per)),
           !.changed = IF pages.open THEN @ ELSE FALSE,
           !.start = IF pages.open THEN @ ELSE table]
    /\ UNCHANGED <<reports, running, request, rowid, answers, table, changes, cursor>>

\* The second statement of the call counts the rows.
extractCount ==
    /\ pages.counting
    /\ pages' = [pages EXCEPT !.counting = FALSE, !.page = @ + 1, !.seen = @ \o pages.items,
           !.total = totalPages(Cardinality(table), safePerPage(pages.per))]
    /\ UNCHANGED <<reports, running, request, calls, rowid, answers, table, changes, cursor>>

Next ==
    \/ Begin \/ End \/ Settle \/ _db_query_async \/ lastInsertIdResponse \/ _db_query_result
    \/ extractCount
    \/ \E kind \in Kinds : _db_execute(kind) \/ _db_execute_async(kind)
    \/ \E k \in KeySet : Change(k)
    \/ \E per \in PerPages : _db_cursor_page(per) \/ _db_paginate(per)

Spec == Init /\ [][Next]_vars

-----------------------------------------------------------------------------
TypeOK ==
    /\ reports \in BOOLEAN /\ running \in BOOLEAN /\ request \in 0 .. MaxRequests
    /\ calls \in 0 .. MaxCalls /\ rowid \in 0 .. MaxInserts
    /\ lastInsertId \in 0 .. MaxInserts /\ inserted \in 0 .. MaxInserts
    /\ table \subseteq KeySet /\ cursor.stable \subseteq KeySet
    /\ cursor.seen \in Seq(KeySet) /\ pages.seen \in Seq(KeySet)

\* LAST_INSERT_ID() answers with the id of the last INSERT the same request has
\* made and waited for, and with 0 when there is none, whatever statements came
\* between, and whatever an earlier request on this thread has left behind.
LastInsertIdOwn == told.last = told.own

\* Results are never replaced by those of earlier calls.
LatestResults ==
    \A i \in 1 .. Len(pending) :
        pending[i].no > cache[pending[i].op] /\ pending[i].no <= issued

\* A walk by cursor meets no row twice, and when it ends it has met every row
\* that was in the table from its start on, however the table has changed.
CursorCovers ==
    LET met == ToSet(cursor.seen)
    IN  /\ \A i \in 1 .. Len(cursor.seen) - 1 : cursor.seen[i] < cursor.seen[i + 1]
        /\ cursor.open => met \subseteq cursor.ever
        /\ (cursor.open /\ ~cursor.more) => cursor.stable \subseteq met

\* Page by page, an ordered table that does not change is read once and wholly.
PagesCover ==
    (pages.open /\ ~pages.changed /\ ~pages.counting) =>
        LET all == Ascending(pages.start)
        IN  /\ pages.seen = Upto(all, (pages.page - 1) * safePerPage(pages.per))
            /\ pages.page > pages.total => pages.seen = all

BridgeAnswersExact == LastInsertIdOwn /\ LatestResults /\ CursorCovers /\ PagesCover
=============================================================================
