--------------------------- MODULE RequestWorker ---------------------------
(***************************************************************************)
(* One thread of the pool, workers/request-worker.ts, and the linear       *)
(* memory of the WASM instance it runs: what the bridge functions allocate *)
(* while a handler runs (wasm/memory.ts, bridge/string.ts, helpers.ts),    *)
(* the reference counts of bridge/memory-runtime.ts, the per-request state *)
(* (wasm/state.ts), and what is undone, counted and reported when the      *)
(* handler returns or throws.                                              *)
(*                                                                         *)
(* Addresses and sizes are in words of four bytes, so __heap_ptr is        *)
(* aligned to two.  The compiled program is external: its malloc hands out *)
(* the address in __heap_ptr and, called from the bridge, may or may not   *)
(* advance it (wasm/memory.ts:5-24).                                       *)
(***************************************************************************)
EXTENDS Naturals, Sequences, FiniteSets, SequencesExt

CONSTANTS
    Sizes,        \* words a program asks for at once
    MaxBlocks,    \* allocations of one request
    HeapStart,    \* __heap_ptr of a fresh instance
    InitialSize,  \* its memory
    PreGrown,     \* preGrowMemoryBytes
    MaxSize,      \* the maximum the module declares
    Limits,       \* values of memoryLimitBytes (0 = undefined)
    MaxCount,     \* MAX_REQUEST_COUNT
    MaxGrowth,    \* MAX_HEAP_GROWTH_BYTES
    LogSize       \* REQUEST_LOG_MAX

VARIABLES
    phase,    \* "starting", "idle", "running", "rotating" or "fatal"
    scoped,   \* the module exports scope_push and scope_pop
    limit,    \* memoryLimitBytes
    heap, buffer,  \* __heap_ptr and memory.buffer.byteLength
    base,     \* both as they were when the worker became ready
    snapshot, \* requestScopeSnapshot
    blocks,   \* what the running request has allocated, in order
    scopes,   \* scopeStack: the addresses of each open scope
    refs,     \* refCounts (0 = no entry)
    held,     \* the references that are the program's own to release
    freed,    \* addresses handed to free()
    fields,   \* which request last wrote each part of the WASM state (0 = reset)
    count,    \* requestCount; also names the request that runs
    trapped,  \* scope_pop has failed once
    answer,   \* the message posted to the pool, until the next request
    log       \* the ring buffer of requests (development mode)

memory == <<heap, buffer, blocks>>
counting == <<scopes, refs, held, freed>>
settings == <<scoped, limit, base, snapshot>>
vars == <<phase, memory, counting, settings, fields, count, trapped, answer, log>>

Addresses == HeapStart .. MaxSize
Response == {"status", "headers", "body"}
Fields == Response \cup {"context", "httpClient"}
Nothing == [a \in Addresses |-> 0]
Larger(a, b) == IF a > b THEN a ELSE b
Aligned(a) == a + (a % 2)
current == count + 1

createDefaultResponse == [f \in Response |-> 0]
NoAnswer == [id |-> 0, ok |-> FALSE, response |-> createDefaultResponse,
             needsRestart |-> FALSE]

Init ==
    /\ phase = "starting" /\ scoped \in BOOLEAN /\ limit \in Limits
    /\ heap = HeapStart /\ buffer = InitialSize
    /\ base = [heap |-> HeapStart, buffer |-> InitialSize] /\ snapshot = 0
    /\ blocks = <<>> /\ scopes = <<>>
    /\ refs = Nothing /\ held = Nothing /\ freed = {}
    /\ fields = [f \in Fields |-> 0]
    /\ count = 0 /\ trapped = FALSE /\ answer = NoAnswer /\ log = <<>>

\* initialize(): the memory is grown in advance, unless the module's maximum is
\* lower, start() leaves what it allocated, and the thread says it is ready.
preGrowMemory(size) ==
    IF size >= PreGrown \/ PreGrown > MaxSize THEN size ELSE PreGrown

initialize ==
    /\ phase = "starting"
    /\ \E kept \in {0} \cup Sizes :
          LET h == HeapStart + Aligned(kept)
              b == Larger(preGrowMemory(InitialSize), h)
          IN  /\ h <= MaxSize
              /\ heap' = h /\ buffer' = b
              /\ base' = [heap |-> h, buffer |-> b]
    /\ phase' = "idle"
    /\ UNCHANGED <<blocks, counting, scoped, limit, snapshot, fields, count,
                   trapped, answer, log>>

\* start() or the loader throws: the thread reports it and exits.
InitFails ==
    /\ phase = "starting" /\ phase' = "fatal"
    /\ UNCHANGED <<memory, counting, settings, fields, count, trapped, answer, log>>

-----------------------------------------------------------------------------
\* A request arrives: the scope is opened, then the state of the request before
\* is replaced.  (For lastInsertId see DatabaseBridge, for the locale LocaleTexts.)
setRequestContext(fs) ==
    [f \in Fields |-> IF f \in Response THEN createDefaultResponse[f]
                     ELSE IF f = "context" THEN current ELSE fs[f]]
resetRequestState(fs) == [fs EXCEPT !["httpClient"] = 0]

ScopeEnter == snapshot' = IF scoped THEN heap ELSE 0

Begin ==
    /\ phase = "idle" /\ phase' = "running"
    /\ ScopeEnter
    /\ fields' = resetRequestState(setRequestContext(fields)) /\ answer' = NoAnswer
    /\ UNCHANGED <<memory, counting, scoped, limit, base, count, trapped, log>>

\* A bridge function of this request writes parts of the state.
Written(parts) == [f \in Fields |-> IF f \in parts THEN current ELSE fields[f]]

Writes(parts) ==
    /\ phase = "running" /\ fields' = Written(parts)
    /\ UNCHANGED <<phase, memory, counting, settings, count, trapped, answer, log>>

\* The settings of the HTTP client: timeout, user agent, redirects and cookies.
http_set == Writes({"httpClient"})

_http_set_status == Writes({"status"})
_http_set_header == Writes({"headers"})
_http_set_body == Writes({"body"})
\* JSON, HTML or text: the content type and the body, and not the status.
_http_json == Writes({"headers", "body"})
\* The redirects and the answers of one status each write all three parts.
_http_redirect == Writes(Response)
_http_not_found == Writes(Response)
\* Caching and the name of a download are headers.
_http_set_cache == Writes({"headers"})

-----------------------------------------------------------------------------
\* The end of a request, however it ends; now is the memory it leaves.
resetMemoryRuntime == scopes' = <<>> /\ refs' = Nothing

\* seeded fault: rotation looks at the heap only, which scope_pop has rewound
RotateByHeap(h, b) == IF h > base.heap THEN h - base.heap ELSE 0
computeRetainedGrowth(h, b) ==
    LET grown(now, before) == IF now > before THEN now - before ELSE 0
    IN  Larger(grown(h, base.heap), grown(b, base.buffer))

shouldRotate(n, growth) == n >= MaxCount \/ growth > MaxGrowth

recordRequest(id, status) ==
    LET full == Len(log) = LogSize
    IN  Append(IF full THEN Tail(log) ELSE log, [id |-> id, status |-> status])

\* Both ends of the message handler: the scope is popped (a trap is swallowed),
\* the bridge state reset, the request counted and the answer posted.
Finish(ok, h, b) ==
    \E popped \in IF scoped THEN BOOLEAN ELSE {FALSE} :
      LET end == IF popped THEN snapshot ELSE h
          restart == shouldRotate(current, computeRetainedGrowth(end, b))
      IN  /\ heap' = end /\ buffer' = b
          /\ resetMemoryRuntime
          /\ count' = current /\ trapped' = (trapped \/ (scoped /\ ~popped))
          /\ answer' = [id |-> current, ok |-> ok, needsRestart |-> restart,
                        response |-> IF ok THEN [f \in Response |-> fields'[f]]
                                     ELSE createDefaultResponse]
          /\ phase' = IF restart THEN "rotating" ELSE "idle"
          /\ log' = recordRequest(current, IF ok THEN "own" ELSE "500")
          /\ blocks' = <<>> /\ held' = Nothing /\ freed' = {}
          /\ UNCHANGED settings

\* The handler returns, or it does not exist, traps, or a bridge function threw.
Return == phase = "running" /\ UNCHANGED fields /\ Finish(TRUE, heap, buffer)
Throw == phase = "running" /\ UNCHANGED fields /\ Finish(FALSE, heap, buffer)

-----------------------------------------------------------------------------
\* The program's own malloc, as the bridge reaches it through wrapMalloc: it
\* refuses beyond memoryLimitBytes or the module's maximum.  h says whether
\* __heap_ptr was advanced.
Refused(size) == limit # 0 /\ buffer + size > limit
Fails(size) == Refused(size) \/ heap + size > MaxSize
Grown(size) == Larger(buffer, heap + size)
wrapMalloc(size) == {heap, Aligned(heap + size)}

\* seeded fault: the host trusts malloc to have advanced __heap_ptr
NoBump(h, ptr, size) == h
\* What the host does to __heap_ptr after each allocation of its own.
bumpHeapPtr(h, ptr, size) == Larger(h, Aligned(ptr + size))

Allocate(size) ==
    /\ phase = "running" /\ Len(blocks) < MaxBlocks /\ ~Fails(size)
    /\ blocks' = Append(blocks, [at |-> heap, size |-> size])
    /\ buffer' = Grown(size)
    /\ \E h \in wrapMalloc(size) : heap' = bumpHeapPtr(h, heap, size)

\* A bridge function that returns a value to the program allocates and writes
\* it, and throws when malloc returns 0.
WriteOrThrow(size) ==
    \/ /\ Allocate(size)
       /\ UNCHANGED <<phase, counting, settings, count, trapped, answer, log>>
    \/ /\ phase = "running" /\ Fails(size)
       /\ Finish(FALSE, heap, buffer)

\* Strings and byte arrays carry their length in a word of their own.
writeLengthPrefixedString(n) == WriteOrThrow(1 + n)
writeLengthPrefixedBytes(n) == UNCHANGED fields /\ WriteOrThrow(1 + n)
writeRawBytes(n) == n > 0 /\ UNCHANGED fields /\ WriteOrThrow(n)
\* The result is a fresh allocation even when one operand is empty.
concatLengthPrefixed(a, b) == a + b > 0 /\ UNCHANGED fields /\ WriteOrThrow(1 + a + b)

\* What the program reads of its request comes as strings, from the context.
_req_string(n) ==
    /\ phase = "running" /\ fields["context"] # 0 /\ UNCHANGED fields
    /\ writeLengthPrefixedString(n)

\* All three parts are written, then the body is returned as a string: when that
\* throws, the answer is an error and not the response.
_http_respond(n) ==
    /\ phase = "running" /\ fields' = Written(Response)
    /\ writeLengthPrefixedString(n)

\* Two allocations in one call: the string and the block that points to it.
\* The second throws with the first already made.
boxStringAsAny(n) ==
    /\ phase = "running" /\ Len(blocks) + 1 < MaxBlocks /\ UNCHANGED fields
    /\ LET first == 1 + n
           second == 3
           next == Aligned(heap + first)
       IN  IF Fails(first) THEN Finish(FALSE, heap, buffer)
           ELSE IF next + second > MaxSize
                   \/ (limit # 0 /\ Grown(first) + second > limit)
           THEN Finish(FALSE, next, Grown(first))
           ELSE /\ \E h \in {next, Aligned(next + second)} :
                      heap' = bumpHeapPtr(h, next, second)
                /\ buffer' = Larger(Grown(first), next + second)
                /\ blocks' = blocks \o <<[at |-> heap, size |-> first],
                                         [at |-> next, size |-> second]>>
                /\ UNCHANGED <<phase, counting, settings, count, trapped, answer, log>>

\* The compiled code allocates by itself, without the host.
GuestAlloc(size) ==
    /\ phase = "running" /\ Len(blocks) < MaxBlocks /\ heap + size <= MaxSize
    /\ blocks' = Append(blocks, [at |-> heap, size |-> size])
    /\ heap' = Aligned(heap + size) /\ buffer' = Grown(size)
    /\ UNCHANGED <<phase, counting, settings, fields, count, trapped, answer, log>>

-----------------------------------------------------------------------------
\* bridge/memory-runtime.ts.  The program gives back what it may: a reference it
\* took with mem_retain, or the one it got outside of every scope.
InScopes == UNION {{i} \X (1 .. Len(scopes[i])) : i \in 1 .. Len(scopes)}
Owned(a) == Cardinality({p \in InScopes : scopes[p[1]][p[2]] = a})

mem_alloc(size) ==
    /\ Allocate(size)
    /\ refs' = [refs EXCEPT ![heap] = 1]
    /\ IF scopes = <<>>
       THEN held' = [held EXCEPT ![heap] = 1] /\ UNCHANGED scopes
       ELSE /\ scopes' = [scopes EXCEPT ![Len(scopes)] = Append(@, heap)]
            /\ UNCHANGED held
    /\ UNCHANGED <<phase, freed, settings, fields, count, trapped, answer, log>>

mem_retain(a) ==
    /\ phase = "running" /\ refs[a] > 0 /\ held[a] = 0
    /\ refs' = [refs EXCEPT ![a] = @ + 1] /\ held' = [held EXCEPT ![a] = @ + 1]
    /\ UNCHANGED <<phase, memory, scopes, freed, settings, fields, count, trapped,
                   answer, log>>

mem_release(a) ==
    /\ phase = "running" /\ held[a] > 0
    /\ held' = [held EXCEPT ![a] = @ - 1]
    /\ refs' = [refs EXCEPT ![a] = IF @ <= 1 THEN 0 ELSE @ - 1]
    /\ freed' = IF refs[a] <= 1 THEN freed \cup {a} ELSE freed
    /\ UNCHANGED <<phase, memory, scopes, settings, fields, count, trapped, answer, log>>

mem_scope_push ==
    /\ phase = "running" /\ Len(scopes) < 2
    /\ scopes' = Append(scopes, <<>>)
    /\ UNCHANGED <<phase, memory, refs, held, freed, settings, fields, count, trapped,
                   answer, log>>

\* The references of the innermost scope are dropped; the heap is not rewound.
Drops(scope) == {a \in ToSet(scope) : refs[a] <= 1}

mem_scope_pop ==
    /\ phase = "running" /\ scopes # <<>>
    /\ LET scope == Last(scopes)
       IN  /\ freed' = freed \cup Drops(scope)
           /\ refs' = [a \in Addresses |->
                 IF a \notin ToSet(scope) THEN refs[a]
                 ELSE IF a \in Drops(scope) THEN 0 ELSE refs[a] - 1]
    /\ scopes' = Front(scopes)
    /\ UNCHANGED <<phase, memory, held, settings, fields, count, trapped, answer, log>>

-----------------------------------------------------------------------------
Next ==
    \/ initialize \/ InitFails \/ Begin \/ Return \/ Throw
    \/ mem_scope_push \/ mem_scope_pop
    \/ http_set \/ _http_set_status \/ _http_set_header \/ _http_set_body
    \/ _http_json \/ _http_redirect \/ _http_not_found \/ _http_set_cache
    \/ \E n \in Sizes \cup {0} :
          _req_string(n) \/ _http_respond(n) \/ writeLengthPrefixedBytes(n)
    \/ \E n \in Sizes : writeRawBytes(n) \/ GuestAlloc(n) \/ mem_alloc(n)
    \/ \E a, b \in Sizes \cup {0} : concatLengthPrefixed(a, b)
    \/ \E n \in Sizes : boxStringAsAny(n)
    \/ \E a \in Addresses : mem_retain(a) \/ mem_release(a)

Spec == Init /\ [][Next]_vars

-----------------------------------------------------------------------------
TypeOK ==
    /\ phase \in {"starting", "idle", "running", "rotating", "fatal"}
    /\ scoped \in BOOLEAN /\ limit \in Limits /\ trapped \in BOOLEAN
    /\ heap \in HeapStart .. MaxSize + 1 /\ buffer \in InitialSize .. MaxSize
    /\ refs \in [Addresses -> 0 .. 2] /\ held \in [Addresses -> 0 .. 1]
    /\ freed \subseteq Addresses
    /\ fields \in [Fields -> 0 .. MaxCount] /\ count \in 0 .. MaxCount
    /\ Len(log) <= LogSize

\* No two allocations of a request overlap and all are inside the memory: what a
\* bridge function returned is not overwritten by the next one.
BlocksIntact ==
    /\ \A i, j \in 1 .. Len(blocks) :
          i < j => blocks[i].at + blocks[i].size <= blocks[j].at
    /\ \A i \in 1 .. Len(blocks) : blocks[i].at + blocks[i].size <= buffer

\* The count of an address is the number of references there are to it, so it is
\* given to free() only when neither a scope nor the program has one left.
RefsAccounted ==
    /\ \A a \in Addresses : refs[a] = held[a] + Owned(a)
    /\ \A a \in freed : held[a] = 0 /\ Owned(a) = 0

MemoryIntact == BlocksIntact /\ RefsAccounted

\* A request sees no state another one wrote, and answers with its own.
OwnState ==
    /\ phase = "running" => \A f \in Fields : fields[f] \in {0, current}
    /\ \A f \in Response : answer.response[f] \in {0, answer.id}

\* Between requests nothing of the last one is kept: no count, no open scope, and
\* no heap unless scope_pop is missing or has trapped.
NothingKept ==
    phase \in {"idle", "rotating"} =>
        /\ scopes = <<>> /\ refs = Nothing
        /\ (scoped /\ ~trapped) => heap = base.heap

\* A worker goes on only while what it retains, memory that cannot shrink
\* included, is within the limits.
RotatesInTime ==
    phase = "idle" =>
        /\ count < MaxCount
        /\ heap - base.heap <= MaxGrowth /\ buffer - base.buffer <= MaxGrowth

\* The log holds the last requests, each once.
LogsEach ==
    \A i \in 1 .. Len(log) : log[i].id = count - Len(log) + i

CleanBetweenRequests == OwnState /\ NothingKept /\ RotatesInTime /\ LogsEach
=============================================================================
