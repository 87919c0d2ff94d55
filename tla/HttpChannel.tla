---------------------------- MODULE HttpChannel ----------------------------
(***************************************************************************)
(* Outgoing HTTP: a handler's thread blocks in bridge/http-client.ts while *)
(* bridge/http-worker.ts makes the request on its own thread, with one     *)
(* shared buffer between them for the request and for the response.  A     *)
(* wait that times out leaves the request under way; nothing in the buffer *)
(* says which call it belongs to.  The worker stores the flag and notifies *)
(* in two steps: a caller that finds the flag set goes on at once, and the *)
(* notify that is left wakes it in its next wait.  Web sites are external: *)
(* each hop ends in an answer, a redirect or an error, and may set a       *)
(* cookie.                                                                 *)
(***************************************************************************)
EXTENDS Naturals, Sequences, FiniteSets

CONSTANTS
    MaxCalls,      \* requests sent to the worker
    Redirects,     \* the default of maxRedirects
    MaxTimeouts

VARIABLES
    enabled, jar,  \* cookiesEnabled, cookieJar (a cookie is named by its call)
    since,         \* the first call since the jar was last emptied or turned on
    maxRedirects,
    lastResponse,  \* the call whose response is kept (0 = none, an error or no response)
    caller,        \* where the calling thread stands; "trapped" ends its request
    last,          \* the number of the current or last call
    flag,          \* ctrl[0]
    buffer,        \* what the data buffer holds
    length,        \* ctrl[1], as the message it is the length of
    queue,         \* messages posted to the worker, one per call
    exec,          \* executeRequest() for each message
    writing,       \* the execution whose response is being written (0 = none)
    writes,        \* what it has still to write
    result,        \* what each call returned
    timeouts,
    raced,         \* history: a call was made while an earlier one still executed
    hurried        \* history: the calls begun between the last response and its notify

client == <<enabled, jar, since, maxRedirects, lastResponse>>
channel == <<flag, buffer, length, queue>>
worker == <<exec, writing, writes>>
vars == <<client, caller, last, channel, worker, result, timeouts, raced, hurried>>

Calls == 1 .. MaxCalls
Empty == [kind |-> "request", of |-> 0]
Unread == [state |-> "none", of |-> 0, hops |-> 0, left |-> 0, cookie |-> FALSE,
           ok |-> FALSE]

Init ==
    /\ enabled = FALSE /\ jar = {} /\ since = 1 /\ maxRedirects = Redirects
    /\ lastResponse = 0
    /\ caller = "idle" /\ last = 0 /\ flag = "IDLE" /\ buffer = Empty
    /\ length = Empty /\ queue = <<>>
    /\ exec = [c \in Calls |-> Unread] /\ writing = 0 /\ writes = <<>>
    /\ result = [c \in Calls |-> "none"] /\ timeouts = 0 /\ raced = FALSE
    /\ hurried = {}

-----------------------------------------------------------------------------
\* The settings of the client; resetRequestState() of the request worker makes a
\* new client for each request, while this thread and its buffer stay.
http_enable_cookies(on) ==
    /\ caller = "idle" /\ last < MaxCalls /\ enabled' = on
    /\ jar' = IF on THEN jar ELSE {}
    /\ since' = IF on /\ enabled THEN since ELSE last + 1
    /\ UNCHANGED <<maxRedirects, lastResponse, caller, last, channel, worker, result,
                   timeouts, raced, hurried>>

http_set_max_redirects(n) ==
    /\ caller = "idle" /\ last < MaxCalls /\ maxRedirects' = n
    /\ UNCHANGED <<enabled, jar, since, lastResponse, caller, last, channel, worker,
                   result, timeouts, raced, hurried>>

NextRequest ==
    /\ caller \in {"idle", "trapped"} /\ last < MaxCalls /\ caller' = "idle"
    /\ enabled' = FALSE /\ jar' = {} /\ since' = last + 1 /\ maxRedirects' = Redirects
    /\ lastResponse' = 0
    /\ UNCHANGED <<last, channel, worker, result, timeouts, raced, hurried>>

-----------------------------------------------------------------------------
\* sendAndWait: the request is put in the buffer...
Executing(c) ==
    \/ exec[c].state \in {"queued", "running", "answered"}
    \/ writing = c /\ writes # <<"notify">>

buildWorkerRequest ==
    /\ caller = "idle" /\ last < MaxCalls
    /\ last' = last + 1 /\ caller' = "written"
    /\ buffer' = [kind |-> "request", of |-> last + 1]
    /\ raced' = (raced \/ \E c \in Calls : Executing(c))
    /\ hurried' = IF writes = <<"notify">> THEN hurried \cup {last + 1} ELSE hurried
    /\ exec' = [exec EXCEPT ![last + 1].left = maxRedirects]
    /\ UNCHANGED <<client, flag, length, queue, writing, writes, result, timeouts>>

\* GET to OPTIONS, with or without a body, and the same with headers of the program.
http_get == buildWorkerRequest
http_get_with_headers == buildWorkerRequest

\* ... then its length and the flag, and the worker is told.
SetPending ==
    /\ caller = "written" /\ caller' = "waiting"
    /\ length' = buffer /\ flag' = "PENDING" /\ queue' = Append(queue, last)
    /\ exec' = [exec EXCEPT ![last].state = "queued"]
    /\ UNCHANGED <<client, last, buffer, writing, writes, result, timeouts, raced, hurried>>

\* Atomics.wait compares and blocks; it returns 'not-equal' at once.
Blocks ==
    /\ caller = "waiting"
    /\ caller' = IF flag = "PENDING" THEN "blocked" ELSE "woken"
    /\ UNCHANGED <<client, last, channel, worker, result, timeouts, raced, hurried>>

\* The jar takes the cookies of a response if cookies are on.
applyCookieUpdates(cookies) == IF enabled THEN jar \cup cookies ELSE jar

\* The caller's own request, taken for a response, has no updatedCookies: with
\* cookies on, Object.entries throws and the program traps.
Return(what, cookies) ==
    /\ caller' = IF what = "echo" /\ enabled THEN "trapped" ELSE "idle"
    /\ flag' = "IDLE"
    /\ result' = [result EXCEPT ![last] = what]
    /\ jar' = applyCookieUpdates(cookies)
    /\ lastResponse' = IF what \in {"own", "other"} THEN buffer.of ELSE 0
    /\ UNCHANGED <<enabled, since, maxRedirects, last, buffer, length, queue, worker, raced,
                   hurried>>

\* The caller decodes what is in the buffer, whatever the flag holds by now; what
\* does not parse counts as an error.
Receive ==
    /\ caller = "woken"
    /\ \E whole \in {TRUE, buffer = length} :
          LET c == buffer.of
              own == IF c = last THEN "own" ELSE "other"
          IN  IF whole /\ buffer.kind = "request" THEN Return("echo", {})
              ELSE IF whole /\ c # 0 /\ exec[c].ok
              THEN Return(own, IF exec[c].cookie THEN {c} ELSE {})
              ELSE Return("error", {})
    /\ UNCHANGED timeouts

\* What the program asks about the response it got last.
http_get_response_code == lastResponse # 0
http_get_response_body == lastResponse

TimesOut ==
    /\ caller = "blocked" /\ timeouts < MaxTimeouts
    /\ timeouts' = timeouts + 1
    /\ Return("error", {})

-----------------------------------------------------------------------------
\* The message handler reads the buffer; if that does not parse or is no longer a
\* request the handler fails at once and answers with the error.
ReadRequest ==
    /\ queue # <<>> /\ writing = 0 /\ queue' = Tail(queue)
    /\ \E whole \in {TRUE, buffer = length} :
          LET c == Head(queue)
              ok == whole /\ buffer.kind = "request"
          IN  exec' = [exec EXCEPT ![c].state = IF ok THEN "running" ELSE "answered",
                                   ![c].of = IF ok THEN buffer.of ELSE 0]
    /\ UNCHANGED <<client, caller, last, flag, buffer, length, writing, writes, result,
                   timeouts, raced, hurried>>

\* One hop that answers with a redirect; the cookies of all hops add up.
followRedirect(e, set) == [e EXCEPT !.left = @ - 1, !.hops = @ + 1, !.cookie = @ \/ set]

Redirected(c) ==
    /\ exec[c].state = "running" /\ exec[c].left > 0 /\ exec[c].hops <= Redirects
    /\ \E set \in BOOLEAN :
          exec' = [exec EXCEPT ![c] = followRedirect(exec[c], set /\ exec[c].of = c)]
    /\ UNCHANGED <<client, caller, last, channel, writing, writes, result, timeouts, raced,
                   hurried>>

\* The last hop: an answer (a redirect that may not be followed included), or a
\* timeout or an error, which loses the cookies of the hops before it.
executeRequest(c) ==
    /\ exec[c].state = "running"
    /\ \E ok, set \in BOOLEAN :
          exec' = [exec EXCEPT ![c].state = "answered", ![c].ok = ok,
                      ![c].cookie = ok /\ (@ \/ set) /\ exec[c].of = c,
                      ![c].hops = @ + 1]
    /\ UNCHANGED <<client, caller, last, channel, writing, writes, result, timeouts, raced,
                   hurried>>

\* seeded fault: the flag is set before the response is in the buffer
FlagFirst == <<"flag", "data", "length", "notify">>
\* writeResponse: first the data and its length, then the flag, then the wake-up.  A
\* response that does not fit is replaced by an error.
writeOrder == <<"data", "length", "flag", "notify">>

writeResponse(c) ==
    /\ exec[c].state = "answered" /\ writing = 0
    /\ \E fits \in BOOLEAN :
          exec' = [exec EXCEPT ![c].state = "done", ![c].ok = @ /\ fits]
    /\ writing' = c /\ writes' = writeOrder
    /\ UNCHANGED <<client, caller, last, channel, result, timeouts, raced, hurried>>

\* Atomics.notify(ctrl, 0, 1) wakes the caller if it is blocked, be it in its next call.
Write ==
    LET response == [kind |-> "response", of |-> writing]
        step == Head(writes)
    IN  /\ writing # 0
        /\ buffer' = IF step = "data" THEN response ELSE buffer
        /\ length' = IF step = "length" THEN response ELSE length
        /\ flag' = IF step = "flag" THEN "DONE" ELSE flag
        /\ caller' = IF step = "notify" /\ caller = "blocked" THEN "woken" ELSE caller
        /\ writes' = Tail(writes)
        /\ writing' = IF Len(writes) = 1 THEN 0 ELSE writing
        /\ UNCHANGED <<client, last, queue, exec, result, timeouts, raced, hurried>>

-----------------------------------------------------------------------------
\* A call that has begun, and the worker's part.
Calling == SetPending \/ Blocks \/ Receive
Worker == ReadRequest \/ Write \/ \E c \in Calls : executeRequest(c) \/ writeResponse(c)

Next ==
    \/ \E on \in BOOLEAN : http_enable_cookies(on)
    \/ \E n \in 0 .. Redirects : http_set_max_redirects(n)
    \/ NextRequest \/ http_get \/ http_get_with_headers \/ Calling \/ TimesOut
    \/ Worker \/ \E c \in Calls : Redirected(c)

\* The threads run, and every hop ends: the socket has a timeout of its own.
Fairness == WF_vars(Calling) /\ WF_vars(Worker)

Spec == Init /\ [][Next]_vars /\ Fairness

-----------------------------------------------------------------------------
TypeOK ==
    /\ enabled \in BOOLEAN /\ jar \subseteq Calls /\ maxRedirects \in 0 .. Redirects
    /\ caller \in {"idle", "written", "waiting", "blocked", "woken", "trapped"}
    /\ last \in 0 .. MaxCalls /\ flag \in {"IDLE", "PENDING", "DONE"}
    /\ buffer.kind \in {"request", "response"} /\ length.kind \in {"request", "response"}
    /\ queue \in Seq(Calls) /\ writing \in 0 .. MaxCalls
    /\ result \in [Calls -> {"none", "own", "other", "echo", "error"}]
    /\ hurried \subseteq Calls

\* A call returns the response to its own request or an error.  Only a call that began
\* before the last response was notified can take its own request for a response.
OwnResponse == \A c \in Calls : result[c] # "other" /\ (result[c] = "echo" => c \in hurried)

\* The jar is what the responses of this request's calls have set while cookies
\* were on, redirects included.
JarExact ==
    jar = IF enabled THEN {c \in since .. last : result[c] = "own" /\ exec[c].cookie}
                     ELSE {}

\* A response the program can still ask about is that of its last call.
LastResponseOwn ==
    http_get_response_code =>
        http_get_response_body = (IF caller = "idle" THEN last ELSE last - 1)

\* As long as no call was made while an abandoned one was still under way (see
\* raced), responses and cookies are exact, and a whole response is never mistaken
\* for an error unless the call was woken by the notify of the one before.
HttpExact ==
    /\ ~raced => OwnResponse /\ JarExact /\ LastResponseOwn
    /\ ~raced => \A c \in Calls \ hurried :
          (result[c] = "error" /\ timeouts = 0) => ~exec[c].ok
    /\ \A c \in Calls : exec[c].hops <= Redirects + 1

\* The blocked thread comes back.
CallsReturn == caller \in {"waiting", "blocked", "woken"} ~> caller \in {"idle", "trapped"}
=============================================================================
