--------------------------- MODULE Sessions_proofs ---------------------------
(***************************************************************************)
(* Theorems about what the calls of a program reach: the session channel,  *)
(* outgoing HTTP, the session store, the MCP transports and the handles of *)
(* MCSessions, for any number of calls, sessions, workers, messages and    *)
(* elements.                                                               *)
(***************************************************************************)
EXTENDS MCSessions, SequenceFacts

-----------------------------------------------------------------------------
(***************************************************************************)
(* The session channel, as long as no call has begun while an earlier      *)
(* operation was under way: the operation that is under way is that of the *)
(* current call.  A call that reads before its handler has finished began  *)
(* before the last response was notified.                                  *)
(***************************************************************************)
Sending == {"len", "state", "post"}
Returning == {"readLen", "readData", "release"}

\* Who is where: one operation is under way, and the handler that runs is its own.
OneUnderWay ==
    /\ \A h \in Calls : h # call => handler[h] \in {"none", "finished"}
    /\ \A h \in Calls : h > call => handler[h] = "none" /\ result[h] = NoResult
    /\ caller # "idle" => call \in Calls
    /\ caller \in Sending => handler[call] = "none"
    /\ caller \notin Sending /\ call \in Calls => handler[call] # "none"
    /\ caller \in Returning /\ call \notin hurried => handler[call] = "finished"
    /\ caller = "post" => state = PENDING
    /\ caller \in {"wait", "blocked"} => state = PENDING \/ handler[call] = "finished"
    /\ main = "readData" => handler[current] = "posted"
    /\ main \in {"len", "done"} => handler[current] = "running"
    /\ main = "notify" => handler[current] = "finished" /\ (current = call \/ call \in hurried)

\* What the buffer and the length hold.
BufferFollows ==
    /\ caller \in Sending => data = Request(call)
    /\ caller \in {"state", "post"} => len = Request(call)
    /\ main = "readData" => reqLen = Request(current)
    /\ caller \in {"readData", "release"} =>
          gotLen = Response(call) \/ (gotLen = Request(call) /\ call \in hurried)
    /\ \A h \in Calls :
          /\ handler[h] = "posted" => data = Request(h) /\ len = Request(h)
          /\ handler[h] = "running" =>
                /\ answer[h] = Response(h)
                /\ data = IF main \in {"len", "done"} THEN Response(h) ELSE Request(h)
                /\ len = IF main = "done" THEN Response(h) ELSE Request(h)
          /\ handler[h] = "finished" /\ h = call => data = Response(h) /\ len = Response(h)

\* What the store has done, and what the calls have returned.
ResultsFollow ==
    \A c \in Calls :
        /\ applied[c] = IF handler[c] \in {"running", "finished"} THEN 1 ELSE 0
        /\ \/ result[c] \in {NoResult, TimedOut, Response(c)}
           \/ result[c] \in {Request(c), Garbled} /\ c \in hurried
        /\ result[c] = Response(c) => handler[c] \in {"running", "finished"}

ChannelInv == TypeOK /\ OneUnderWay /\ BufferFollows /\ ResultsFollow

LEMMA MessageFacts ==
    /\ \A c \in Calls : /\ Request(c) \in Contents /\ Response(c) \in Contents
                        /\ Request(c) # Garbled /\ Request(c).kind = "request"
                        /\ Request(c).call = c
                        /\ Response(c) \notin {NoResult, TimedOut, Request(c), Garbled}
    /\ Garbled \in Contents /\ Refusal \in Contents
    /\ Calls = 1 .. MaxCalls /\ None \notin Calls /\ None = 0 /\ MaxCalls \in Nat
    /\ IDLE # PENDING /\ DONE # PENDING /\ IDLE # DONE
  <1>1. Calls = 1 .. MaxCalls /\ None \notin Calls /\ None = 0 /\ MaxCalls \in Nat
    BY MaxCallsAssumption DEF Calls, None
  <1>2. IDLE # PENDING /\ DONE # PENDING /\ IDLE # DONE
    BY DEF IDLE, PENDING, DONE
  <1>3. ASSUME NEW c \in Calls
        PROVE  /\ Request(c) \in Contents /\ Response(c) \in Contents
               /\ Request(c) # Garbled /\ Request(c).kind = "request"
               /\ Request(c).call = c
               /\ Response(c) \notin {NoResult, TimedOut, Request(c), Garbled}
    <2>1. Request(c) \in Contents /\ Response(c) \in Contents
      BY DEF Contents
    <2>2. Request(c).kind = "request" /\ Request(c).call = c /\ Response(c).kind = "response"
      BY DEF Request, Response
    <2>3. Garbled.kind = "garbled" /\ NoResult.kind = "none" /\ TimedOut.kind = "timeout"
      BY DEF Garbled, NoResult, TimedOut
    <2> QED
      BY <2>1, <2>2, <2>3
  <1>4. Garbled \in Contents /\ Refusal \in Contents
    BY DEF Contents
  <1> QED
    BY <1>1, <1>2, <1>3, <1>4

\* call(): a new operation begins when the last one is done with.
LEMMA StoreRequestStep == ASSUME ChannelInv, StoreRequest, ~late' PROVE ChannelInv'
  <1>0. TypeOK /\ OneUnderWay /\ BufferFollows /\ ResultsFollow
    BY DEF ChannelInv
  <1>1. /\ caller = "idle" /\ call < MaxCalls /\ call' = call + 1 /\ caller' = "len"
        /\ data' = Request(call + 1) /\ \A h \in Calls : handler[h] \in {"none", "finished"}
        /\ UNCHANGED <<state, len, gotLen, result, main, current, handler, reqLen, answer,
                       applied, failures, exited>>
    <2>1. ~\E h \in Calls : handler[h] \notin {"none", "finished"}
      BY Zenon DEF StoreRequest
    <2> QED
      BY <2>1 DEF StoreRequest, mainVars
  <1>2. call' \in Calls /\ call \in 0 .. MaxCalls /\ call' # call
    BY <1>0, <1>1, MessageFacts DEF TypeOK
  <1>3. main \in {"idle", "notify"}
    BY <1>0, <1>1 DEF TypeOK, OneUnderWay
  <1>a. /\ \A c \in hurried : c \in hurried'
        /\ main = "notify" => call' \in hurried'
        /\ hurried' \subseteq Calls /\ late' \in BOOLEAN
    <2>1. hurried' = IF main = "notify" THEN hurried \cup {call'} ELSE hurried
      BY <1>1 DEF StoreRequest
    <2>2. late' = (late \/ \E h \in Calls : handler[h] \notin {"none", "finished"})
      BY DEF StoreRequest
    <2> QED
      BY <1>0, <1>2, <2>1, <2>2 DEF TypeOK
  <1>4. TypeOK'
    <2>1. data' \in Contents /\ call' \in 0 .. MaxCalls
      BY <1>1, <1>2, MessageFacts
    <2>2. state # PENDING
      BY <1>0, <1>1 DEF TypeOK
    <2> QED
      BY <1>0, <1>1, <1>a, <2>1, <2>2 DEF TypeOK
  <1>5. OneUnderWay'
    <2>1. \A h \in Calls : h > call' => h > call
      BY <1>1, <1>2, MessageFacts
    <2>2. handler[call'] = "none"
      BY <1>0, <1>1, <1>2, MessageFacts DEF OneUnderWay
    <2>3. main = "notify" => current # call'
      BY <1>0, <1>1, <1>2, <2>2 DEF OneUnderWay, TypeOK, Sending
    <2> QED
      BY <1>0, <1>1, <1>2, <1>3, <1>a, <2>1, <2>2, <2>3 DEF OneUnderWay, Sending, Returning
  <1>6. BufferFollows'
    <2>1. handler[call'] = "none"
      BY <1>0, <1>1, <1>2, MessageFacts DEF OneUnderWay
    <2> QED
      BY <1>1, <1>2, <1>3, <2>1 DEF BufferFollows, Sending
  <1>7. ResultsFollow'
    BY <1>0, <1>1, <1>a DEF ResultsFollow
  <1> QED
    BY <1>4, <1>5, <1>6, <1>7 DEF ChannelInv

\* The other steps of call(): they wait for the handler of this call.
LEMMA CallingStep == ASSUME ChannelInv, Calling PROVE ChannelInv'
  <1>0. TypeOK /\ OneUnderWay /\ BufferFollows /\ ResultsFollow
    BY DEF ChannelInv
  <1>1. CASE StoreLength
    <2>1. /\ caller = "len" /\ len' = Request(call) /\ caller' = "state" /\ call \in Calls
          /\ UNCHANGED <<state, data, call, gotLen, result, late, hurried, main, current,
                         handler, reqLen, answer, applied, failures, exited>>
      BY <1>0, <1>1 DEF StoreLength, SetLength, mainVars, OneUnderWay
    <2>2. \A h \in Calls : handler[h] \in {"none", "finished"} /\ handler[call] = "none"
      BY <1>0, <2>1 DEF OneUnderWay, Sending
    <2>3. TypeOK'
      BY <1>0, <2>1, MessageFacts DEF TypeOK
    <2>4. OneUnderWay'
      BY <1>0, <2>1 DEF OneUnderWay, Sending, Returning
    <2>5. BufferFollows' /\ ResultsFollow'
      BY <1>0, <2>1, <2>2 DEF BufferFollows, ResultsFollow, OneUnderWay, Sending
    <2> QED
      BY <2>3, <2>4, <2>5 DEF ChannelInv
  <1>2. CASE StorePending
    <2>1. /\ caller = "state" /\ state' = PENDING /\ caller' = "post"
          /\ UNCHANGED <<len, data, call, gotLen, result, late, hurried, main, current,
                         handler, reqLen, answer, applied, failures, exited>>
      BY <1>2 DEF StorePending, mainVars
    <2>2. TypeOK'
      BY <1>0, <2>1 DEF TypeOK
    <2>3. OneUnderWay'
      BY <1>0, <2>1 DEF OneUnderWay, Sending, Returning
    <2>4. BufferFollows' /\ ResultsFollow'
      BY <1>0, <2>1 DEF BufferFollows, ResultsFollow, Sending
    <2> QED
      BY <2>2, <2>3, <2>4 DEF ChannelInv
  <1>3. CASE PostMessage
    <2>1. /\ caller = "post" /\ caller' = "wait" /\ call \in Calls
          /\ handler' = [handler EXCEPT ![call] = "posted"]
          /\ UNCHANGED <<state, len, data, call, gotLen, result, late, hurried, main,
                         current, reqLen, answer, applied, failures, exited>>
      BY <1>0, <1>3 DEF PostMessage, shared, OneUnderWay
    <2>2. /\ handler'[call] = "posted" /\ handler[call] = "none"
          /\ \A h \in Calls : h # call => handler'[h] = handler[h]
          /\ handler' \in [Calls -> {"none", "posted", "running", "finished"}]
      BY <1>0, <2>1 DEF TypeOK, OneUnderWay, Sending
    <2>3. main \in {"idle", "notify"}
      BY <1>0, <2>1, <2>2 DEF TypeOK, OneUnderWay
    <2>4. TypeOK'
      BY <1>0, <2>1, <2>2 DEF TypeOK
    <2>5. OneUnderWay'
      <3>1. state = PENDING
        BY <1>0, <2>1 DEF OneUnderWay
      <3> QED
        BY <1>0, <2>1, <2>2, <2>3, <3>1, MessageFacts DEF OneUnderWay, Sending, Returning, TypeOK
    <2>6. BufferFollows'
      BY <1>0, <2>1, <2>2, <2>3 DEF BufferFollows, OneUnderWay, Sending
    <2>7. ResultsFollow'
      BY <1>0, <2>1, <2>2 DEF ResultsFollow
    <2> QED
      BY <2>4, <2>5, <2>6, <2>7 DEF ChannelInv
  <1>4. CASE Wait \/ Timeout
    <2>1. /\ caller \in {"wait", "blocked"} /\ caller' \in {"blocked", "readLen", "timeout"}
          /\ caller' = "readLen" => state # PENDING
          /\ UNCHANGED <<state, len, data, call, gotLen, result, late, hurried, main, current,
                         handler, reqLen, answer, applied, failures, exited>>
      BY <1>4 DEF Wait, Timeout, WaitDue, shared, mainVars
    <2>2. TypeOK'
      BY <1>0, <2>1 DEF TypeOK
    <2>3. OneUnderWay'
      BY <1>0, <2>1 DEF OneUnderWay, Sending, Returning
    <2>4. BufferFollows' /\ ResultsFollow'
      BY <1>0, <2>1 DEF BufferFollows, ResultsFollow, Sending
    <2> QED
      BY <2>2, <2>3, <2>4 DEF ChannelInv
  <1>5. CASE GiveUp
    <2>1. /\ caller = "timeout" /\ state' = IDLE /\ caller' = "idle" /\ call \in Calls
          /\ result' = [result EXCEPT ![call] = TimedOut]
          /\ UNCHANGED <<len, data, call, gotLen, late, hurried, main, current, handler,
                         reqLen, answer, applied, failures, exited>>
      BY <1>0, <1>5 DEF GiveUp, Abandon, mainVars, OneUnderWay
    <2>2. /\ result'[call] = TimedOut /\ \A h \in Calls : h # call => result'[h] = result[h]
          /\ result' \in [Calls -> Contents \cup {NoResult, TimedOut}]
      BY <1>0, <2>1 DEF TypeOK
    <2>3. TypeOK'
      BY <1>0, <2>1, <2>2, MessageFacts DEF TypeOK
    <2>4. OneUnderWay'
      BY <1>0, <2>1, <2>2, MessageFacts DEF OneUnderWay, Sending, Returning
    <2>5. BufferFollows'
      BY <1>0, <2>1 DEF BufferFollows, Sending
    <2>6. ResultsFollow'
      BY <1>0, <2>1, <2>2, MessageFacts DEF ResultsFollow
    <2> QED
      BY <2>3, <2>4, <2>5, <2>6 DEF ChannelInv
  <1>6. CASE LoadLength
    <2>1. /\ caller = "readLen" /\ gotLen' = len /\ caller' = "readData"
          /\ UNCHANGED <<state, len, data, call, result, late, hurried, main, current,
                         handler, reqLen, answer, applied, failures, exited>>
      BY <1>6 DEF LoadLength, shared, mainVars
    <2>2. len = Response(call) \/ (len = Request(call) /\ call \in hurried)
      BY <1>0, <2>1 DEF TypeOK, OneUnderWay, BufferFollows, Returning, Sending
    <2>3. TypeOK'
      BY <1>0, <2>1 DEF TypeOK
    <2>4. OneUnderWay'
      BY <1>0, <2>1 DEF OneUnderWay, Sending, Returning
    <2>5. BufferFollows' /\ ResultsFollow'
      BY <1>0, <2>1, <2>2 DEF BufferFollows, ResultsFollow, Sending
    <2> QED
      BY <2>3, <2>4, <2>5 DEF ChannelInv
  <1>7. CASE LoadResponse
    <2>1. /\ caller = "readData" /\ caller' = "release" /\ call \in Calls
          /\ handler[call] \in {"posted", "running", "finished"}
          /\ UNCHANGED <<state, len, data, call, gotLen, late, hurried, main, current, handler,
                         reqLen, answer, applied, failures, exited>>
      BY <1>0, <1>7 DEF LoadResponse, shared, mainVars, OneUnderWay, Sending, TypeOK
    <2>2. /\ data = Request(call) \/ data = Response(call)
          /\ data = Response(call) => handler[call] \in {"running", "finished"}
          /\ call \notin hurried => data = Response(call) /\ gotLen = Response(call)
      BY <1>0, <2>1, MessageFacts DEF OneUnderWay, BufferFollows, Returning
    <2>3. PICK m \in Decode(data, gotLen) : result' = [result EXCEPT ![call] = m]
      BY <1>7 DEF LoadResponse
    <2>4. /\ m = data \/ (m = Garbled /\ data # gotLen)
          /\ m \in Contents
      BY <1>0, <2>3, MessageFacts DEF Decode, TypeOK
    <2>5. /\ result'[call] = m
          /\ \A h \in Calls : h # call => result'[h] = result[h]
          /\ result' \in [Calls -> Contents \cup {NoResult, TimedOut}]
      BY <1>0, <2>1, <2>3, <2>4 DEF TypeOK
    <2>6. TypeOK'
      BY <1>0, <2>1, <2>5 DEF TypeOK
    <2>7. OneUnderWay'
      BY <1>0, <2>1, <2>5, MessageFacts DEF OneUnderWay, Sending, Returning
    <2>8. BufferFollows'
      BY <1>0, <2>1 DEF BufferFollows, Sending
    <2>9. ResultsFollow'
      <3>1. /\ m = Response(call) \/ (m \in {Request(call), Garbled} /\ call \in hurried)
            /\ m = Response(call) => handler[call] \in {"running", "finished"}
        BY <2>1, <2>2, <2>4, MessageFacts
      <3> QED
        BY <1>0, <2>1, <2>5, <3>1 DEF ResultsFollow
    <2> QED
      BY <2>6, <2>7, <2>8, <2>9 DEF ChannelInv
  <1>8. CASE StoreIdle
    <2>1. /\ caller = "release" /\ state' = IDLE /\ caller' = "idle"
          /\ UNCHANGED <<len, data, call, gotLen, result, late, hurried, main, current,
                         handler, reqLen, answer, applied, failures, exited>>
      BY <1>8 DEF StoreIdle, mainVars
    <2>2. TypeOK'
      BY <1>0, <2>1, MessageFacts DEF TypeOK
    <2>3. OneUnderWay'
      BY <1>0, <2>1 DEF OneUnderWay, Sending, Returning
    <2>4. BufferFollows' /\ ResultsFollow'
      BY <1>0, <2>1 DEF BufferFollows, ResultsFollow, Sending
    <2> QED
      BY <2>2, <2>3, <2>4 DEF ChannelInv
  <1> QED
    BY <1>1, <1>2, <1>3, <1>4, <1>5, <1>6, <1>7, <1>8 DEF Calling

\* handleOp(): the message that is posted is that of the current call.
LEMMA MainStep == ASSUME ChannelInv, Main PROVE ChannelInv'
  <1>0. TypeOK /\ OneUnderWay /\ BufferFollows /\ ResultsFollow
    BY DEF ChannelInv
  <1>1. ASSUME NEW h \in Calls, LoadRequestLength(h) PROVE ChannelInv'
    <2>1. /\ main = "idle" /\ handler[h] = "posted" /\ reqLen' = len /\ current' = h
          /\ main' = "readData" /\ len = Request(h)
          /\ UNCHANGED <<state, len, data, caller, call, gotLen, result, late, hurried,
                         handler, answer, applied, failures, exited>>
      BY <1>0, <1>1 DEF LoadRequestLength, shared, callerVars, BufferFollows
    <2>2. TypeOK'
      BY <1>0, <2>1, MessageFacts DEF TypeOK
    <2>3. OneUnderWay'
      BY <1>0, <2>1 DEF OneUnderWay, Sending, Returning
    <2>4. BufferFollows' /\ ResultsFollow'
      BY <1>0, <2>1 DEF BufferFollows, ResultsFollow, Sending
    <2> QED
      BY <2>2, <2>3, <2>4 DEF ChannelInv
  <1>2. ASSUME NEW h \in Calls, Reject(h) PROVE ChannelInv'
    <2>1. /\ failures' = failures + 1 /\ failures < MaxFailures /\ exited' = TRUE
          /\ UNCHANGED <<state, len, data, caller, call, gotLen, result, late, hurried,
                         main, current, handler, reqLen, answer, applied>>
      BY <1>2 DEF Reject, shared, callerVars
    <2>2. failures' \in 0 .. MaxFailures
      BY <1>0, <2>1, MaxFailuresAssumption DEF TypeOK
    <2>3. TypeOK'
      BY <1>0, <2>1, <2>2 DEF TypeOK
    <2>4. OneUnderWay'
      BY <1>0, <2>1 DEF OneUnderWay, Sending, Returning
    <2>5. BufferFollows' /\ ResultsFollow'
      BY <1>0, <2>1 DEF BufferFollows, ResultsFollow, Sending
    <2> QED
      BY <2>3, <2>4, <2>5 DEF ChannelInv
  <1>3. ASSUME NEW h \in Calls, WriteResponse(h) PROVE ChannelInv'
    <2>1. /\ main = "idle" /\ handler[h] = "running" /\ data' = answer[h] /\ current' = h
          /\ main' = "len" /\ answer[h] = Response(h)
          /\ UNCHANGED <<state, len, caller, call, gotLen, result, late, hurried, handler,
                         reqLen, answer, applied, failures, exited>>
      BY <1>0, <1>3 DEF WriteResponse, callerVars, BufferFollows
    <2>2. h = call /\ caller \notin Sending
      BY <1>0, <2>1 DEF OneUnderWay
    <2>3. TypeOK'
      BY <1>0, <2>1, MessageFacts DEF TypeOK
    <2>4. OneUnderWay'
      BY <1>0, <2>1 DEF OneUnderWay, Sending, Returning
    <2>5. BufferFollows' /\ ResultsFollow'
      BY <1>0, <2>1, <2>2 DEF BufferFollows, ResultsFollow, OneUnderWay, Sending
    <2> QED
      BY <2>3, <2>4, <2>5 DEF ChannelInv
  <1>4. CASE LoadGarbled
    <2>1. main = "readData" /\ Garbled \in Decode(data, reqLen) /\ current \in Calls
      BY <1>0, <1>4 DEF LoadGarbled, TypeOK
    <2>2. data = Request(current) /\ reqLen = Request(current)
      BY <1>0, <2>1 DEF OneUnderWay, BufferFollows
    <2> QED
      BY <2>1, <2>2, MessageFacts DEF Decode
  <1>5. CASE LoadRequest
    <2>1. main = "readData" /\ current \in Calls
      BY <1>0, <1>5 DEF LoadRequest, TypeOK
    <2>2. PICK h \in Calls : h = current
      BY <2>1
    <2>3. /\ handler[h] = "posted" /\ data = Request(h) /\ len = Request(h)
          /\ reqLen = Request(h)
      BY <1>0, <2>1, <2>2 DEF OneUnderWay, BufferFollows
    <2>4. Decode(data, reqLen) \ {Garbled} = {Request(h)}
      BY <2>3, MessageFacts DEF Decode
    <2>5. /\ applied' = [applied EXCEPT ![h] = @ + 1]
          /\ answer' = [answer EXCEPT ![h] = Response(h)]
      BY <1>5, <2>2, <2>4, MessageFacts DEF LoadRequest
    <2>6. /\ handler' = [handler EXCEPT ![h] = "running"]
          /\ current' = None /\ main' = "idle"
          /\ UNCHANGED <<state, len, data, caller, call, gotLen, result, late, hurried,
                         reqLen, failures, exited>>
      BY <1>5, <2>2 DEF LoadRequest, shared, callerVars
    <2>7. /\ applied'[h] = applied[h] + 1 /\ applied[h] = 0 /\ answer'[h] = Response(h)
          /\ handler'[h] = "running" /\ applied' \in [Calls -> Nat]
          /\ answer' \in [Calls -> Contents]
          /\ handler' \in [Calls -> {"none", "posted", "running", "finished"}]
          /\ \A g \in Calls : g # h => /\ applied'[g] = applied[g] /\ answer'[g] = answer[g]
                                       /\ handler'[g] = handler[g]
      BY <1>0, <2>3, <2>5, <2>6, MessageFacts DEF TypeOK, ResultsFollow
    <2>8. h = call /\ caller \notin Sending
      BY <1>0, <2>3 DEF OneUnderWay
    <2>9. TypeOK'
      BY <1>0, <2>6, <2>7, MessageFacts DEF TypeOK
    <2>10. OneUnderWay'
      BY <1>0, <2>6, <2>7, <2>8, <2>3 DEF OneUnderWay
    <2>11. BufferFollows'
      BY <1>0, <2>3, <2>6, <2>7, <2>8 DEF BufferFollows, OneUnderWay, Returning
    <2>12. ResultsFollow'
      BY <1>0, <2>3, <2>6, <2>7 DEF ResultsFollow
    <2> QED
      BY <2>9, <2>10, <2>11, <2>12 DEF ChannelInv
  <1>6. CASE WriteLength
    <2>1. /\ main = "len" /\ len' = answer[current] /\ main' = "done" /\ current \in Calls
          /\ UNCHANGED <<state, data, caller, call, gotLen, result, late, hurried,
                         current, handler, reqLen, answer, applied, failures, exited>>
      BY <1>0, <1>6 DEF WriteLength, callerVars, TypeOK
    <2>2. PICK h \in Calls : h = current
      BY <2>1
    <2>3. /\ handler[h] = "running" /\ len' = Response(h) /\ h = call
          /\ caller \notin Sending
      BY <1>0, <2>1, <2>2 DEF OneUnderWay, BufferFollows
    <2>4. TypeOK'
      BY <1>0, <2>1, <2>3, MessageFacts DEF TypeOK
    <2>5. OneUnderWay'
      BY <1>0, <2>1 DEF OneUnderWay
    <2>6. BufferFollows' /\ ResultsFollow'
      BY <1>0, <2>1, <2>3 DEF BufferFollows, ResultsFollow, OneUnderWay, Sending
    <2> QED
      BY <2>4, <2>5, <2>6 DEF ChannelInv
  <1>7. CASE WriteDone
    <2>1. main = "done" /\ current \in Calls
      BY <1>0, <1>7 DEF WriteDone, TypeOK
    <2>2. PICK h \in Calls : h = current
      BY <2>1
    <2>3. /\ handler[h] = "running" /\ h = call /\ caller \notin Sending
          /\ data = Response(h) /\ len = Response(h)
      BY <1>0, <2>1, <2>2 DEF OneUnderWay, BufferFollows
    <2>4. /\ state' = DONE /\ handler' = [handler EXCEPT ![h] = "finished"]
          /\ main' = "notify"
          /\ UNCHANGED <<len, data, caller, call, gotLen, result, late, hurried, current,
                         reqLen, answer, applied, failures, exited>>
      BY <1>7, <2>2 DEF WriteDone, callerVars
    <2>5. /\ handler'[h] = "finished"
          /\ \A g \in Calls : g # h => handler'[g] = handler[g]
          /\ handler' \in [Calls -> {"none", "posted", "running", "finished"}]
      BY <1>0, <2>4 DEF TypeOK
    <2>6. TypeOK'
      BY <1>0, <2>1, <2>4, <2>5, MessageFacts DEF TypeOK
    <2>7. OneUnderWay'
      <3>1. /\ \A g \in Calls : g # call' => handler'[g] \in {"none", "finished"}
            /\ \A g \in Calls : g > call' => handler'[g] = "none" /\ result'[g] = NoResult
        <4>1. ~(h > call)
          BY <2>3, MessageFacts
        <4> QED
          BY <1>0, <2>3, <2>4, <2>5, <4>1 DEF OneUnderWay
      <3>2. /\ caller' # "idle" => call' \in Calls
            /\ caller' \notin Sending /\ call' \in Calls => handler'[call'] # "none"
            /\ caller' \in Returning /\ call' \notin hurried' => handler'[call'] = "finished"
        BY <1>0, <2>3, <2>4, <2>5 DEF OneUnderWay
      <3>3. caller' \notin Sending /\ caller' # "post"
        BY <2>3, <2>4 DEF Sending
      <3>4. caller' \in {"wait", "blocked"} => handler'[call'] = "finished"
        BY <2>3, <2>4, <2>5
      <3>5. main' = "notify" /\ handler'[current'] = "finished" /\ current' = call'
        BY <2>2, <2>3, <2>4, <2>5
      <3> QED
        BY <3>1, <3>2, <3>3, <3>4, <3>5 DEF OneUnderWay
    <2>8. BufferFollows'
      BY <1>0, <2>3, <2>4, <2>5 DEF BufferFollows, OneUnderWay, Returning
    <2>9. ResultsFollow'
      BY <1>0, <2>3, <2>4, <2>5 DEF ResultsFollow
    <2> QED
      BY <2>6, <2>7, <2>8, <2>9 DEF ChannelInv
  <1>8. CASE Notify
    <2>1. /\ main = "notify" /\ main' = "idle" /\ current' = None
          /\ caller' = IF caller = "blocked" THEN "readLen" ELSE caller
          /\ UNCHANGED <<state, len, data, call, gotLen, result, late, hurried, handler,
                         reqLen, answer, applied, failures, exited>>
      BY <1>8 DEF Notify, shared
    <2>2. handler[call] = "finished" \/ call \in hurried
      BY <1>0, <2>1 DEF OneUnderWay
    <2>3. TypeOK'
      BY <1>0, <2>1 DEF TypeOK
    <2>4. OneUnderWay'
      BY <1>0, <2>1, <2>2 DEF OneUnderWay, Sending, Returning
    <2>5. BufferFollows' /\ ResultsFollow'
      BY <1>0, <2>1 DEF BufferFollows, ResultsFollow, Sending
    <2> QED
      BY <2>3, <2>4, <2>5 DEF ChannelInv
  <1> QED
    BY <1>1, <1>2, <1>3, <1>4, <1>5, <1>6, <1>7, <1>8 DEF Main

LEMMA ChannelInit == ASSUME Init PROVE ChannelInv
  <1>1. TypeOK
    <2>1. /\ call \in 0 .. MaxCalls /\ failures \in 0 .. MaxFailures
          /\ applied \in [Calls -> Nat] /\ answer \in [Calls -> Contents]
          /\ result \in [Calls -> Contents \cup {NoResult, TimedOut}]
          /\ handler \in [Calls -> {"none", "posted", "running", "finished"}]
      BY MessageFacts, MaxFailuresAssumption DEF Init
    <2>2. main = "idle" /\ current = None /\ state # PENDING
      BY MessageFacts DEF Init
    <2>3. /\ state \in {IDLE, PENDING, DONE} /\ exited \in BOOLEAN
          /\ late \in BOOLEAN /\ hurried \subseteq Calls
          /\ len \in Contents /\ data \in Contents /\ gotLen \in Contents
          /\ reqLen \in Contents /\ caller = "idle"
      BY MessageFacts DEF Init
    <2> QED
      BY <2>1, <2>2, <2>3 DEF TypeOK
  <1>2. OneUnderWay /\ BufferFollows /\ ResultsFollow
    BY MessageFacts DEF Init, OneUnderWay, BufferFollows, ResultsFollow, Sending, Returning
  <1> QED
    BY <1>1, <1>2 DEF ChannelInv

\* What the session channel keeps, as long as no call has begun too early.
LEMMA ChannelNext ==
    ASSUME late \/ ChannelInv, [Next]_vars PROVE late' \/ ChannelInv'
  <1>1. CASE UNCHANGED vars
    <2>1. UNCHANGED <<state, len, data, caller, call, gotLen, result, late, hurried, main,
                      current, handler, reqLen, answer, applied, failures, exited>>
      BY <1>1 DEF vars, shared, callerVars, mainVars
    <2> QED
      BY <2>1 DEF ChannelInv, TypeOK, OneUnderWay, BufferFollows, ResultsFollow
  <1>2. ASSUME Next, ~late' PROVE ~late
    BY <1>2, Zenon DEF Next, Calling, Main, StoreRequest, StoreLength, StorePending, PostMessage,
       Wait, Timeout, GiveUp, LoadLength, LoadResponse, StoreIdle, LoadRequestLength, Reject,
       WriteResponse, LoadGarbled, LoadRequest, WriteLength, WriteDone, Notify, callerVars
  <1>3. ASSUME Next, ~late' PROVE ChannelInv'
    BY <1>2, <1>3, StoreRequestStep, CallingStep, MainStep DEF Next
  <1> QED
    BY <1>1, <1>3

-----------------------------------------------------------------------------
(***************************************************************************)
(* Outgoing HTTP, as long as no call is made while an abandoned request is *)
(* under way: the request that is under way is that of the last call, and  *)
(* a notify that is still to come may be that of the one before.           *)
(***************************************************************************)
Buffers == [kind : {"request", "response"}, of : 0 .. HttpCalls]
Execs ==
    [state : {"none", "queued", "running", "answered", "done"}, of : 0 .. HttpCalls,
     hops : Nat, left : Nat, cookie : BOOLEAN, ok : BOOLEAN]
Asked(c) == [kind |-> "request", of |-> c]
Answered(c) == [kind |-> "response", of |-> c]

Busy == {"written", "waiting", "blocked", "woken"}
Notified == <<"notify">>
Flagged == <<"flag", "notify">>
Measured == <<"length", "flag", "notify">>
Written == <<"data", "length", "flag", "notify">>

HttpTypes ==
    /\ Http!TypeOK
    /\ lastResponse \in 0 .. HttpCalls /\ since \in 1 .. last + 1
    /\ buffer \in Buffers /\ length \in Buffers /\ exec \in [Http!Calls -> Execs]
    /\ writes \in {<<>>, Notified, Flagged, Measured, Written}
    /\ timeouts \in Nat /\ raced \in BOOLEAN
    /\ (writing = 0) = (writes = <<>>)

\* Of every call, raced or not: each is queued once, and each hop uses up a redirect.
HopsCounted ==
    /\ \A c \in Http!Calls :
          /\ c > last \/ (c = last /\ httpCaller = "written") => exec[c].state = "none"
          /\ exec[c].state = "none" => exec[c].hops = 0
          /\ exec[c].state \in {"none", "queued", "running"} =>
                exec[c].hops + exec[c].left <= Redirects
          /\ exec[c].hops <= Redirects + 1
    /\ \A i \in 1 .. Len(mailbox) : exec[mailbox[i]].state = "queued"
    /\ \A i, j \in 1 .. Len(mailbox) : mailbox[i] = mailbox[j] => i = j
    /\ httpCaller \in Busy => last >= 1 /\ since <= last
    /\ \A c \in Http!Calls :
          c > last \/ (c = last /\ httpCaller \in Busy) => returned[c] = "none"

\* The response to the call c is in the buffer, and the flag is set.
Complete(c) == exec[c].state = "done" /\ (writing = 0 \/ writes = Notified)

\* The calls before the last are done with, but for a notify.
LastUnderWay ==
    /\ \A c \in Http!Calls :
          /\ c # last => /\ exec[c].state \in {"none", "done"}
                         /\ writing # c \/ writes = Notified
          /\ c = last /\ exec[c].state = "none" => httpCaller = "written"
          /\ writing = c => exec[c].state = "done"
    /\ httpCaller \in {"waiting", "blocked"} /\ ctrl # "PENDING" => Complete(last)
    /\ httpCaller = "woken" => Complete(last) \/ last \in httpHurried
    /\ writes = Notified => writing = last \/ last \in httpHurried \/ httpCaller \notin Busy

\* What the shared buffer holds of the last call.
BufferOfLast ==
    \A c \in Http!Calls : c = last =>
        /\ exec[c].state # "done" =>
              /\ buffer = Asked(c)
              /\ httpCaller # "written" => length = Asked(c)
        /\ exec[c].state \in {"running", "answered"} => exec[c].of = c
        /\ exec[c].state = "done" =>
              /\ buffer = IF writes = Written THEN Asked(c) ELSE Answered(c)
              /\ length = IF writes \in {Written, Measured} THEN Asked(c) ELSE Answered(c)

\* What the calls have returned, and what the client keeps of it.
ClientExact ==
    /\ \A c \in Http!Calls :
          /\ returned[c] # "other" /\ (returned[c] = "echo" => c \in httpHurried)
          /\ returned[c] = "own" => exec[c].state = "done"
          /\ returned[c] = "error" /\ timeouts = 0 /\ c \notin httpHurried =>
                exec[c].state = "done" /\ ~exec[c].ok
    /\ Http!JarExact
    /\ lastResponse # 0 => lastResponse = IF httpCaller = "idle" THEN last ELSE last - 1

HttpInv ==
    /\ HttpTypes /\ HopsCounted
    /\ ~raced => LastUnderWay /\ BufferOfLast /\ ClientExact

LEMMA HttpFacts ==
    ASSUME HttpInv
    PROVE  /\ enabled \in BOOLEAN /\ jar \subseteq Http!Calls /\ maxRedirects \in 0 .. Redirects
           /\ httpCaller \in Busy \cup {"idle", "trapped"} /\ last \in 0 .. HttpCalls
           /\ last \in Nat /\ since \in 1 .. last + 1 /\ since \in Nat
           /\ ctrl \in {"IDLE", "PENDING", "DONE"} /\ buffer \in Buffers /\ length \in Buffers
           /\ buffer.kind \in {"request", "response"} /\ buffer.of \in 0 .. HttpCalls
           /\ httpHurried \subseteq Http!Calls
           /\ mailbox \in Seq(Http!Calls) /\ writing \in 0 .. HttpCalls
           /\ returned \in [Http!Calls -> {"none", "own", "other", "echo", "error"}]
           /\ lastResponse \in 0 .. HttpCalls
           /\ exec \in [Http!Calls -> Execs]
           /\ writes \in {<<>>, Notified, Flagged, Measured, Written}
           /\ timeouts \in Nat /\ raced \in BOOLEAN
           /\ (writing = 0 <=> writes = <<>>)
           /\ Http!Calls = 1 .. HttpCalls /\ HttpCalls \in Nat /\ Redirects \in Nat
  <1>1. HttpTypes /\ Http!TypeOK
    BY DEF HttpInv, HttpTypes
  <1>2. HttpCalls \in Nat /\ Redirects \in Nat /\ Http!Calls = 1 .. HttpCalls
    BY HttpAssumption DEF Http!Calls
  <1>3. last \in 0 .. HttpCalls /\ last \in Nat /\ since \in 1 .. last + 1 /\ since \in Nat
    BY <1>1, <1>2 DEF HttpTypes, Http!TypeOK
  <1>4. /\ enabled \in BOOLEAN /\ jar \subseteq Http!Calls /\ maxRedirects \in 0 .. Redirects
        /\ httpCaller \in Busy \cup {"idle", "trapped"}
        /\ httpHurried \subseteq Http!Calls
        /\ ctrl \in {"IDLE", "PENDING", "DONE"}
        /\ mailbox \in Seq(Http!Calls) /\ writing \in 0 .. HttpCalls
        /\ returned \in [Http!Calls -> {"none", "own", "other", "echo", "error"}]
    BY <1>1 DEF Http!TypeOK, Busy
  <1>5. /\ lastResponse \in 0 .. HttpCalls /\ buffer \in Buffers /\ length \in Buffers
        /\ exec \in [Http!Calls -> Execs]
        /\ writes \in {<<>>, Notified, Flagged, Measured, Written}
        /\ timeouts \in Nat /\ raced \in BOOLEAN /\ (writing = 0 <=> writes = <<>>)
    BY <1>1 DEF HttpTypes
  <1>6. buffer.kind \in {"request", "response"} /\ buffer.of \in 0 .. HttpCalls
    BY <1>5 DEF Buffers
  <1> QED
    BY <1>2, <1>3, <1>4, <1>5, <1>6

\* The settings of the client, and a new client for a new request.
LEMMA ClientStep ==
    ASSUME HttpInv,
           \/ \E on \in BOOLEAN : Http!http_enable_cookies(on)
           \/ \E n \in 0 .. Redirects : Http!http_set_max_redirects(n)
           \/ Http!NextRequest
    PROVE  HttpInv'
  <1>0. HttpTypes /\ HopsCounted /\ (~raced => LastUnderWay /\ BufferOfLast /\ ClientExact)
    BY DEF HttpInv
  <1>1. /\ httpCaller \in {"idle", "trapped"} /\ httpCaller' \in {"idle", httpCaller}
        /\ httpCaller' = httpCaller \/ lastResponse' = 0
        /\ UNCHANGED <<last, ctrl, buffer, length, mailbox, exec, writing, writes, returned,
                       timeouts, raced, httpHurried>>
    BY DEF Http!http_enable_cookies, Http!http_set_max_redirects, Http!NextRequest,
           Http!channel, Http!worker
  <1>2. /\ enabled' \in BOOLEAN /\ jar' \subseteq Http!Calls
        /\ maxRedirects' \in 0 .. Redirects
        /\ lastResponse' \in 0 .. HttpCalls /\ lastResponse' \in {0, lastResponse}
    <2>1. enabled \in BOOLEAN /\ jar \subseteq Http!Calls /\ {} \subseteq Http!Calls
          /\ maxRedirects \in 0 .. Redirects /\ Redirects \in 0 .. Redirects
          /\ lastResponse \in 0 .. HttpCalls /\ 0 \in 0 .. HttpCalls
      BY HttpFacts
    <2>2. CASE \E on \in BOOLEAN : Http!http_enable_cookies(on)
      BY <2>1, <2>2, Zenon DEF Http!http_enable_cookies
    <2>3. CASE \E n \in 0 .. Redirects : Http!http_set_max_redirects(n)
      BY <2>1, <2>3, Zenon DEF Http!http_set_max_redirects
    <2>4. CASE Http!NextRequest
      BY <2>1, <2>4, Zenon DEF Http!NextRequest
    <2> QED
      BY <2>2, <2>3, <2>4
  <1>3. \/ enabled' = enabled /\ jar' = jar /\ since' = since
        \/ jar' = {} /\ since' = last + 1
        \/ enabled /\ enabled' /\ jar' = jar /\ since' = since
        \/ ~enabled /\ jar' = jar /\ since' = last + 1
    BY HttpFacts DEF Http!http_enable_cookies, Http!http_set_max_redirects, Http!NextRequest
  <1>4. since' \in 1 .. last + 1
    BY <1>3, HttpFacts
  <1>5. HttpTypes'
    BY <1>0, <1>1, <1>2, <1>4 DEF HttpTypes, Http!TypeOK
  <1>9. httpCaller \notin Busy /\ httpCaller' \notin Busy
        /\ httpCaller # "written" /\ httpCaller' # "written"
    BY <1>1 DEF Busy
  <1>6. HopsCounted'
    BY <1>0, <1>1, <1>9 DEF HopsCounted
  <1>7. ASSUME ~raced PROVE LastUnderWay' /\ BufferOfLast'
    <2>1. LastUnderWay /\ BufferOfLast
      BY <1>0, <1>7
    <2>2. httpCaller' \notin {"waiting", "blocked", "woken"}
      BY <1>9 DEF Busy
    <2> QED
      BY <1>1, <1>9, <2>1, <2>2 DEF LastUnderWay, BufferOfLast, Complete
  <1>8. ASSUME ~raced PROVE ClientExact'
    <2>1. Http!JarExact'
      <3>1. jar = IF enabled THEN {c \in since .. last : returned[c] = "own" /\ exec[c].cookie}
                             ELSE {}
        BY <1>0, <1>8 DEF ClientExact, Http!JarExact
      <3>2. (last + 1) .. last = {}
        BY HttpFacts
      <3>3. jar' = IF enabled' THEN {c \in since' .. last : returned[c] = "own" /\ exec[c].cookie}
                               ELSE {}
        <4>1. CASE enabled' = enabled /\ jar' = jar /\ since' = since
          BY <3>1, <4>1
        <4>2. CASE jar' = {} /\ since' = last + 1
          BY <3>2, <4>2
        <4>3. CASE enabled /\ enabled' /\ jar' = jar /\ since' = since
          BY <3>1, <4>3
        <4>4. CASE ~enabled /\ jar' = jar /\ since' = last + 1
          BY <3>1, <3>2, <4>4
        <4> QED
          BY <1>3, <4>1, <4>2, <4>3, <4>4
      <3> QED
        BY <1>1, <3>3 DEF Http!JarExact
    <2>2. lastResponse' # 0 => lastResponse' = IF httpCaller' = "idle" THEN last ELSE last - 1
      BY <1>0, <1>1, <1>2, <1>8 DEF ClientExact
    <2> QED
      BY <1>0, <1>1, <1>8, <2>1, <2>2 DEF ClientExact
  <1> QED
    BY <1>1, <1>5, <1>6, <1>7, <1>8 DEF HttpInv

\* The request is put into the buffer.
LEMMA BuildStep == ASSUME HttpInv, Http!buildWorkerRequest PROVE HttpInv'
  <1>0. HttpTypes /\ HopsCounted /\ (~raced => LastUnderWay /\ BufferOfLast /\ ClientExact)
    BY DEF HttpInv
  <1>e. PICK n \in Nat : n = last + 1
    BY HttpFacts
  <1>1. /\ httpCaller = "idle" /\ last < HttpCalls /\ last' = n /\ httpCaller' = "written"
        /\ buffer' = Asked(n)
        /\ raced' = (raced \/ \E c \in Http!Calls : Http!Executing(c))
        /\ exec' = [exec EXCEPT ![n].left = maxRedirects]
        /\ httpHurried' = IF writes = Notified THEN httpHurried \cup {n} ELSE httpHurried
        /\ UNCHANGED <<enabled, jar, since, maxRedirects, lastResponse, ctrl, length, mailbox,
                       writing, writes, returned, timeouts>>
    BY <1>e DEF Http!buildWorkerRequest, Http!client, Asked, Notified
  <1>2. n \in Http!Calls /\ n > last /\ last # n /\ n # 0
    BY <1>e, <1>1, HttpFacts
  <1>3. exec[n].state = "none" /\ exec[n].hops = 0 /\ exec[n] \in Execs
    BY <1>0, <1>2, HttpFacts DEF HopsCounted
  <1>4. /\ exec'[n] \in Execs /\ exec'[n].state = "none" /\ exec'[n].hops = 0
        /\ exec'[n].left = maxRedirects
        /\ \A c \in Http!Calls : c # n => exec'[c] = exec[c]
        /\ exec' \in [Http!Calls -> Execs]
    <2>1. maxRedirects \in Nat
      BY HttpFacts
    <2>2. [exec[n] EXCEPT !.left = maxRedirects] \in Execs
      BY <1>3, <2>1 DEF Execs
    <2>3. exec'[n] = [exec[n] EXCEPT !.left = maxRedirects]
      BY <1>1, <1>2, HttpFacts
    <2> QED
      BY <1>1, <1>2, <1>3, <2>2, <2>3, HttpFacts DEF Execs
  <1>5. HttpTypes'
    <2>1. /\ last' \in 0 .. HttpCalls /\ since' \in 1 .. last' + 1 /\ buffer' \in Buffers
      BY <1>1, <1>2, <1>e, HttpFacts DEF Buffers, Asked
    <2>2. raced' \in BOOLEAN /\ httpHurried' \subseteq Http!Calls
      BY <1>1, <1>2, HttpFacts
    <2>3. buffer'.kind \in {"request", "response"}
      BY <1>1 DEF Asked
    <2> QED
      BY <1>0, <1>1, <1>4, <2>1, <2>2, <2>3 DEF HttpTypes, Http!TypeOK
  <1>6. HopsCounted'
    <2>1. ASSUME NEW c \in Http!Calls
          PROVE  /\ c > last' \/ (c = last' /\ httpCaller' = "written") =>
                       exec'[c].state = "none"
                 /\ exec'[c].state = "none" => exec'[c].hops = 0
                 /\ exec'[c].state \in {"none", "queued", "running"} =>
                       exec'[c].hops + exec'[c].left <= Redirects
                 /\ exec'[c].hops <= Redirects + 1
      <3>1. CASE c = n
        BY <1>4, <3>1, HttpFacts
      <3>2. CASE c # n
        <4>1. c > last' => c > last
          BY <1>1, <1>e, HttpFacts
        <4> QED
          BY <1>0, <1>1, <1>4, <3>2, <4>1 DEF HopsCounted
      <3> QED
        BY <3>1, <3>2
    <2>2. \A i \in 1 .. Len(mailbox) : exec'[mailbox[i]].state = "queued"
      <3>1. \A i \in 1 .. Len(mailbox) :
               mailbox[i] \in Http!Calls /\ exec[mailbox[i]].state = "queued"
        BY <1>0, HttpFacts, ElementOfSeq DEF HopsCounted
      <3> QED
        BY <1>3, <1>4, <3>1
    <2>3. last' >= 1 /\ since' <= last'
      BY <1>1, <1>e, HttpFacts
    <2>4. ASSUME NEW c \in Http!Calls, c > last' \/ c = last' PROVE returned[c] = "none"
      <3>1. c > last
        BY <1>1, <1>e, <2>4, HttpFacts
      <3> QED
        BY <1>0, <3>1 DEF HopsCounted
    <2> QED
      BY <1>0, <1>1, <2>1, <2>2, <2>3, <2>4 DEF HopsCounted
  <1>7. ASSUME ~raced' PROVE LastUnderWay' /\ BufferOfLast' /\ ClientExact'
    <2>1. ~raced /\ LastUnderWay /\ ClientExact
      BY <1>0, <1>1, <1>7
    <2>2. \A c \in Http!Calls :
             /\ exec[c].state \in {"none", "done"}
             /\ writing # c \/ writes = Notified
      <3>1. \A c \in Http!Calls : exec[c].state \in {"none", "queued", "running", "answered", "done"}
        BY HttpFacts DEF Execs
      <3> QED
        BY <1>1, <1>7, <3>1 DEF Http!Executing, Notified
    <2>3. LastUnderWay'
      <3>1. ASSUME NEW c \in Http!Calls, writing = c PROVE exec'[c].state = "done"
        <4>1. c # n /\ exec[c].state = "done"
          BY <1>2, <1>3, <2>1, <3>1 DEF LastUnderWay
        <4> QED
          BY <1>4, <4>1
      <3> QED
        BY <1>1, <1>2, <1>4, <2>2, <3>1 DEF LastUnderWay
    <2>4. BufferOfLast'
      BY <1>1, <1>4 DEF BufferOfLast
    <2>5. ClientExact'
      <3>1. ASSUME NEW c \in Http!Calls
            PROVE  /\ returned[c] # "other" /\ (returned[c] = "echo" => c \in httpHurried')
                   /\ returned[c] = "own" => exec'[c].state = "done"
                   /\ returned[c] = "error" /\ timeouts = 0 /\ c \notin httpHurried' =>
                         exec'[c].state = "done" /\ ~exec'[c].ok
        <4>1. CASE c = n
          BY <1>0, <1>2, <4>1 DEF HopsCounted
        <4>2. CASE c # n
          BY <1>1, <1>4, <2>1, <4>2 DEF ClientExact
        <4> QED
          BY <4>1, <4>2
      <3>2. {c \in since .. n : returned[c] = "own" /\ exec'[c].cookie}
               = {c \in since .. last : returned[c] = "own" /\ exec[c].cookie}
        <4>1. returned[n] = "none"
          BY <1>0, <1>2 DEF HopsCounted
        <4>2. \A c : c \in since .. n <=> (c = n \/ c \in since .. last)
          BY <1>e, HttpFacts
        <4>3. \A c \in since .. last : c \in Http!Calls /\ c # n
          BY <1>e, <1>2, HttpFacts
        <4> QED
          BY <1>4, <4>1, <4>2, <4>3
      <3>3. Http!JarExact'
        BY <1>1, <2>1, <3>2 DEF ClientExact, Http!JarExact
      <3>4. lastResponse # 0 => lastResponse = last' - 1
        <4>1. last' - 1 = last
          BY <1>1, <1>e, HttpFacts
        <4> QED
          BY <1>1, <2>1, <4>1 DEF ClientExact
      <3> QED
        BY <1>1, <3>1, <3>3, <3>4 DEF ClientExact
    <2> QED
      BY <2>3, <2>4, <2>5
  <1> QED
    BY <1>5, <1>6, <1>7 DEF HttpInv

\* The flag is set, and the worker told.
LEMMA SetPendingStep == ASSUME HttpInv, Http!SetPending PROVE HttpInv'
  <1>0. HttpTypes /\ HopsCounted /\ (~raced => LastUnderWay /\ BufferOfLast /\ ClientExact)
    BY DEF HttpInv
  <1>e. PICK n \in Nat : n = last
    BY HttpFacts
  <1>1. /\ httpCaller = "written" /\ httpCaller' = "waiting" /\ ctrl' = "PENDING"
        /\ length' = buffer /\ mailbox' = Append(mailbox, n)
        /\ exec' = [exec EXCEPT ![n].state = "queued"]
        /\ UNCHANGED <<enabled, jar, since, maxRedirects, lastResponse, last, buffer, writing,
                       writes, returned, timeouts, raced, httpHurried>>
    BY <1>e DEF Http!SetPending, Http!client
  <1>2. n \in Http!Calls /\ exec[n].state = "none" /\ exec[n] \in Execs
    BY <1>0, <1>1, <1>e, HttpFacts DEF HopsCounted, Busy
  <1>3. /\ exec'[n] \in Execs /\ exec'[n].state = "queued" /\ exec'[n].hops = exec[n].hops
        /\ exec'[n].left = exec[n].left /\ exec'[n].of = exec[n].of
        /\ \A c \in Http!Calls : c # n => exec'[c] = exec[c]
        /\ exec' \in [Http!Calls -> Execs]
    <2>1. [exec[n] EXCEPT !.state = "queued"] \in Execs
      BY <1>2 DEF Execs
    <2>2. exec'[n] = [exec[n] EXCEPT !.state = "queued"]
      BY <1>1, <1>2, HttpFacts
    <2> QED
      BY <1>1, <1>2, <2>1, <2>2, HttpFacts DEF Execs
  <1>4. /\ mailbox' \in Seq(Http!Calls) /\ Len(mailbox') = Len(mailbox) + 1
        /\ Len(mailbox) \in Nat /\ mailbox'[Len(mailbox) + 1] = n
        /\ \A i \in 1 .. Len(mailbox) : mailbox'[i] = mailbox[i] /\ mailbox[i] \in Http!Calls
    BY <1>1, <1>2, HttpFacts, AppendProperties, LenProperties, ElementOfSeq, SMTT(30)
  <1>5. HttpTypes'
    <2>1. length'.kind \in {"request", "response"} /\ length' \in Buffers
      BY <1>1, HttpFacts
    <2> QED
      BY <1>0, <1>1, <1>3, <1>4, <2>1 DEF HttpTypes, Http!TypeOK
  <1>6. \A i \in 1 .. Len(mailbox) : exec[mailbox[i]].state = "queued" /\ mailbox[i] # n
    BY <1>0, <1>2 DEF HopsCounted
  <1>7. HopsCounted'
    <2>1. ASSUME NEW c \in Http!Calls
          PROVE  /\ c > last => exec'[c].state = "none"
                 /\ exec'[c].state = "none" => exec'[c].hops = 0
                 /\ exec'[c].state \in {"none", "queued", "running"} =>
                       exec'[c].hops + exec'[c].left <= Redirects
                 /\ exec'[c].hops <= Redirects + 1
      <3>1. CASE c = n
        BY <1>0, <1>2, <1>3, <1>e, <3>1, HttpFacts DEF HopsCounted
      <3>2. CASE c # n
        BY <1>0, <1>3, <3>2 DEF HopsCounted
      <3> QED
        BY <3>1, <3>2
    <2>2. \A i \in 1 .. Len(mailbox') : exec'[mailbox'[i]].state = "queued"
      <3>1. ASSUME NEW i \in 1 .. Len(mailbox') PROVE exec'[mailbox'[i]].state = "queued"
        <4>1. CASE i = Len(mailbox) + 1
          BY <1>3, <1>4, <4>1
        <4>2. CASE i \in 1 .. Len(mailbox)
          BY <1>3, <1>4, <1>6, <4>2
        <4> QED
          BY <1>4, <4>1, <4>2
      <3> QED
        BY <3>1
    <2>3. \A i, j \in 1 .. Len(mailbox') : mailbox'[i] = mailbox'[j] => i = j
      <3>1. \A i \in 1 .. Len(mailbox') : i \in 1 .. Len(mailbox) \/ i = Len(mailbox) + 1
        BY <1>4
      <3> QED
        BY <1>0, <1>4, <1>6, <3>1 DEF HopsCounted
    <2> QED
      BY <1>0, <1>1, <2>1, <2>2, <2>3 DEF HopsCounted, Busy
  <1>8. ASSUME ~raced PROVE LastUnderWay' /\ BufferOfLast' /\ ClientExact'
    <2>a. LastUnderWay'
      BY <1>0, <1>1, <1>2, <1>3, <1>8, <1>e DEF LastUnderWay, Busy
    <2>b. BufferOfLast'
      BY <1>0, <1>1, <1>2, <1>3, <1>8, <1>e DEF BufferOfLast
    <2>1. LastUnderWay' /\ BufferOfLast'
      BY <2>a, <2>b
    <2>2. \A c \in Http!Calls : returned[c] # "none" => c # n
      BY <1>0, <1>1, <1>2, <1>e DEF HopsCounted, Busy
    <2>3. Http!JarExact'
      <3>1. {c \in since .. last : returned[c] = "own" /\ exec'[c].cookie}
               = {c \in since .. last : returned[c] = "own" /\ exec[c].cookie}
        <4>1. \A c \in since .. last : c \in Http!Calls
          BY HttpFacts
        <4> QED
          BY <1>3, <2>2, <4>1
      <3> QED
        BY <1>0, <1>1, <1>8, <3>1 DEF ClientExact, Http!JarExact
    <2>4. \A c \in Http!Calls :
             /\ returned[c] # "other" /\ (returned[c] = "echo" => c \in httpHurried)
             /\ returned[c] = "own" => exec'[c].state = "done"
             /\ returned[c] = "error" /\ timeouts = 0 /\ c \notin httpHurried =>
                   exec'[c].state = "done" /\ ~exec'[c].ok
      BY <1>0, <1>3, <1>8, <2>2 DEF ClientExact
    <2> QED
      BY <1>0, <1>1, <1>8, <2>1, <2>3, <2>4 DEF ClientExact
  <1> QED
    BY <1>1, <1>5, <1>7, <1>8 DEF HttpInv

\* The thread blocks, or finds that the flag has changed.
LEMMA BlocksStep == ASSUME HttpInv, Http!Blocks PROVE HttpInv'
  <1>0. HttpTypes /\ HopsCounted /\ (~raced => LastUnderWay /\ BufferOfLast /\ ClientExact)
    BY DEF HttpInv
  <1>1. /\ httpCaller = "waiting" /\ httpCaller' \in {"blocked", "woken"}
        /\ httpCaller' = "woken" => ctrl # "PENDING"
        /\ UNCHANGED <<enabled, jar, since, maxRedirects, lastResponse, last, ctrl, buffer,
                       length, mailbox, exec, writing, writes, returned, timeouts, raced,
                       httpHurried>>
    BY DEF Http!Blocks, Http!client, Http!channel, Http!worker
  <1>2. HttpTypes'
    BY <1>0, <1>1 DEF HttpTypes, Http!TypeOK
  <1>3. HopsCounted'
    BY <1>0, <1>1 DEF HopsCounted, Busy
  <1>4. ASSUME ~raced PROVE LastUnderWay' /\ BufferOfLast' /\ ClientExact'
    <2>1. LastUnderWay' /\ BufferOfLast'
      BY <1>0, <1>1, <1>4 DEF LastUnderWay, BufferOfLast, Complete, Busy
    <2>2. ClientExact'
      BY <1>0, <1>1, <1>4 DEF ClientExact, Http!JarExact
    <2> QED
      BY <2>1, <2>2
  <1> QED
    BY <1>1, <1>2, <1>3, <1>4 DEF HttpInv

\* A call returns: with what is in the buffer, or with an error.
LEMMA ReturnStep ==
    ASSUME HttpInv, NEW what \in {"own", "other", "echo", "error"},
           NEW cookies, cookies \subseteq Http!Calls, Http!Return(what, cookies),
           httpCaller \in {"blocked", "woken"}, timeouts' \in {timeouts, timeouts + 1},
           ~raced => /\ what # "other"
                     /\ what = "echo" => cookies = {} /\ last \in httpHurried
                     /\ what = "own" =>
                           /\ exec[last].state = "done" /\ buffer.of = last
                           /\ cookies = IF exec[last].cookie THEN {last} ELSE {}
                     /\ what = "error" =>
                           /\ cookies = {}
                           /\ timeouts' = 0 /\ last \notin httpHurried =>
                                 exec[last].state = "done" /\ ~exec[last].ok
    PROVE  HttpInv'
  <1>0. HttpTypes /\ HopsCounted /\ (~raced => LastUnderWay /\ BufferOfLast /\ ClientExact)
    BY DEF HttpInv
  <1>e. PICK n \in Nat : n = last
    BY HttpFacts
  <1>1. /\ httpCaller' \in {"idle", "trapped"} /\ ctrl' = "IDLE"
        /\ what # "echo" => httpCaller' = "idle"
        /\ returned' = [returned EXCEPT ![n] = what]
        /\ jar' = IF enabled THEN jar \cup cookies ELSE jar
        /\ lastResponse' = IF what \in {"own", "other"} THEN buffer.of ELSE 0
        /\ UNCHANGED <<enabled, since, maxRedirects, last, buffer, length, mailbox, exec,
                       writing, writes, raced, httpHurried>>
    BY <1>e DEF Http!Return, Http!applyCookieUpdates, Http!worker
  <1>2. /\ n \in Http!Calls /\ returned[n] = "none" /\ since <= n /\ timeouts' \in Nat
        /\ timeouts' = 0 => timeouts = 0
    <2>1. httpCaller \in Busy
      BY DEF Busy
    <2>2. last >= 1 /\ since <= last
      BY <1>0, <2>1 DEF HopsCounted
    <2>3. n \in Http!Calls /\ since <= n
      BY <1>e, <2>2, HttpFacts
    <2>4. returned[n] = "none"
      BY <1>0, <1>e, <2>1, <2>3 DEF HopsCounted
    <2> QED
      BY <2>3, <2>4, HttpFacts
  <1>3. /\ returned'[n] = what /\ \A c \in Http!Calls : c # n => returned'[c] = returned[c]
        /\ returned' \in [Http!Calls -> {"none", "own", "other", "echo", "error"}]
    BY <1>1, <1>2, HttpFacts
  <1>9. httpCaller' \notin Busy /\ httpCaller # "written" /\ httpCaller' # "written"
    BY <1>1 DEF Busy
  <1>4. HttpTypes'
    <2>1. jar' \subseteq Http!Calls /\ lastResponse' \in 0 .. HttpCalls
      BY <1>1, HttpFacts
    <2> QED
      BY <1>0, <1>1, <1>2, <1>3, <2>1 DEF HttpTypes, Http!TypeOK
  <1>5. HopsCounted'
    <2>1. ASSUME NEW c \in Http!Calls, c > last PROVE returned'[c] = "none"
      BY <1>0, <1>3, <1>e, <2>1, HttpFacts DEF HopsCounted
    <2> QED
      BY <1>0, <1>1, <1>9, <2>1 DEF HopsCounted
  <1>6. ASSUME ~raced PROVE LastUnderWay' /\ BufferOfLast' /\ ClientExact'
    <2>1. LastUnderWay'
      <3>1. exec[n].state # "none"
        BY <1>0, <1>2, <1>6, <1>e DEF LastUnderWay
      <3>2. httpCaller' \notin {"waiting", "blocked", "woken"}
        BY <1>1
      <3> QED
        BY <1>0, <1>1, <1>6, <1>9, <1>e, <3>1, <3>2 DEF LastUnderWay
    <2>2. BufferOfLast'
      BY <1>0, <1>1, <1>6, <1>9 DEF BufferOfLast
    <2>3. Http!JarExact'
      <3>1. jar = IF enabled THEN {c \in since .. n : returned[c] = "own" /\ exec[c].cookie}
                             ELSE {}
        BY <1>0, <1>6, <1>e DEF ClientExact, Http!JarExact
      <3>2. {c \in since .. n : returned'[c] = "own" /\ exec[c].cookie}
               = {c \in since .. n : returned[c] = "own" /\ exec[c].cookie} \cup cookies
        <4>1. \A c \in since .. n : c \in Http!Calls
          BY <1>e, HttpFacts
        <4>2. n \in since .. n
          BY <1>2, <1>e, HttpFacts
        <4>3. CASE what = "own"
          <5>1. cookies = IF exec[n].cookie THEN {n} ELSE {}
            BY <1>6, <1>e, <4>3
          <5> QED
            BY <1>2, <1>3, <4>1, <4>2, <4>3, <5>1
        <4>4. CASE what \in {"echo", "error"}
          BY <1>2, <1>3, <1>6, <4>1, <4>4
        <4> QED
          BY <1>6, <4>3, <4>4
      <3> QED
        BY <1>1, <1>e, <3>1, <3>2 DEF Http!JarExact
    <2>4. ASSUME NEW c \in Http!Calls
          PROVE  /\ returned'[c] # "other" /\ (returned'[c] = "echo" => c \in httpHurried)
                 /\ returned'[c] = "own" => exec[c].state = "done"
                 /\ returned'[c] = "error" /\ timeouts' = 0 /\ c \notin httpHurried =>
                       exec[c].state = "done" /\ ~exec[c].ok
      <3>1. CASE c = n
        BY <1>3, <1>6, <1>e, <3>1
      <3>2. CASE c # n
        BY <1>0, <1>2, <1>3, <1>6, <3>2 DEF ClientExact
      <3> QED
        BY <3>1, <3>2
    <2>5. lastResponse' # 0 => lastResponse' = last /\ httpCaller' = "idle"
      BY <1>1, <1>6
    <2> QED
      BY <1>1, <2>1, <2>2, <2>3, <2>4, <2>5 DEF ClientExact
  <1> QED
    BY <1>1, <1>4, <1>5, <1>6 DEF HttpInv

LEMMA CallerWakes == ASSUME HttpInv, Http!Receive \/ Http!TimesOut PROVE HttpInv'
  <1>0. HttpTypes /\ HopsCounted /\ (~raced => LastUnderWay /\ BufferOfLast /\ ClientExact)
    BY DEF HttpInv
  <1>1. CASE Http!TimesOut
    <2>1. /\ Http!Return("error", {}) /\ timeouts' = timeouts + 1 /\ httpCaller = "blocked"
          /\ timeouts' # 0
      BY <1>1, HttpFacts DEF Http!TimesOut
    <2> QED
      BY <2>1, ReturnStep
  <1>2. CASE Http!Receive
    <2>1. httpCaller = "woken" /\ timeouts' = timeouts /\ last \in Http!Calls
      <3>1. httpCaller = "woken" /\ timeouts' = timeouts
        BY <1>2 DEF Http!Receive
      <3> QED
        BY <1>0, <3>1, HttpFacts DEF HopsCounted, Busy
    <2>2. ASSUME ~raced
          PROVE  /\ buffer.of = last
                 /\ buffer.kind = "response" => exec[last].state = "done"
                 /\ last \notin httpHurried => buffer.kind = "response" /\ buffer = length
      <3>1. exec[last].state # "done" => buffer = Asked(last)
        BY <1>0, <2>1, <2>2 DEF BufferOfLast
      <3>2. exec[last].state = "done" => buffer \in {Asked(last), Answered(last)}
        BY <1>0, <2>1, <2>2 DEF BufferOfLast
      <3>3. ASSUME last \notin httpHurried
            PROVE  buffer = Answered(last) /\ length = Answered(last)
        <4>1. exec[last].state = "done" /\ (writing = 0 \/ writes = Notified)
          BY <1>0, <2>1, <2>2, <3>3 DEF LastUnderWay, Complete
        <4>2. writes \notin {Written, Measured}
          <5>1. <<>> # Written /\ <<>> # Measured /\ Notified # Written /\ Notified # Measured
            BY DEF Notified, Written, Measured
          <5> QED
            BY <4>1, <5>1, HttpFacts
        <4> QED
          BY <1>0, <2>1, <2>2, <4>1, <4>2 DEF BufferOfLast
      <3>4. /\ Asked(last).kind = "request" /\ Asked(last).of = last
            /\ Answered(last).kind = "response" /\ Answered(last).of = last
        BY DEF Asked, Answered
      <3> QED
        BY <3>1, <3>2, <3>3, <3>4
    <2>3. ASSUME Http!Return("echo", {}), buffer.kind = "request" PROVE HttpInv'
      <3>1. ~raced => last \in httpHurried
        BY <2>2, <2>3
      <3> QED
        BY <2>1, <2>3, <3>1, ReturnStep
    <2>4. ASSUME Http!Return("error", {}),
                 buffer # length \/ (buffer.kind # "request" /\ ~(buffer.of # 0 /\ exec[buffer.of].ok))
          PROVE  HttpInv'
      <3>1. ~raced /\ last \notin httpHurried => exec[last].state = "done" /\ ~exec[last].ok
        <4>1. last # 0
          BY <2>1, HttpFacts
        <4> QED
          BY <2>2, <2>4, <4>1
      <3> QED
        BY <2>1, <2>4, <3>1, ReturnStep
    <2>5. ASSUME buffer.kind # "request", buffer.of # 0,
                 Http!Return(IF buffer.of = last THEN "own" ELSE "other",
                             IF exec[buffer.of].cookie THEN {buffer.of} ELSE {})
          PROVE  HttpInv'
      <3> DEFINE what == IF buffer.of = last THEN "own" ELSE "other"
                 cookies == IF exec[buffer.of].cookie THEN {buffer.of} ELSE {}
      <3>1. Http!Return(what, cookies)
        BY <2>5
      <3>2. cookies \subseteq Http!Calls /\ what \in {"own", "other", "echo", "error"}
        BY <2>5, HttpFacts
      <3>3. ~raced => /\ what = "own" /\ exec[last].state = "done" /\ buffer.of = last
                      /\ cookies = IF exec[last].cookie THEN {last} ELSE {}
        BY <2>2, <2>5, HttpFacts
      <3> HIDE DEF what, cookies
      <3> QED
        BY <2>1, <3>1, <3>2, <3>3, ReturnStep
    <2> QED
      BY <1>2, <2>3, <2>4, <2>5 DEF Http!Receive
  <1> QED
    BY <1>1, <1>2

\* An execution goes on; when it is done the response is being written.
LEMMA ExecutionStep ==
    ASSUME HttpInv, NEW c \in Http!Calls, NEW e \in Execs, exec' = [exec EXCEPT ![c] = e],
           exec[c].state \in {"queued", "running", "answered"},
           e.state \in {"running", "answered", "done"},
           e.hops <= Redirects + 1, e.state = "running" => e.hops + e.left <= Redirects,
           ~raced /\ e.state # "done" => e.of = c,
           mailbox' \in Seq(Http!Calls),
           \A i \in 1 .. Len(mailbox') : exec'[mailbox'[i]].state = "queued",
           \A i, j \in 1 .. Len(mailbox') : mailbox'[i] = mailbox'[j] => i = j,
           \/ e.state # "done" /\ writing' = writing /\ writes' = writes
           \/ /\ e.state = "done" /\ writing = 0 /\ writing' = c
              /\ writes' = Written,
           UNCHANGED <<enabled, jar, since, maxRedirects, lastResponse, httpCaller, last,
                       ctrl, buffer, length, returned, timeouts, raced, httpHurried>>
    PROVE  HttpInv'
  <1>0. HttpTypes /\ HopsCounted /\ (~raced => LastUnderWay /\ BufferOfLast /\ ClientExact)
    BY DEF HttpInv
  <1>1. /\ exec'[c] = e /\ \A d \in Http!Calls : d # c => exec'[d] = exec[d]
        /\ exec' \in [Http!Calls -> Execs]
    BY HttpFacts
  <1>2. HttpTypes'
    <2>1. c # 0 /\ c \in 0 .. HttpCalls
      BY HttpFacts
    <2>2. /\ writing' \in 0 .. HttpCalls
          /\ writes' \in {<<>>, Notified, Flagged, Measured, Written}
          /\ (writing' = 0) = (writes' = <<>>)
      <3>1. Written # <<>>
        BY DEF Written
      <3>2. CASE writing' = writing /\ writes' = writes
        <4>1. /\ writing \in 0 .. HttpCalls /\ (writing = 0 <=> writes = <<>>)
              /\ writes \in {<<>>, Notified, Flagged, Measured, Written}
          BY HttpFacts
        <4> QED
          BY <3>2, <4>1
      <3>3. CASE writing' = c /\ writes' = Written
        BY <2>1, <3>1, <3>3
      <3> QED
        BY <3>2, <3>3
    <2> QED
      BY <1>0, <1>1, <2>2 DEF HttpTypes, Http!TypeOK
  <1>3. HopsCounted'
    <2>1. ~(c > last \/ (c = last /\ httpCaller = "written"))
      BY <1>0 DEF HopsCounted
    <2>2. ASSUME NEW d \in Http!Calls
          PROVE  /\ d > last \/ (d = last /\ httpCaller = "written") =>
                       exec'[d].state = "none"
                 /\ exec'[d].state = "none" => exec'[d].hops = 0
                 /\ exec'[d].state \in {"none", "queued", "running"} =>
                       exec'[d].hops + exec'[d].left <= Redirects
                 /\ exec'[d].hops <= Redirects + 1
      <3>1. CASE d = c
        BY <1>1, <2>1, <3>1
      <3>2. CASE d # c
        BY <1>0, <1>1, <3>2 DEF HopsCounted
      <3> QED
        BY <3>1, <3>2
    <2> QED
      BY <1>0, <2>2 DEF HopsCounted
  <1>4. ASSUME ~raced PROVE LastUnderWay' /\ BufferOfLast' /\ ClientExact'
    <2>1. c = last /\ httpCaller # "written"
      BY <1>0, <1>4 DEF LastUnderWay, HopsCounted
    <2>2. LastUnderWay'
      <3>1. \A d \in Http!Calls :
               /\ d # last => /\ exec'[d].state \in {"none", "done"}
                              /\ writing' # d \/ writes' = Notified
               /\ d = last /\ exec'[d].state = "none" => httpCaller = "written"
               /\ writing' = d => exec'[d].state = "done"
        <4>1. c # 0 /\ writing # c
          BY <1>0, <1>4, HttpFacts DEF LastUnderWay
        <4> QED
          BY <1>0, <1>1, <1>4, <2>1, <4>1 DEF LastUnderWay
      <3>2. /\ ~(httpCaller \in {"waiting", "blocked"} /\ ctrl # "PENDING")
            /\ httpCaller = "woken" => last \in httpHurried
        BY <1>0, <1>4, <2>1 DEF LastUnderWay, Complete
      <3>3. writes' = Notified => writing' = writing /\ writes = Notified
        BY DEF Notified, Written
      <3>4. writes' = Notified =>
               writing' = last \/ last \in httpHurried \/ httpCaller \notin Busy
        BY <1>0, <1>4, <3>3 DEF LastUnderWay
      <3> QED
        BY <3>1, <3>2, <3>4 DEF LastUnderWay
    <2>3. BufferOfLast'
      <3>1. buffer = Asked(c) /\ length = Asked(c)
        BY <1>0, <1>4, <2>1 DEF BufferOfLast
      <3>2. e.state = "done" => writes' = Written
        OBVIOUS
      <3> QED
        BY <1>1, <1>4, <2>1, <3>1, <3>2 DEF BufferOfLast
    <2>4. ClientExact'
      <3>1. /\ returned[c] # "own"
            /\ returned[c] = "error" => timeouts # 0 \/ c \in httpHurried
        BY <1>0, <1>4 DEF ClientExact
      <3>2. \A d \in Http!Calls :
               /\ returned[d] # "other" /\ (returned[d] = "echo" => d \in httpHurried)
               /\ returned[d] = "own" => exec'[d].state = "done"
               /\ returned[d] = "error" /\ timeouts = 0 /\ d \notin httpHurried =>
                     exec'[d].state = "done" /\ ~exec'[d].ok
        BY <1>0, <1>1, <1>4, <3>1 DEF ClientExact
      <3>3. {d \in since .. last : returned[d] = "own" /\ exec'[d].cookie}
               = {d \in since .. last : returned[d] = "own" /\ exec[d].cookie}
        <4>1. \A d \in since .. last : d \in Http!Calls
          BY HttpFacts
        <4> QED
          BY <1>1, <3>1, <4>1
      <3> QED
        BY <1>0, <1>4, <3>2, <3>3 DEF ClientExact, Http!JarExact
    <2> QED
      BY <2>2, <2>3, <2>4
  <1> QED
    BY <1>2, <1>3, <1>4 DEF HttpInv

\* The worker takes a request out of its mailbox and reads the buffer.
LEMMA ReadRequestStep == ASSUME HttpInv, Http!ReadRequest PROVE HttpInv'
  <1>0. HttpTypes /\ HopsCounted /\ (~raced => LastUnderWay /\ BufferOfLast /\ ClientExact)
    BY DEF HttpInv
  <1>e. PICK c : c = Head(mailbox)
    OBVIOUS
  <1>w. PICK whole \in {TRUE, buffer = length} :
           exec' = [exec EXCEPT
                       ![c].state = IF whole /\ buffer.kind = "request" THEN "running"
                                    ELSE "answered",
                       ![c].of = IF whole /\ buffer.kind = "request" THEN buffer.of ELSE 0]
    BY <1>e DEF Http!ReadRequest
  <1> DEFINE ok == whole /\ buffer.kind = "request"
             e == [exec[c] EXCEPT !.state = IF ok THEN "running" ELSE "answered",
                                  !.of = IF ok THEN buffer.of ELSE 0]
  <1>1. /\ mailbox # <<>> /\ mailbox' = Tail(mailbox)
        /\ UNCHANGED <<enabled, jar, since, maxRedirects, lastResponse, httpCaller, last,
                       ctrl, buffer, length, writing, writes, returned, timeouts, raced,
                       httpHurried>>
    BY DEF Http!ReadRequest, Http!client
  <1>2. /\ Len(mailbox) \in Nat /\ Len(mailbox) >= 1 /\ c = mailbox[1]
        /\ mailbox' \in Seq(Http!Calls) /\ Len(mailbox') = Len(mailbox) - 1
        /\ \A i \in 1 .. Len(mailbox') : mailbox'[i] = mailbox[i + 1]
        /\ \A i \in 1 .. Len(mailbox) : mailbox[i] \in Http!Calls
    <2>1. mailbox \in Seq(Http!Calls) /\ mailbox # <<>>
      BY <1>1, HttpFacts
    <2>2. /\ Len(mailbox) \in Nat /\ Len(mailbox) >= 1 /\ Head(mailbox) = mailbox[1]
          /\ Tail(mailbox) \in Seq(Http!Calls) /\ Len(Tail(mailbox)) = Len(mailbox) - 1
          /\ \A i \in 1 .. Len(Tail(mailbox)) : Tail(mailbox)[i] = mailbox[i + 1]
      BY <2>1
    <2>3. \A i \in 1 .. Len(mailbox) : mailbox[i] \in Http!Calls
      BY <2>1, ElementOfSeq
    <2> QED
      BY <1>1, <1>e, <2>2, <2>3
  <1>3. c \in Http!Calls /\ exec[c].state = "queued" /\ exec[c] \in Execs
    BY <1>0, <1>2, HttpFacts DEF HopsCounted
  <1>4. exec' = [exec EXCEPT ![c] = e]
    BY <1>3, <1>w, HttpFacts
  <1>5. e \in Execs /\ e.state \in {"running", "answered"} /\ e.hops = exec[c].hops
        /\ e.left = exec[c].left /\ e.of = IF ok THEN buffer.of ELSE 0
    <2> DEFINE next == IF ok THEN "running" ELSE "answered"
               of == IF ok THEN buffer.of ELSE 0
    <2>1. next \in {"running", "answered"} /\ of \in 0 .. HttpCalls
      BY HttpFacts
    <2> HIDE DEF next, of
    <2>2. e = [exec[c] EXCEPT !.state = next, !.of = of]
      BY DEF next, of
    <2> HIDE DEF e
    <2>3. /\ e \in Execs /\ e.state = next /\ e.hops = exec[c].hops
          /\ e.left = exec[c].left /\ e.of = of
      BY <1>3, <2>1, <2>2 DEF Execs
    <2> QED
      BY <2>1, <2>3 DEF of
  <1>6. ~raced => e.of = c
    <2>1. ASSUME ~raced PROVE buffer = Asked(c) /\ length = Asked(c)
      <3>1. c = last /\ httpCaller # "written"
        BY <1>0, <1>3, <2>1 DEF LastUnderWay, HopsCounted
      <3> QED
        BY <1>0, <1>3, <2>1, <3>1 DEF BufferOfLast
    <2>2. ASSUME ~raced PROVE ok /\ buffer.of = c
      <3>1. buffer = Asked(c) /\ length = Asked(c)
        BY <2>1, <2>2
      <3>2. Asked(c).kind = "request" /\ Asked(c).of = c
        BY DEF Asked
      <3>3. buffer.kind = "request" /\ buffer.of = c /\ buffer = length
        BY <3>1, <3>2
      <3>4. whole
        BY <3>3, Zenon
      <3> QED
        BY <3>3, <3>4
    <2> QED
      BY <1>5, <2>2
  <1>7. \A i \in 1 .. Len(mailbox') : exec'[mailbox'[i]].state = "queued"
    <2>1. ASSUME NEW i \in 1 .. Len(mailbox') PROVE exec'[mailbox'[i]].state = "queued"
      <3>1. i + 1 \in 1 .. Len(mailbox) /\ 1 \in 1 .. Len(mailbox) /\ i + 1 # 1
        BY <1>2
      <3>2. mailbox[i + 1] # mailbox[1] /\ exec[mailbox[i + 1]].state = "queued"
        BY <1>0, <3>1 DEF HopsCounted
      <3>3. mailbox'[i] \in Http!Calls /\ mailbox'[i] # c /\ exec[mailbox'[i]].state = "queued"
        BY <1>2, <3>1, <3>2
      <3> HIDE DEF e
      <3> QED
        BY <1>4, <3>3
    <2> QED
      BY <2>1
  <1>8. \A i, j \in 1 .. Len(mailbox') : mailbox'[i] = mailbox'[j] => i = j
    <2>1. ASSUME NEW i \in 1 .. Len(mailbox'), NEW j \in 1 .. Len(mailbox'),
                 mailbox'[i] = mailbox'[j]
          PROVE  i = j
      <3>1. i + 1 \in 1 .. Len(mailbox) /\ j + 1 \in 1 .. Len(mailbox)
            /\ mailbox[i + 1] = mailbox[j + 1]
        BY <1>2, <2>1
      <3>2. i + 1 = j + 1
        BY <1>0, <3>1 DEF HopsCounted
      <3> QED
        BY <3>2
    <2> QED
      BY <2>1
  <1>9. e.hops + e.left <= Redirects /\ e.hops <= Redirects + 1
    BY <1>0, <1>3, <1>5 DEF HopsCounted
  <1> HIDE DEF e
  <1> QED
    BY <1>1, <1>2, <1>3, <1>4, <1>5, <1>6, <1>7, <1>8, <1>9, ExecutionStep

\* One hop, which may be the last.
LEMMA HopStep ==
    ASSUME HttpInv, NEW c \in Http!Calls, Http!Redirected(c) \/ Http!executeRequest(c)
    PROVE  HttpInv'
  <1>0. HttpTypes /\ HopsCounted /\ (~raced => LastUnderWay /\ BufferOfLast /\ ClientExact)
    BY DEF HttpInv
  <1>1. /\ exec[c].state = "running"
        /\ UNCHANGED <<enabled, jar, since, maxRedirects, lastResponse, httpCaller, last,
                       ctrl, buffer, length, mailbox, writing, writes, returned, timeouts,
                       raced, httpHurried>>
    BY DEF Http!Redirected, Http!executeRequest, Http!client, Http!channel
  <1>2. /\ exec[c] \in Execs /\ exec[c].hops \in Nat /\ exec[c].left \in Nat
        /\ exec[c].hops + exec[c].left <= Redirects /\ Redirects \in Nat
    BY <1>0, <1>1, HttpFacts DEF HopsCounted, Execs
  <1>3. ~raced => exec[c].of = c
    BY <1>0, <1>1 DEF LastUnderWay, BufferOfLast
  <1>4. PICK e \in Execs :
           /\ exec' = [exec EXCEPT ![c] = e] /\ e.state \in {"running", "answered"}
           /\ e.of = exec[c].of /\ e.hops <= Redirects + 1
           /\ e.state = "running" => e.hops + e.left <= Redirects
    <2>1. CASE Http!Redirected(c)
      <3>1. PICK set \in BOOLEAN :
               exec' = [exec EXCEPT ![c] = Http!followRedirect(exec[c], set /\ exec[c].of = c)]
        BY <2>1 DEF Http!Redirected
      <3>2. PICK cookie \in BOOLEAN : cookie = (exec[c].cookie \/ (set /\ exec[c].of = c))
        BY <1>2, Zenon DEF Execs
      <3>3. exec[c].left > 0 /\ exec[c].left - 1 \in Nat /\ exec[c].hops + 1 \in Nat
        BY <1>2, <2>1 DEF Http!Redirected
      <3>4. PICK e : e = [exec[c] EXCEPT !.left = @ - 1, !.hops = @ + 1, !.cookie = cookie]
        OBVIOUS
      <3>5. exec' = [exec EXCEPT ![c] = e]
        BY <3>1, <3>2, <3>4, Zenon DEF Http!followRedirect
      <3>6. /\ e \in Execs /\ e.state = exec[c].state /\ e.of = exec[c].of
            /\ e.hops = exec[c].hops + 1 /\ e.left = exec[c].left - 1
        BY <1>2, <3>3, <3>4 DEF Execs
      <3>7. e.hops + e.left <= Redirects /\ e.hops <= Redirects + 1
        BY <1>2, <3>3, <3>6
      <3> QED
        BY <1>1, <3>5, <3>6, <3>7
    <2>2. CASE Http!executeRequest(c)
      <3>1. PICK ok \in BOOLEAN, set \in BOOLEAN :
               exec' = [exec EXCEPT ![c].state = "answered", ![c].ok = ok,
                            ![c].cookie = ok /\ (@ \/ set) /\ exec[c].of = c,
                            ![c].hops = @ + 1]
        BY <2>2 DEF Http!executeRequest
      <3>2. PICK cookie \in BOOLEAN :
               cookie = (ok /\ (exec[c].cookie \/ set) /\ exec[c].of = c)
        BY <1>2, Zenon DEF Execs
      <3>3. exec[c].hops + 1 \in Nat
        BY <1>2
      <3>4. PICK e : e = [exec[c] EXCEPT !.state = "answered", !.ok = ok,
                              !.cookie = cookie, !.hops = @ + 1]
        OBVIOUS
      <3>5. exec' = [exec EXCEPT ![c] = e]
        BY <3>1, <3>2, <3>4, HttpFacts
      <3>6. /\ e \in Execs /\ e.state = "answered" /\ e.of = exec[c].of
            /\ e.hops = exec[c].hops + 1
        BY <1>2, <3>3, <3>4 DEF Execs
      <3>7. e.hops <= Redirects + 1 /\ e.state # "running"
        BY <1>2, <3>3, <3>6
      <3> QED
        BY <3>5, <3>6, <3>7
    <2> QED
      BY <2>1, <2>2
  <1>5. /\ mailbox' \in Seq(Http!Calls)
        /\ \A i, j \in 1 .. Len(mailbox') : mailbox'[i] = mailbox'[j] => i = j
    BY <1>0, <1>1, HttpFacts DEF HopsCounted
  <1>6. \A i \in 1 .. Len(mailbox') : exec'[mailbox'[i]].state = "queued"
    <2>1. \A i \in 1 .. Len(mailbox) :
             mailbox[i] \in Http!Calls /\ exec[mailbox[i]].state = "queued"
      BY <1>0, HttpFacts, ElementOfSeq DEF HopsCounted
    <2> QED
      BY <1>1, <1>4, <2>1, HttpFacts
  <1> QED
    BY <1>1, <1>3, <1>4, <1>5, <1>6, ExecutionStep

\* The response is about to be written.
LEMMA ResponseStep ==
    ASSUME HttpInv, NEW c \in Http!Calls, Http!writeResponse(c) PROVE HttpInv'
  <1>0. HttpTypes /\ HopsCounted
    BY DEF HttpInv
  <1>1. /\ exec[c].state = "answered" /\ writing = 0 /\ writing' = c
        /\ writes' = Written
        /\ UNCHANGED <<enabled, jar, since, maxRedirects, lastResponse, httpCaller, last,
                       ctrl, buffer, length, mailbox, returned, timeouts, raced, httpHurried>>
    BY DEF Http!writeResponse, Http!writeOrder, Http!client, Http!channel, Written
  <1>2. exec[c] \in Execs /\ exec[c].hops <= Redirects + 1
    BY <1>0, HttpFacts DEF HopsCounted
  <1>3. PICK e \in Execs : /\ exec' = [exec EXCEPT ![c] = e] /\ e.state = "done"
                           /\ e.hops = exec[c].hops
    <2>1. PICK fits \in BOOLEAN :
             exec' = [exec EXCEPT ![c].state = "done", ![c].ok = @ /\ fits]
      BY DEF Http!writeResponse
    <2>2. PICK ok \in BOOLEAN : ok = (exec[c].ok /\ fits)
      BY <1>2, Zenon DEF Execs
    <2>3. PICK e : e = [exec[c] EXCEPT !.state = "done", !.ok = ok]
      OBVIOUS
    <2>4. exec' = [exec EXCEPT ![c] = e]
      BY <2>1, <2>2, <2>3, HttpFacts
    <2>5. e \in Execs /\ e.state = "done" /\ e.hops = exec[c].hops
      BY <1>2, <2>3 DEF Execs
    <2> QED
      BY <2>4, <2>5
  <1>4. /\ mailbox' \in Seq(Http!Calls)
        /\ \A i, j \in 1 .. Len(mailbox') : mailbox'[i] = mailbox'[j] => i = j
    BY <1>0, <1>1, HttpFacts DEF HopsCounted
  <1>5. \A i \in 1 .. Len(mailbox') : exec'[mailbox'[i]].state = "queued"
    <2>1. \A i \in 1 .. Len(mailbox) :
             mailbox[i] \in Http!Calls /\ exec[mailbox[i]].state = "queued"
      BY <1>0, HttpFacts, ElementOfSeq DEF HopsCounted
    <2> QED
      BY <1>1, <1>3, <2>1, HttpFacts
  <1> QED
    BY <1>1, <1>2, <1>3, <1>4, <1>5, ExecutionStep

\* What is left to be written, one step after the other.
LEMMA WriteFacts ==
    /\ Head(Written) = "data" /\ Tail(Written) = Measured /\ Len(Written) = 4
    /\ Head(Measured) = "length" /\ Tail(Measured) = Flagged /\ Len(Measured) = 3
    /\ Head(Flagged) = "flag" /\ Tail(Flagged) = Notified /\ Len(Flagged) = 2
    /\ Head(Notified) = "notify" /\ Tail(Notified) = <<>> /\ Len(Notified) = 1
    /\ Written \notin {Measured, Flagged, Notified, <<>>}
    /\ Measured \notin {Flagged, Notified, <<>>} /\ Flagged \notin {Notified, <<>>}
    /\ Notified # <<>>
  BY DEF Written, Measured, Flagged, Notified

\* The response is put into the buffer and its length stored, then the flag is set and
\* the caller notified.
LEMMA WriteStep == ASSUME HttpInv, Http!Write PROVE HttpInv'
  <1>0. HttpTypes /\ HopsCounted /\ (~raced => LastUnderWay /\ BufferOfLast /\ ClientExact)
    BY DEF HttpInv
  <1>1. /\ writing # 0
        /\ UNCHANGED <<enabled, jar, since, maxRedirects, lastResponse, last, mailbox, exec,
                       returned, timeouts, raced, httpHurried>>
    BY DEF Http!Write, Http!client
  <1>2. /\ writing \in Http!Calls /\ writing \in 0 .. HttpCalls
        /\ writes \in {Notified, Flagged, Measured, Written}
    <2>1. writes # <<>>
      BY <1>1, HttpFacts
    <2> QED
      BY <1>1, <2>1, HttpFacts
  <1>3. CASE writes # Notified
    <2>1. /\ writes' \in {Notified, Flagged, Measured} /\ writing' = writing
          /\ httpCaller' = httpCaller
          /\ buffer' = IF writes = Written THEN Answered(writing) ELSE buffer
          /\ length' = IF writes = Measured THEN Answered(writing) ELSE length
          /\ ctrl' = IF writes = Flagged THEN "DONE" ELSE ctrl
          /\ writes = Written => writes' = Measured
          /\ writes = Measured => writes' = Flagged
          /\ writes = Flagged => writes' = Notified
      <3>1. CASE writes = Written
        BY <3>1, WriteFacts DEF Http!Write, Answered
      <3>2. CASE writes = Measured
        BY <3>2, WriteFacts DEF Http!Write, Answered
      <3>3. CASE writes = Flagged
        BY <3>3, WriteFacts DEF Http!Write, Answered
      <3> QED
        BY <1>2, <1>3, <3>1, <3>2, <3>3
    <2>2. HttpTypes'
      <3>1. /\ buffer' \in Buffers /\ buffer'.kind \in {"request", "response"}
            /\ length' \in Buffers /\ length'.kind \in {"request", "response"}
        <4>1. Answered(writing) \in Buffers /\ Answered(writing).kind = "response"
          BY <1>2 DEF Buffers, Answered
        <4> QED
          BY <1>0, <2>1, <4>1 DEF HttpTypes, Http!TypeOK
      <3>2. (writing' = 0) = (writes' = <<>>)
        BY <1>1, <2>1, WriteFacts
      <3>3. ctrl' \in {"IDLE", "PENDING", "DONE"}
        BY <2>1, HttpFacts
      <3> QED
        BY <1>0, <1>1, <2>1, <3>1, <3>2, <3>3 DEF HttpTypes, Http!TypeOK
    <2>3. HopsCounted'
      BY <1>0, <1>1, <2>1 DEF HopsCounted
    <2>4. ASSUME ~raced PROVE LastUnderWay' /\ BufferOfLast' /\ ClientExact'
      <3>1. writing = last /\ exec[last].state = "done"
        BY <1>0, <1>2, <1>3, <2>4 DEF LastUnderWay
      <3>2. LastUnderWay'
        <4>1. /\ httpCaller \in {"waiting", "blocked"} /\ ctrl' # "PENDING" => writes' = Notified
              /\ httpCaller = "woken" => last \in httpHurried
          BY <1>0, <1>1, <1>3, <2>1, <2>4 DEF LastUnderWay, Complete
        <4> QED
          BY <1>0, <1>1, <2>1, <2>4, <3>1, <4>1 DEF LastUnderWay, Complete
      <3>3. BufferOfLast'
        <4>1. /\ buffer = IF writes = Written THEN Asked(last) ELSE Answered(last)
              /\ length = IF writes \in {Written, Measured} THEN Asked(last)
                          ELSE Answered(last)
          BY <1>0, <1>2, <2>4, <3>1 DEF BufferOfLast
        <4>2. /\ buffer' = IF writes' = Written THEN Asked(last) ELSE Answered(last)
              /\ length' = IF writes' \in {Written, Measured} THEN Asked(last)
                           ELSE Answered(last)
          BY <1>2, <1>3, <2>1, <3>1, <4>1, WriteFacts
        <4> QED
          BY <1>1, <3>1, <4>2 DEF BufferOfLast
      <3>4. ClientExact'
        BY <1>0, <1>1, <2>1, <2>4 DEF ClientExact, Http!JarExact
      <3> QED
        BY <3>2, <3>3, <3>4
    <2> QED
      BY <1>1, <2>2, <2>3, <2>4 DEF HttpInv
  <1>4. CASE writes = Notified
    <2>1. /\ buffer' = buffer /\ length' = length /\ ctrl' = ctrl
          /\ writes' = <<>> /\ writing' = 0
          /\ httpCaller' = IF httpCaller = "blocked" THEN "woken" ELSE httpCaller
      BY <1>4, WriteFacts DEF Http!Write
    <2>2. HttpTypes'
      <3>1. /\ writing' \in 0 .. HttpCalls /\ ((writing' = 0) = (writes' = <<>>))
            /\ writes' \in {<<>>, Notified, Flagged, Measured, Written}
        BY <2>1, HttpFacts
      <3> QED
        BY <1>0, <1>1, <2>1, <3>1 DEF HttpTypes, Http!TypeOK
    <2>3. HopsCounted'
      BY <1>0, <1>1, <2>1 DEF HopsCounted, Busy
    <2>4. ASSUME ~raced PROVE LastUnderWay' /\ BufferOfLast' /\ ClientExact'
      <3>1. exec[writing].state = "done"
        BY <1>0, <1>2, <2>4 DEF LastUnderWay
      <3>2. LastUnderWay'
        <4>1. \A c \in Http!Calls : c # 0
          BY HttpFacts
        <4>2. httpCaller \in {"blocked", "woken"} =>
                 exec[last].state = "done" \/ last \in httpHurried
          BY <1>0, <1>4, <2>4, <3>1 DEF LastUnderWay, Complete, Busy
        <4>3. httpCaller = "waiting" /\ ctrl # "PENDING" => exec[last].state = "done"
          BY <1>0, <2>4 DEF LastUnderWay, Complete
        <4> QED
          BY <1>0, <1>1, <2>1, <2>4, <4>1, <4>2, <4>3, WriteFacts DEF LastUnderWay, Complete
      <3>3. BufferOfLast'
        BY <1>0, <1>1, <1>4, <2>1, <2>4, WriteFacts DEF BufferOfLast
      <3>4. ClientExact'
        BY <1>0, <1>1, <2>1, <2>4 DEF ClientExact, Http!JarExact
      <3> QED
        BY <3>2, <3>3, <3>4
    <2> QED
      BY <1>1, <2>2, <2>3, <2>4 DEF HttpInv
  <1> QED
    BY <1>3, <1>4

LEMMA HttpInit == ASSUME Http!Init PROVE HttpInv
  <1>0. HttpCalls \in Nat /\ Redirects \in Nat /\ Http!Calls = 1 .. HttpCalls
    BY HttpAssumption DEF Http!Calls
  <1>1. HttpTypes
    <2>1. Http!Unread \in Execs /\ Http!Empty \in Buffers
      BY <1>0 DEF Http!Unread, Http!Empty, Execs, Buffers
    <2>2. /\ maxRedirects \in 0 .. Redirects
          /\ httpCaller = "idle" /\ last \in 0 .. HttpCalls /\ httpHurried \subseteq Http!Calls
          /\ ctrl \in {"IDLE", "PENDING", "DONE"}
      BY <1>0 DEF Http!Init
    <2>6. mailbox \in Seq(Http!Calls)
      BY DEF Http!Init
    <2>7. enabled \in BOOLEAN /\ jar \subseteq Http!Calls
      BY DEF Http!Init
    <2>3. /\ buffer.kind \in {"request", "response"} /\ length.kind \in {"request", "response"}
          /\ writing \in 0 .. HttpCalls
          /\ returned \in [Http!Calls -> {"none", "own", "other", "echo", "error"}]
      BY <1>0 DEF Http!Init, Http!Empty
    <2>4. /\ lastResponse \in 0 .. HttpCalls /\ since \in 1 .. last + 1 /\ buffer \in Buffers
          /\ length \in Buffers /\ exec \in [Http!Calls -> Execs]
      BY <1>0, <2>1 DEF Http!Init
    <2>5. /\ writes \in {<<>>, Notified, Flagged, Measured, Written}
          /\ timeouts \in Nat /\ raced \in BOOLEAN /\ (writing = 0) = (writes = <<>>)
      BY DEF Http!Init
    <2> QED
      BY <2>2, <2>3, <2>4, <2>5, <2>6, <2>7 DEF HttpTypes, Http!TypeOK
  <1>2. /\ \A c \in Http!Calls : exec[c] = Http!Unread /\ returned[c] = "none" /\ c # 0
        /\ mailbox = <<>> /\ httpCaller = "idle" /\ writing = 0 /\ last = 0 /\ writes = <<>>
        /\ lastResponse = 0 /\ jar = {} /\ enabled = FALSE
    BY <1>0 DEF Http!Init
  <1>3. HopsCounted
    <2>1. 1 .. Len(mailbox) = {}
      BY <1>2
    <2>2. \A c \in Http!Calls : exec[c].state = "none" /\ exec[c].hops = 0 /\ exec[c].left = 0
      BY <1>2 DEF Http!Unread
    <2> QED
      BY <1>0, <1>2, <2>1, <2>2 DEF HopsCounted, Busy
  <1>4. LastUnderWay /\ BufferOfLast /\ ClientExact
    BY <1>2, WriteFacts
    DEF LastUnderWay, BufferOfLast, ClientExact, Http!JarExact, Http!Unread
  <1> QED
    BY <1>1, <1>3, <1>4 DEF HttpInv

LEMMA HttpNext == ASSUME HttpInv, [Http!Next]_httpVars PROVE HttpInv'
  <1>1. CASE UNCHANGED httpVars
    <2>1. UNCHANGED <<enabled, jar, since, maxRedirects, lastResponse, httpCaller, last, ctrl,
                      buffer, length, mailbox, exec, writing, writes, returned, timeouts,
                      raced, httpHurried>>
      BY <1>1 DEF httpVars
    <2> QED
      BY <2>1 DEF HttpInv, HttpTypes, Http!TypeOK, HopsCounted, LastUnderWay, Complete,
                  BufferOfLast, ClientExact, Http!JarExact
  <1>2. CASE Http!http_get \/ Http!http_get_with_headers
    BY <1>2, BuildStep DEF Http!http_get, Http!http_get_with_headers
  <1> QED
    BY <1>1, <1>2, ClientStep, SetPendingStep, BlocksStep, CallerWakes, ReadRequestStep,
       WriteStep, HopStep, ResponseStep DEF Http!Next, Http!Calling, Http!Worker

-----------------------------------------------------------------------------
\* A call of the program, through the session channel or to another web site, returns
\* its own answer, and what it asks for is done once: as long as no call begins while
\* an abandoned one is under way, for any number of calls, redirects and timeouts
\* (call() of session/broker-store.ts and sendAndWait() of bridge/http-client.ts).
THEOREM CallsReturnOwn == MCSpec => []CallsExact
  <1> DEFINE Inv == (part = "channel" => late \/ ChannelInv) /\ (part = "http" => HttpInv)
  <1>1. MCInit => Inv
    BY ChannelInit, HttpInit DEF MCInit
  <1>2. Inv /\ [MCNext]_allVars => Inv'
    <2> SUFFICES ASSUME Inv, [MCNext]_allVars PROVE Inv'
      OBVIOUS
    <2>1. part' = part
      BY DEF MCNext, allVars, ChannelOnly, StoreOnly, HttpOnly, McpOnly, HandlesOnly
    <2>2. ASSUME part = "channel" PROVE late' \/ ChannelInv'
      <3>1. [Next]_vars
        BY <2>2 DEF MCNext, allVars, StoreOnly, HttpOnly, McpOnly, HandlesOnly
      <3> QED
        BY <2>2, <3>1, ChannelNext
    <2>3. ASSUME part = "http" PROVE HttpInv'
      <3>1. [Http!Next]_httpVars
        BY <2>3 DEF MCNext, allVars, StoreOnly, ChannelOnly, McpOnly, HandlesOnly
      <3> QED
        BY <2>3, <3>1, HttpNext
    <2> QED
      BY <2>1, <2>2, <2>3
  <1>3. Inv => CallsExact
    <2> SUFFICES ASSUME Inv PROVE CallsExact
      OBVIOUS
    <2>1. ASSUME part = "channel" PROVE OwnAnswers /\ AppliedOnce
      <3>1. late \/ ResultsFollow
        BY <2>1 DEF ChannelInv
      <3>2. /\ NoResult.kind # "response" /\ TimedOut.kind # "response"
            /\ Garbled.kind # "response" /\ \A c \in Calls : Request(c).kind # "response"
        BY DEF NoResult, TimedOut, Garbled, Request
      <3>3. OwnAnswers
        BY <3>1 DEF ResultsFollow, OwnAnswers
      <3>4. AppliedOnce
        <4> SUFFICES ASSUME ResultsFollow, NEW c \in Calls
                     PROVE  /\ applied[c] <= 1
                            /\ result[c].kind = "response" => applied[c] = 1
          BY <3>1 DEF AppliedOnce
        <4>1. applied[c] = IF handler[c] \in {"running", "finished"} THEN 1 ELSE 0
          BY DEF ResultsFollow
        <4>2. result[c].kind = "response" => result[c] = Response(c)
          BY <3>2 DEF ResultsFollow
        <4> QED
          BY <4>1, <4>2 DEF ResultsFollow
      <3> QED
        BY <3>3, <3>4
    <2>2. ASSUME part = "http" PROVE Http!HttpExact
      <3>1. HttpInv
        BY <2>2
      <3>2. ~raced => Http!OwnResponse /\ Http!JarExact /\ Http!LastResponseOwn
        BY <3>1, HttpFacts DEF HttpInv, ClientExact, Http!OwnResponse, Http!LastResponseOwn,
              Http!http_get_response_code, Http!http_get_response_body
      <3>3. ~raced => \A c \in Http!Calls \ httpHurried :
                         (returned[c] = "error" /\ timeouts = 0) => ~exec[c].ok
        BY <3>1 DEF HttpInv, ClientExact
      <3>4. \A c \in Http!Calls : exec[c].hops <= Redirects + 1
        BY <3>1 DEF HttpInv, HopsCounted
      <3> QED
        BY <3>2, <3>3, <3>4 DEF Http!HttpExact
    <2> QED
      BY <2>1, <2>2 DEF CallsExact
  <1> HIDE DEF Inv
  <1> QED
    BY <1>1, <1>2, <1>3, PTL DEF MCSpec

-----------------------------------------------------------------------------
(***************************************************************************)
(* The session stores.                                                     *)
(***************************************************************************)
\* The memory store works in one step, so that no command is ever pending, and its
\* sessions hold what the calls have stored.
MemoryExact ==
    /\ \A w \in Workers : op[w] = Store!Idle
    /\ \A s \in Sessions : s \notin created => truth[s] = Store!Empty
    /\ \A s \in Sessions : Store!Live(s) => store[s].claims = truth[s]
    /\ \A s \in destroyed : ~Store!Live(s)
    /\ \A s \in created \ (expired \cup destroyed) : Store!Live(s)

StoreInv ==
    /\ Store!TypeOK
    /\ \A w \in Workers : op[w].kind = "setex" => op[w].session \in created
    /\ backend = "memory" => MemoryExact

LEMMA StoreFacts ==
    /\ Store!Empty \in Store!Claims /\ Store!Absent.claims = Store!Empty
    /\ Store!Absent = [live |-> FALSE, claims |-> Store!Empty]
    /\ Store!Idle \in Store!Commands /\ Store!Idle.kind = "idle"
    /\ ~Store!Absent.live
  BY DEF Store!Empty, Store!Claims, Store!Absent, Store!Idle, Store!Commands

\* A session is written whole.
LEMMA PutFacts ==
    ASSUME StoreInv, NEW s \in Sessions, NEW claims \in Store!Claims, Store!Put(s, claims)
    PROVE  /\ store' \in [Sessions -> [live : BOOLEAN, claims : Store!Claims]]
           /\ store'[s].claims = claims /\ Store!Live(s)'
           /\ \A t \in Sessions : t # s => /\ store'[t] = store[t]
                                           /\ Store!Live(t)' <=> Store!Live(t)
  <1>1. store \in [Sessions -> [live : BOOLEAN, claims : Store!Claims]]
    BY DEF StoreInv, Store!TypeOK
  <1>2. store' = [store EXCEPT ![s] = [live |-> TRUE, claims |-> claims]]
    BY DEF Store!Put
  <1>3. /\ store'[s] = [live |-> TRUE, claims |-> claims]
        /\ \A t \in Sessions : t # s => store'[t] = store[t]
        /\ store' \in [Sessions -> [live : BOOLEAN, claims : Store!Claims]]
    BY <1>1, <1>2
  <1>4. store'[s].claims = claims /\ store'[s].live
    BY <1>3
  <1> QED
    BY <1>3, <1>4 DEF Store!Live

\* Sessions are dropped, whole.
LEMMA DropFacts ==
    ASSUME StoreInv, NEW gone \in SUBSET Sessions,
           store' = [s \in Sessions |-> IF s \in gone THEN Store!Absent ELSE store[s]]
    PROVE  /\ store' \in [Sessions -> [live : BOOLEAN, claims : Store!Claims]]
           /\ \A s \in gone : store'[s] = Store!Absent /\ ~Store!Live(s)'
           /\ \A s \in Sessions \ gone : /\ store'[s] = store[s]
                                         /\ Store!Live(s)' <=> Store!Live(s)
  <1>1. store \in [Sessions -> [live : BOOLEAN, claims : Store!Claims]]
    BY DEF StoreInv, Store!TypeOK
  <1>2. Store!Absent \in [live : BOOLEAN, claims : Store!Claims]
    BY StoreFacts
  <1>3. /\ \A s \in gone : store'[s] = Store!Absent
        /\ \A s \in Sessions \ gone : store'[s] = store[s]
        /\ store' \in [Sessions -> [live : BOOLEAN, claims : Store!Claims]]
    BY <1>1, <1>2
  <1> QED
    BY <1>3, StoreFacts DEF Store!Live

LEMMA RemoveIsDrop ==
    ASSUME StoreInv, NEW s \in Sessions, Store!Remove(s)
    PROVE  store' = [t \in Sessions |-> IF t \in {s} THEN Store!Absent ELSE store[t]]
  <1>1. store \in [Sessions -> [live : BOOLEAN, claims : Store!Claims]]
    BY DEF StoreInv, Store!TypeOK
  <1> QED
    BY <1>1 DEF Store!Remove

\* A session is made, destroyed, expires, or leaves the store; none of it is a write.
LEMMA SessionsStep ==
    ASSUME StoreInv,
           \/ \E w \in Workers, s \in Sessions :
                 \/ Store!Create(w, s) \/ Store!Destroy(w, s) \/ Store!MemoryGetExpired(w, s)
                 \/ Store!RedisGetExpired(w, s)
           \/ \E s \in Sessions : Store!Expire(s) \/ Store!RedisExpire(s)
           \/ \E w \in Workers : Store!RedisDel(w)
           \/ Store!Cleanup
    PROVE  StoreInv'
  <1>0. Store!TypeOK /\ (backend = "memory" => MemoryExact)
        /\ \A w \in Workers : op[w].kind = "setex" => op[w].session \in created
    BY DEF StoreInv
  <1>1. ASSUME NEW w \in Workers, NEW s \in Sessions, Store!Create(w, s) PROVE StoreInv'
    <2>1. /\ s \notin created /\ Store!Put(s, Store!Empty) /\ created' = created \cup {s}
          /\ ops < MaxOps /\ ops' = ops + 1
          /\ UNCHANGED <<backend, expired, op, destroyed, truth>>
      BY <1>1 DEF Store!Create, Store!MayChange
    <2>2. /\ store' \in [Sessions -> [live : BOOLEAN, claims : Store!Claims]]
          /\ store'[s].claims = Store!Empty /\ Store!Live(s)'
          /\ \A t \in Sessions : t # s => /\ store'[t] = store[t]
                                          /\ Store!Live(t)' <=> Store!Live(t)
      BY <2>1, PutFacts, StoreFacts
    <2>3. Store!TypeOK'
      <3>1. ops' \in 0 .. MaxOps
        BY <1>0, <2>1, StoreAssumption DEF Store!TypeOK
      <3> QED
        BY <1>0, <2>1, <2>2, <3>1 DEF Store!TypeOK
    <2>4. ASSUME backend = "memory" PROVE MemoryExact'
      BY <1>0, <2>1, <2>2, <2>4 DEF MemoryExact, Store!TypeOK
    <2> QED
      BY <1>0, <2>1, <2>3, <2>4 DEF StoreInv
  <1>2. ASSUME NEW gone \in SUBSET Sessions,
               store' = [s \in Sessions |-> IF s \in gone THEN Store!Absent ELSE store[s]],
               op' \in [Workers -> Store!Commands],
               backend = "memory" => op' = op,
               \A w \in Workers : op'[w] = op[w] \/ op'[w].kind # "setex",
               \/ destroyed' = destroyed /\ (backend = "memory" => gone \subseteq expired)
               \/ destroyed' = destroyed \cup gone /\ gone \subseteq created,
               ops' \in 0 .. MaxOps,
               UNCHANGED <<backend, created, expired, truth>>
        PROVE  StoreInv'
    <2>1. /\ store' \in [Sessions -> [live : BOOLEAN, claims : Store!Claims]]
          /\ \A s \in gone : store'[s] = Store!Absent /\ ~Store!Live(s)'
          /\ \A s \in Sessions \ gone : /\ store'[s] = store[s]
                                        /\ Store!Live(s)' <=> Store!Live(s)
      BY <1>2, DropFacts
    <2>2. Store!TypeOK'
      BY <1>0, <1>2, <2>1 DEF Store!TypeOK
    <2>3. ASSUME backend = "memory" PROVE MemoryExact'
      BY <1>0, <1>2, <2>1, <2>3 DEF MemoryExact, Store!TypeOK
    <2> QED
      BY <1>0, <1>2, <2>2, <2>3 DEF StoreInv
  <1>3. ASSUME NEW w \in Workers, NEW s \in Sessions, Store!Destroy(w, s) PROVE StoreInv'
    <2>1. /\ Store!Live(s) /\ Store!Remove(s) /\ destroyed' = destroyed \cup {s}
          /\ ops < MaxOps /\ ops' = ops + 1
          /\ UNCHANGED <<backend, created, expired, op, truth>>
      BY <1>3 DEF Store!Destroy, Store!MayChange
    <2>2. s \in created /\ ops' \in 0 .. MaxOps /\ op' \in [Workers -> Store!Commands]
      BY <1>0, <2>1, StoreAssumption DEF Store!TypeOK
    <2>3. PICK gone \in SUBSET Sessions : gone = {s}
      OBVIOUS
    <2>4. store' = [t \in Sessions |-> IF t \in gone THEN Store!Absent ELSE store[t]]
      BY <2>1, <2>3, RemoveIsDrop
    <2>5. destroyed' = destroyed \cup gone /\ gone \subseteq created
      BY <2>1, <2>2, <2>3
    <2> QED
      BY <1>2, <2>1, <2>2, <2>4, <2>5
  <1>4. ASSUME NEW s \in Sessions, Store!Remove(s), s \in expired,
               UNCHANGED <<backend, created, expired, op, destroyed, truth, ops>>
        PROVE  StoreInv'
    <2>1. ops' \in 0 .. MaxOps /\ op' \in [Workers -> Store!Commands]
      BY <1>0, <1>4 DEF Store!TypeOK
    <2>2. PICK gone \in SUBSET Sessions : gone = {s}
      OBVIOUS
    <2>3. store' = [t \in Sessions |-> IF t \in gone THEN Store!Absent ELSE store[t]]
      BY <1>4, <2>2, RemoveIsDrop
    <2>4. gone \subseteq expired
      BY <1>4, <2>2
    <2> QED
      BY <1>2, <1>4, <2>1, <2>3, <2>4
  <1>5. ASSUME NEW w \in Workers, NEW s \in Sessions, Store!MemoryGetExpired(w, s)
        PROVE  StoreInv'
    BY <1>4, <1>5 DEF Store!MemoryGetExpired
  <1>6. ASSUME NEW s \in Sessions, Store!RedisExpire(s) PROVE StoreInv'
    BY <1>4, <1>6 DEF Store!RedisExpire, Store!Lapses
  <1>7. ASSUME Store!Cleanup PROVE StoreInv'
    <2>1. /\ store' = [s \in Sessions |-> IF s \in Store!Swept THEN Store!Absent ELSE store[s]]
          /\ UNCHANGED <<backend, created, expired, op, destroyed, truth, ops>>
      BY <1>7 DEF Store!Cleanup
    <2>2. Store!Swept \in SUBSET Sessions /\ Store!Swept \subseteq expired
      BY DEF Store!Swept
    <2>3. ops' \in 0 .. MaxOps /\ op' \in [Workers -> Store!Commands]
      BY <1>0, <2>1 DEF Store!TypeOK
    <2> HIDE DEF Store!Swept
    <2> QED
      BY <1>2, <2>1, <2>2, <2>3
  <1>8. ASSUME NEW w \in Workers, NEW s \in Sessions, Store!RedisGetExpired(w, s)
        PROVE  StoreInv'
    <2>1. /\ backend = "redis" /\ op' = [op EXCEPT ![w] = [kind |-> "del", session |-> s]]
          /\ UNCHANGED <<backend, store, created, expired, destroyed, truth, ops>>
      BY <1>8 DEF Store!RedisGetExpired
    <2>2. [kind |-> "del", session |-> s] \in Store!Commands
      BY DEF Store!Commands
    <2>3. /\ op' \in [Workers -> Store!Commands]
          /\ \A v \in Workers : op'[v] = op[v] \/ op'[v].kind # "setex"
      BY <1>0, <2>1, <2>2 DEF Store!TypeOK
    <2>4. Store!TypeOK'
      BY <1>0, <2>1, <2>3 DEF Store!TypeOK, Store!Live
    <2> QED
      BY <1>0, <2>1, <2>3, <2>4 DEF StoreInv
  <1>9. ASSUME NEW w \in Workers, Store!RedisDel(w) PROVE StoreInv'
    <2>1. /\ op[w].kind = "del" /\ Store!Remove(op[w].session)
          /\ op' = [op EXCEPT ![w] = Store!Idle]
          /\ UNCHANGED <<backend, created, expired, destroyed, truth, ops>>
      BY <1>9 DEF Store!RedisDel
    <2>2. op[w] \in Store!Commands /\ op[w].session \in Sessions
      BY <1>0, <2>1, StoreFacts DEF Store!TypeOK, Store!Commands
    <2>3. backend # "memory"
      BY <1>0, <2>1, StoreFacts DEF MemoryExact
    <2>4. /\ op' \in [Workers -> Store!Commands]
          /\ \A v \in Workers : op'[v] = op[v] \/ op'[v].kind # "setex"
          /\ ops' \in 0 .. MaxOps
      BY <1>0, <2>1, StoreFacts DEF Store!TypeOK
    <2>5. PICK gone \in SUBSET Sessions : gone = {op[w].session}
      BY <2>2
    <2>6. store' = [t \in Sessions |-> IF t \in gone THEN Store!Absent ELSE store[t]]
      BY <2>1, <2>2, <2>5, RemoveIsDrop
    <2> QED
      BY <1>2, <2>1, <2>3, <2>4, <2>6
  <1>10. ASSUME NEW s \in Sessions, Store!Expire(s) PROVE StoreInv'
    <2>1. /\ s \in created /\ expired' = expired \cup {s}
          /\ UNCHANGED <<backend, store, created, op, destroyed, truth, ops>>
      BY <1>10 DEF Store!Expire
    <2>2. \A t \in Sessions : Store!Live(t)' <=> Store!Live(t)
      BY <2>1 DEF Store!Live
    <2>3. Store!TypeOK'
      BY <1>0, <2>1, <2>2 DEF Store!TypeOK
    <2>4. ASSUME backend = "memory" PROVE MemoryExact'
      BY <1>0, <2>1, <2>2, <2>4 DEF MemoryExact, Store!TypeOK
    <2> QED
      BY <1>0, <2>1, <2>3, <2>4 DEF StoreInv
  <1> QED
    BY <1>1, <1>3, <1>5, <1>6, <1>7, <1>8, <1>9, <1>10

\* A value is stored or deleted.
LEMMA ValueStep ==
    ASSUME StoreInv,
           \/ \E w \in Workers, s \in Sessions, k \in Keys, v \in Values \cup {Unset} :
                 Store!MemoryChange(w, s, k, v) \/ Store!RedisRead(w, s, k, v)
           \/ \E w \in Workers : Store!RedisSetex(w)
    PROVE  StoreInv'
  <1>0. Store!TypeOK /\ (backend = "memory" => MemoryExact)
        /\ \A w \in Workers : op[w].kind = "setex" => op[w].session \in created
    BY DEF StoreInv
  <1>1. ASSUME NEW s \in Sessions, NEW k \in Keys, NEW v \in Values \cup {Unset}
        PROVE  /\ Store!Changed(store[s].claims, k, v) \in Store!Claims
               /\ [truth EXCEPT ![s][k] = v] \in [Sessions -> Store!Claims]
    BY <1>0 DEF Store!TypeOK, Store!Changed, Store!Claims
  <1>2. ASSUME NEW w \in Workers, NEW s \in Sessions, NEW k \in Keys,
               NEW v \in Values \cup {Unset}, Store!MemoryChange(w, s, k, v)
        PROVE  StoreInv'
    <2>1. /\ backend = "memory" /\ Store!Live(s) /\ ops < MaxOps /\ ops' = ops + 1
          /\ Store!Put(s, Store!Changed(store[s].claims, k, v))
          /\ truth' = [truth EXCEPT ![s][k] = v]
          /\ UNCHANGED <<backend, created, expired, op, destroyed>>
      BY <1>2 DEF Store!MemoryChange, Store!MayChange, Store!Valid
    <2>2. /\ store' \in [Sessions -> [live : BOOLEAN, claims : Store!Claims]]
          /\ store'[s].claims = Store!Changed(store[s].claims, k, v) /\ Store!Live(s)'
          /\ \A t \in Sessions : t # s => /\ store'[t] = store[t]
                                          /\ Store!Live(t)' <=> Store!Live(t)
      BY <1>1, <2>1, PutFacts
    <2>3. s \in created /\ truth' \in [Sessions -> Store!Claims]
          /\ truth'[s] = [truth[s] EXCEPT ![k] = v]
          /\ \A t \in Sessions : t # s => truth'[t] = truth[t]
      BY <1>0, <1>1, <2>1 DEF Store!TypeOK
    <2>4. Store!TypeOK'
      <3>1. ops' \in 0 .. MaxOps
        BY <1>0, <2>1, StoreAssumption DEF Store!TypeOK
      <3> QED
        BY <1>0, <2>1, <2>2, <2>3, <3>1 DEF Store!TypeOK
    <2>5. MemoryExact'
      <3>1. store'[s].claims = truth'[s]
        BY <1>0, <2>1, <2>2, <2>3 DEF MemoryExact, Store!Changed
      <3> QED
        BY <1>0, <2>1, <2>2, <2>3, <3>1 DEF MemoryExact, Store!TypeOK
    <2> QED
      BY <1>0, <2>1, <2>4, <2>5 DEF StoreInv
  <1>3. ASSUME NEW w \in Workers, NEW s \in Sessions, NEW k \in Keys,
               NEW v \in Values \cup {Unset}, Store!RedisRead(w, s, k, v)
        PROVE  StoreInv'
    <2> DEFINE command == [kind |-> "setex", session |-> s, key |-> k, value |-> v,
                           claims |-> Store!Changed(store[s].claims, k, v)]
    <2>1. /\ backend = "redis" /\ Store!Live(s) /\ ops < MaxOps /\ ops' = ops + 1
          /\ op' = [op EXCEPT ![w] = command]
          /\ UNCHANGED <<backend, store, created, expired, destroyed, truth>>
      BY <1>3 DEF Store!RedisRead, Store!MayChange, Store!Valid
    <2>2. command \in Store!Commands /\ command.session = s /\ s \in created
      BY <1>0, <1>1, <2>1 DEF Store!Commands, Store!TypeOK
    <2> HIDE DEF command
    <2>3. /\ op' \in [Workers -> Store!Commands] /\ op'[w] = command
          /\ \A u \in Workers : u # w => op'[u] = op[u]
      BY <1>0, <2>1, <2>2 DEF Store!TypeOK
    <2>4. Store!TypeOK'
      <3>1. ops' \in 0 .. MaxOps
        BY <1>0, <2>1, StoreAssumption DEF Store!TypeOK
      <3> QED
        BY <1>0, <2>1, <2>3, <3>1 DEF Store!TypeOK, Store!Live
    <2> QED
      BY <1>0, <2>1, <2>2, <2>3, <2>4 DEF StoreInv
  <1>4. ASSUME NEW w \in Workers, Store!RedisSetex(w) PROVE StoreInv'
    <2>1. PICK s \in Sessions, k \in Keys, v \in Values \cup {Unset}, claims \in Store!Claims :
             /\ op[w].kind = "setex" /\ s = op[w].session /\ k = op[w].key
             /\ v = op[w].value /\ claims = op[w].claims
      <3>1. op[w] \in Store!Commands /\ op[w].kind = "setex"
        BY <1>0, <1>4 DEF Store!TypeOK, Store!RedisSetex
      <3> QED
        BY <3>1, StoreFacts DEF Store!Commands
    <2>2. /\ Store!Put(s, claims) /\ truth' = [truth EXCEPT ![s][k] = v]
          /\ op' = [op EXCEPT ![w] = Store!Idle]
          /\ UNCHANGED <<backend, created, expired, destroyed, ops>>
      BY <1>4, <2>1 DEF Store!RedisSetex
    <2>3. /\ store' \in [Sessions -> [live : BOOLEAN, claims : Store!Claims]] /\ Store!Live(s)'
          /\ \A t \in Sessions : t # s => /\ store'[t] = store[t]
                                          /\ Store!Live(t)' <=> Store!Live(t)
      BY <2>2, PutFacts
    <2>4. s \in created /\ truth' \in [Sessions -> Store!Claims] /\ backend # "memory"
      BY <1>0, <1>1, <2>1, <2>2, StoreFacts DEF MemoryExact
    <2>5. /\ op' \in [Workers -> Store!Commands] /\ op'[w] = Store!Idle
          /\ \A u \in Workers : u # w => op'[u] = op[u]
      BY <1>0, <2>2, StoreFacts DEF Store!TypeOK
    <2>6. Store!TypeOK'
      BY <1>0, <2>2, <2>3, <2>4, <2>5 DEF Store!TypeOK
    <2> QED
      BY <1>0, <2>2, <2>4, <2>5, <2>6, StoreFacts DEF StoreInv
  <1> QED
    BY <1>2, <1>3, <1>4

LEMMA StoreNext == ASSUME StoreInv, [Store!Next]_storeVars PROVE StoreInv'
  <1>1. CASE UNCHANGED storeVars
    <2>1. UNCHANGED <<backend, store, created, expired, op, destroyed, truth, ops>>
      BY <1>1 DEF storeVars
    <2> QED
      BY <2>1 DEF StoreInv, Store!TypeOK, Store!Live, MemoryExact
  <1> QED
    BY <1>1, SessionsStep, ValueStep DEF Store!Next

LEMMA StoreInit == ASSUME Store!Init PROVE StoreInv
  <1>1. Store!TypeOK
    BY StoreFacts, StoreAssumption DEF Store!Init, Store!TypeOK, Store!Live
  <1>2. MemoryExact
    BY StoreFacts DEF Store!Init, MemoryExact, Store!Live
  <1> QED
    BY <1>1, <1>2, StoreFacts DEF StoreInv, Store!Init

\* In the memory store the operations of several request workers do not undo each
\* other, a session that was destroyed is never found again, and none is dropped before
\* it expires (InMemorySessionStore of session/store.ts).
THEOREM SessionsAreKept == MCSpec => []ClaimsKept
  <1> DEFINE Inv == part = "store" => StoreInv
  <1>1. MCInit => Inv
    BY StoreInit DEF MCInit
  <1>2. Inv /\ [MCNext]_allVars => Inv'
    <2> SUFFICES ASSUME part' = "store", Inv, [MCNext]_allVars PROVE StoreInv'
      OBVIOUS
    <2>1. part = "store"
      BY DEF MCNext, allVars, ChannelOnly, StoreOnly, HttpOnly, McpOnly, HandlesOnly
    <2>2. [Store!Next]_storeVars
      BY <2>1 DEF MCNext, allVars, ChannelOnly, HttpOnly, McpOnly, HandlesOnly
    <2> QED
      BY <2>1, <2>2, StoreNext
  <1>3. Inv => ClaimsKept
    BY DEF ClaimsKept, StoreInv, MemoryExact, Store!ClaimsKept
  <1> HIDE DEF Inv
  <1> QED
    BY <1>1, <1>2, <1>3, PTL DEF MCSpec

-----------------------------------------------------------------------------
(***************************************************************************)
(* The MCP transports.  Over HTTP a program can answer nobody but the      *)
(* client of the message that was offered last.  As long as no late notify *)
(* has woken the program, the messages that have come in are those it has  *)
(* read, in order, then the one it is to read, then the queue.             *)
(***************************************************************************)
\* What the worker has still to store for the message it offers.
FourLeft == <<"data", "length", "READY", "notify">>
ThreeLeft == <<"length", "READY", "notify">>
TwoLeft == <<"READY", "notify">>
NotifyLeft == <<"notify">>
Closing == <<"CLOSED", "notify">>
Unflagged == {FourLeft, ThreeLeft, TwoLeft}

InOrder(q, n) ==
    /\ q \in Seq(Mcp!Messages) /\ Len(q) <= n
    /\ \A i \in 1 .. Len(q) : q[i] = n - Len(q) + i

\* The messages the worker has taken out of the queue, and whether the program has
\* yet to copy the last of them.
Taken == arrived - Len(lines)
Due == mcpWrites \in Unflagged \/ (signal = "READY" /\ reader # "copied")

Responses == [to : Mcp!Messages, about : 0 .. Mcp!Torn]

McpTypes ==
    /\ Mcp!TypeOK /\ started \in BOOLEAN /\ waiting \in BOOLEAN /\ isProcessing \in BOOLEAN
    /\ mcpTimeouts \in Nat
    /\ mcpWrites \in Unflagged \cup {NotifyLeft, Closing, <<>>}
    /\ DOMAIN answered = Mcp!Messages /\ \A m \in Mcp!Messages : answered[m] \in {0, m}

\* What is in the buffer; only over HTTP the program holds what it has read.
Filled ==
    /\ InOrder(lines, arrived) /\ (waiting => lines = <<>>)
    /\ transport = "stdio" => held = 0 /\ lastRequestId = 0
    /\ mcpWrites # FourLeft => message = offered
    /\ mcpWrites \notin {FourLeft, ThreeLeft} => mcpLength = offered

\* Over HTTP at most the message offered last is unanswered.
OneUnanswered ==
    /\ ~waiting /\ mcpWrites # Closing /\ signal # "CLOSED"
    /\ pendingResponses = IF isProcessing THEN {offered} ELSE {}
    /\ mcpWrites # <<>> => isProcessing
    /\ offered <= Taken /\ message <= offered /\ lastRequestId <= offered
    /\ mcpWrites = FourLeft => message < offered
    /\ lastRequestId = offered /\ offered # 0 =>
          /\ held \in {0, offered} /\ mcpWrites # FourLeft
          /\ mcpWrites = ThreeLeft => \/ reader = "copied"
                                      \/ signal = "IDLE" /\ reader # "woken"

\* What the program posts for the client of that message is its answer.
OwnPosted ==
    /\ inbox \in Seq(Responses)
    /\ \A i \in 1 .. Len(inbox) :
          inbox[i].to <= offered /\ (inbox[i].to = offered => inbox[i].about = offered)

\* The program reads what is there and has not been read, in order.
ReadOnce ==
    /\ \A i \in 1 .. Len(got) : got[i] = i
    /\ Taken = IF Due THEN Len(got) + 1 ELSE Len(got)
    /\ Due => offered = Taken
    /\ signal # "IDLE" => mcpWrites \in {NotifyLeft, <<>>}
    /\ reader = "woken" => signal # "IDLE"
    /\ reader = "copied" => signal = "READY"

\* Over stdio a line is asked for once.
AskedOnce ==
    /\ inbox \in {<<>>, <<0>>}
    /\ inbox # <<>> \/ waiting => mcpWrites \notin Unflagged /\ signal # "READY"
    /\ waiting => inbox = <<>>
    /\ mcpWrites = Closing \/ signal = "CLOSED" => waiting /\ input # "open"
    /\ ~started => ~waiting /\ inbox = <<>> /\ signal = "IDLE" /\ mcpWrites = <<>>

\* Over HTTP the next request is offered when the one read is answered.
AnsweredInTurn ==
    /\ ~isProcessing => signal = "IDLE"
    /\ isProcessing /\ lastRequestId = offered =>
          mcpWrites \notin Unflagged /\ (signal = "IDLE" \/ reader = "copied")
    /\ isProcessing => \A i \in 1 .. Len(inbox) :
          inbox[i].to = offered => mcpWrites \notin Unflagged /\ signal = "IDLE"

McpInv ==
    /\ McpTypes /\ Filled
    /\ transport = "http" => OneUnanswered /\ OwnPosted
    /\ ~mcpHurried => /\ ReadOnce
                      /\ transport = "stdio" => AskedOnce
                      /\ transport = "http" => AnsweredInTurn

LEMMA McpWriteFacts ==
    /\ Head(FourLeft) = "data" /\ Tail(FourLeft) = ThreeLeft
    /\ Head(ThreeLeft) = "length" /\ Tail(ThreeLeft) = TwoLeft
    /\ Head(TwoLeft) = "READY" /\ Tail(TwoLeft) = NotifyLeft
    /\ Head(Closing) = "CLOSED" /\ Tail(Closing) = NotifyLeft
    /\ Head(NotifyLeft) = "notify" /\ Tail(NotifyLeft) = <<>>
    /\ FourLeft \notin {ThreeLeft, TwoLeft, NotifyLeft, Closing, <<>>}
    /\ ThreeLeft \notin {TwoLeft, NotifyLeft, Closing, <<>>}
    /\ TwoLeft \notin {NotifyLeft, Closing, <<>>}
    /\ NotifyLeft \notin {Closing, <<>>} /\ Closing # <<>>
  <1>1. /\ Len(FourLeft) = 4 /\ Len(ThreeLeft) = 3 /\ Len(TwoLeft) = 2 /\ Len(Closing) = 2
        /\ Len(NotifyLeft) = 1 /\ TwoLeft[1] = "READY" /\ Closing[1] = "CLOSED"
    BY DEF FourLeft, ThreeLeft, TwoLeft, NotifyLeft, Closing
  <1>2. /\ Head(FourLeft) = "data" /\ Head(ThreeLeft) = "length" /\ Head(TwoLeft) = "READY"
        /\ Head(Closing) = "CLOSED" /\ Head(NotifyLeft) = "notify"
    BY DEF FourLeft, ThreeLeft, TwoLeft, NotifyLeft, Closing
  <1>3. Tail(FourLeft) = ThreeLeft /\ Tail(ThreeLeft) = TwoLeft
    BY DEF FourLeft, ThreeLeft, TwoLeft
  <1>4. Tail(TwoLeft) = NotifyLeft /\ Tail(Closing) = NotifyLeft /\ Tail(NotifyLeft) = <<>>
    BY DEF TwoLeft, NotifyLeft, Closing
  <1>5. /\ FourLeft \notin {ThreeLeft, TwoLeft, NotifyLeft, Closing}
        /\ ThreeLeft \notin {TwoLeft, NotifyLeft, Closing}
        /\ TwoLeft \notin {NotifyLeft, Closing} /\ NotifyLeft # Closing
    BY <1>1
  <1>6. /\ FourLeft # <<>> /\ ThreeLeft # <<>> /\ TwoLeft # <<>> /\ NotifyLeft # <<>>
        /\ Closing # <<>>
    BY DEF FourLeft, ThreeLeft, TwoLeft, NotifyLeft, Closing
  <1> QED
    BY <1>2, <1>3, <1>4, <1>5, <1>6, Zenon

LEMMA McpFacts ==
    ASSUME McpInv
    PROVE  /\ transport \in {"stdio", "http"} /\ arrived \in 0 .. MaxMessages
           /\ arrived \in Nat /\ MaxMessages \in Nat /\ Mcp!Messages = 1 .. MaxMessages
           /\ Mcp!Torn = MaxMessages + 1
           /\ input \in {"open", "closed", "lost"} /\ signal \in {"IDLE", "READY", "CLOSED"}
           /\ lines \in Seq(Mcp!Messages) /\ Len(lines) \in Nat /\ Len(lines) <= arrived
           /\ message \in 0 .. MaxMessages /\ mcpLength \in 0 .. MaxMessages
           /\ offered \in 0 .. MaxMessages
           /\ pendingResponses \subseteq Mcp!Messages /\ lastRequestId \in 0 .. MaxMessages
           /\ reader \in {"busy", "waiting", "blocked", "woken", "copied"}
           /\ got \in Seq(0 .. Mcp!Torn) /\ Len(got) \in Nat
           /\ started \in BOOLEAN /\ waiting \in BOOLEAN /\ isProcessing \in BOOLEAN
           /\ held \in 0 .. Mcp!Torn /\ mcpTimeouts \in Nat /\ mcpHurried \in BOOLEAN
           /\ Taken \in 0 .. MaxMessages
  <1>1. /\ transport \in {"stdio", "http"} /\ arrived \in 0 .. MaxMessages
        /\ input \in {"open", "closed", "lost"} /\ signal \in {"IDLE", "READY", "CLOSED"}
        /\ lines \in Seq(Mcp!Messages) /\ message \in 0 .. MaxMessages
        /\ mcpLength \in 0 .. MaxMessages /\ offered \in 0 .. MaxMessages
        /\ pendingResponses \subseteq Mcp!Messages /\ lastRequestId \in 0 .. MaxMessages
        /\ reader \in {"busy", "waiting", "blocked", "woken", "copied"}
        /\ got \in Seq(0 .. Mcp!Torn) /\ held \in 0 .. Mcp!Torn /\ mcpHurried \in BOOLEAN
    BY DEF McpInv, McpTypes, Mcp!TypeOK
  <1>2. /\ started \in BOOLEAN /\ waiting \in BOOLEAN /\ isProcessing \in BOOLEAN
        /\ mcpTimeouts \in Nat
    BY DEF McpInv, McpTypes
  <1>3. /\ MaxMessages \in Nat /\ Mcp!Messages = 1 .. MaxMessages
        /\ Mcp!Torn = MaxMessages + 1
    BY McpAssumption DEF Mcp!Messages, Mcp!Torn
  <1>4. Len(lines) \in Nat /\ Len(got) \in Nat /\ Len(lines) <= arrived
    BY <1>1 DEF McpInv, Filled, InOrder
  <1>5. arrived \in Nat /\ Taken \in 0 .. MaxMessages
    BY <1>1, <1>3, <1>4 DEF Taken
  <1> QED
    BY <1>1, <1>2, <1>3, <1>4, <1>5

LEMMA InOrderAppend ==
    ASSUME NEW q, NEW n \in Nat, n < MaxMessages, InOrder(q, n)
    PROVE  /\ InOrder(Append(q, n + 1), n + 1) /\ Len(Append(q, n + 1)) = Len(q) + 1
           /\ Append(q, n + 1) # <<>>
  <1>1. /\ q \in Seq(Mcp!Messages) /\ Len(q) \in Nat /\ Len(q) <= n
        /\ \A i \in 1 .. Len(q) : q[i] = n - Len(q) + i
    BY DEF InOrder
  <1>2. n + 1 \in Mcp!Messages
    BY McpAssumption DEF Mcp!Messages
  <1>3. PICK r : r = Append(q, n + 1)
    OBVIOUS
  <1>4. /\ r \in Seq(Mcp!Messages) /\ Len(r) = Len(q) + 1 /\ r[Len(q) + 1] = n + 1
        /\ \A i \in 1 .. Len(q) : r[i] = q[i]
    BY <1>1, <1>2, <1>3
  <1>5. \A i \in 1 .. Len(r) : r[i] = n + 1 - Len(r) + i
    <2>1. ASSUME NEW i \in 1 .. Len(r) PROVE r[i] = n + 1 - Len(r) + i
      <3>1. CASE i = Len(q) + 1
        BY <1>1, <1>4, <3>1
      <3>2. CASE i \in 1 .. Len(q)
        BY <1>1, <1>4, <3>2
      <3> QED
        BY <1>1, <1>4, <3>1, <3>2
    <2> QED
      BY <2>1
  <1>6. r # <<>>
    BY <1>1, <1>4
  <1> QED
    BY <1>1, <1>3, <1>4, <1>5, <1>6 DEF InOrder

LEMMA InOrderTail ==
    ASSUME NEW q, NEW n \in 0 .. MaxMessages, InOrder(q, n), q # <<>>
    PROVE  /\ InOrder(Tail(q), n) /\ Len(Tail(q)) = Len(q) - 1
           /\ Head(q) = n - Len(Tail(q)) /\ Head(q) \in Mcp!Messages
  <1>1. /\ q \in Seq(Mcp!Messages) /\ Len(q) \in Nat /\ Len(q) <= n /\ n \in Nat
        /\ \A i \in 1 .. Len(q) : q[i] = n - Len(q) + i
    BY McpAssumption DEF InOrder
  <1>2. PICK r : r = Tail(q)
    OBVIOUS
  <1>3. /\ r \in Seq(Mcp!Messages) /\ Len(r) = Len(q) - 1 /\ Len(q) >= 1 /\ Head(q) = q[1]
        /\ \A i \in 1 .. Len(r) : r[i] = q[i + 1]
    BY <1>1, <1>2
  <1>4. \A i \in 1 .. Len(r) : r[i] = n - Len(r) + i
    BY <1>1, <1>3
  <1>5. q[1] \in Mcp!Messages /\ q[1] = n - Len(q) + 1
    BY <1>1, <1>3, ElementOfSeq
  <1> QED
    BY <1>1, <1>2, <1>3, <1>4, <1>5 DEF InOrder

\* The worker stores what it has still to store, one step at a time.
LEMMA McpStoreStep == ASSUME McpInv, Mcp!Store PROVE McpInv'
  <1>1. /\ mcpWrites # <<>> /\ mcpWrites' = Tail(mcpWrites)
        /\ message' = IF Head(mcpWrites) = "data" THEN offered ELSE message
        /\ mcpLength' = IF Head(mcpWrites) = "length" THEN offered ELSE mcpLength
        /\ signal' = IF Head(mcpWrites) \in {"READY", "CLOSED"} THEN Head(mcpWrites) ELSE signal
        /\ reader' = IF Head(mcpWrites) = "notify" /\ reader = "blocked" THEN "woken"
                     ELSE reader
    BY DEF Mcp!Store
  <1>2. UNCHANGED <<lines, waiting, isProcessing, pendingResponses, offered, inbox, started,
                    lastRequestId, held, got, sawClosed, transport, oversize, arrived, input,
                    answered, mcpTimeouts>>
    BY DEF Mcp!Store, Mcp!outside
  <1>3. /\ mcpHurried' \in BOOLEAN
        /\ ~mcpHurried' => /\ ~mcpHurried
                           /\ reader' = reader \/ signal # "IDLE" \/ Head(mcpWrites) # "notify"
    <2>1. mcpHurried' = (mcpHurried \/ (Head(mcpWrites) = "notify" /\ reader = "blocked"
                                        /\ signal = "IDLE"))
      BY DEF Mcp!Store
    <2>2. ~mcpHurried' => /\ ~mcpHurried
                          /\ \/ Head(mcpWrites) # "notify" \/ reader # "blocked"
                             \/ signal # "IDLE"
      BY <2>1, Zenon
    <2>3. mcpHurried' \in BOOLEAN
      BY <2>1, Zenon
    <2> QED
      BY <1>1, <2>2, <2>3
  <1>4. \/ /\ mcpWrites = FourLeft /\ mcpWrites' = ThreeLeft /\ message' = offered
           /\ UNCHANGED <<mcpLength, signal, reader>>
        \/ /\ mcpWrites = ThreeLeft /\ mcpWrites' = TwoLeft /\ mcpLength' = offered
           /\ UNCHANGED <<message, signal, reader>>
        \/ /\ mcpWrites = TwoLeft /\ mcpWrites' = NotifyLeft /\ signal' = "READY"
           /\ UNCHANGED <<message, mcpLength, reader>>
        \/ /\ mcpWrites = Closing /\ mcpWrites' = NotifyLeft /\ signal' = "CLOSED"
           /\ UNCHANGED <<message, mcpLength, reader>>
        \/ /\ mcpWrites = NotifyLeft /\ mcpWrites' = <<>>
           /\ reader' = IF reader = "blocked" THEN "woken" ELSE reader
           /\ mcpHurried' \/ reader' = reader \/ signal # "IDLE"
           /\ UNCHANGED <<message, mcpLength, signal>>
    <2>1. mcpWrites \in Unflagged \cup {NotifyLeft, Closing}
      BY <1>1 DEF McpInv, McpTypes
    <2> QED
      BY <1>1, <1>3, <2>1, McpWriteFacts DEF Unflagged
  <1>5. McpTypes' /\ Taken' = Taken
    <2>1. /\ mcpWrites' \in Unflagged \cup {NotifyLeft, Closing, <<>>}
          /\ message' \in 0 .. MaxMessages /\ mcpLength' \in 0 .. MaxMessages
          /\ signal' \in {"IDLE", "READY", "CLOSED"}
          /\ reader' \in {"busy", "waiting", "blocked", "woken", "copied"}
      BY <1>4, McpFacts DEF Unflagged
    <2> QED
      BY <1>2, <1>3, <2>1 DEF McpInv, McpTypes, Mcp!TypeOK, Taken
  <1>6. Filled'
    BY <1>2, <1>4, McpWriteFacts DEF McpInv, Filled
  <1>7. ASSUME transport = "http" PROVE OneUnanswered' /\ OwnPosted'
    <2>1. OneUnanswered /\ OwnPosted /\ Filled
      BY <1>7 DEF McpInv
    <2>2. OneUnanswered'
      <3>1. offered \in Nat /\ message \in Nat /\ lastRequestId \in Nat
        BY McpFacts
      <3>2. /\ ~waiting' /\ mcpWrites' # Closing /\ signal' # "CLOSED"
            /\ pendingResponses' = IF isProcessing' THEN {offered'} ELSE {}
            /\ mcpWrites' # <<>> => isProcessing'
            /\ offered' <= Taken' /\ lastRequestId' <= offered'
        BY <1>2, <1>4, <1>5, <2>1, McpWriteFacts DEF OneUnanswered
      <3>3. message' <= offered' /\ mcpWrites' # FourLeft
        BY <1>2, <1>4, <2>1, <3>1, McpWriteFacts DEF OneUnanswered
      <3>4. lastRequestId' = offered' /\ offered' # 0 =>
              /\ held' \in {0, offered'}
              /\ mcpWrites' = ThreeLeft => \/ reader' = "copied"
                                           \/ signal' = "IDLE" /\ reader' # "woken"
        BY <1>2, <1>4, <2>1, McpWriteFacts DEF OneUnanswered
      <3> QED
        BY <3>2, <3>3, <3>4 DEF OneUnanswered
    <2>3. OwnPosted'
      BY <1>2, <2>1 DEF OwnPosted
    <2> QED
      BY <2>2, <2>3
  <1>8. ASSUME ~mcpHurried'
        PROVE  /\ ReadOnce' /\ (transport = "stdio" => AskedOnce')
               /\ (transport = "http" => AnsweredInTurn')
    <2>1. /\ ReadOnce /\ (transport = "stdio" => AskedOnce)
          /\ (transport = "http" => AnsweredInTurn /\ OneUnanswered)
      BY <1>3, <1>8 DEF McpInv
    <2>2. ReadOnce'
      <3>1. Due' = Due
        BY <1>4, <2>1, McpWriteFacts DEF Due, Unflagged, ReadOnce
      <3>2. /\ signal' # "IDLE" => mcpWrites' \in {NotifyLeft, <<>>}
            /\ reader' = "woken" => signal' # "IDLE"
            /\ reader' = "copied" => signal' = "READY"
        BY <1>4, <1>8, <2>1, McpWriteFacts DEF ReadOnce
      <3> QED
        BY <1>2, <1>5, <2>1, <3>1, <3>2 DEF ReadOnce
    <2>3. ASSUME transport = "stdio" PROVE AskedOnce'
      BY <1>2, <1>4, <2>1, <2>3, McpWriteFacts DEF AskedOnce, Unflagged
    <2>4. ASSUME transport = "http" PROVE AnsweredInTurn'
      BY <1>2, <1>4, <2>1, <2>4, McpWriteFacts DEF AnsweredInTurn, OneUnanswered, Unflagged
    <2> QED
      BY <2>2, <2>3, <2>4
  <1> QED
    BY <1>2, <1>5, <1>6, <1>7, <1>8, McpFacts DEF McpInv

\* The worker that reads standard input: a line comes in.
LEMMA OnLineStep == ASSUME McpInv, Mcp!OnLine PROVE McpInv'
  <1>1. PICK n \in Nat : n = arrived + 1
    BY McpFacts
  <1>2. /\ transport = "stdio" /\ started /\ input = "open" /\ arrived < MaxMessages
        /\ mcpWrites = <<>> /\ arrived' = n
        /\ IF waiting
           THEN /\ offered' = n /\ mcpWrites' = FourLeft /\ waiting' = FALSE /\ lines' = lines
           ELSE lines' = Append(lines, n) /\ UNCHANGED <<offered, mcpWrites, waiting>>
        /\ UNCHANGED <<isProcessing, pendingResponses, signal, mcpLength, message, inbox,
                       started, reader, lastRequestId, held, got, sawClosed, transport,
                       oversize, input, answered, mcpTimeouts, mcpHurried>>
    BY <1>1 DEF Mcp!OnLine, Mcp!Signal, Mcp!program, Mcp!shared, FourLeft
  <1>3. n \in 0 .. MaxMessages /\ n \in Mcp!Messages /\ n - 1 = arrived
    <2>1. arrived < MaxMessages
      BY <1>2
    <2> QED
      BY <1>1, <2>1, McpFacts
  <1>4. CASE waiting
    <2>1. McpTypes'
      BY <1>2, <1>3, <1>4, McpFacts DEF McpInv, McpTypes, Mcp!TypeOK, Unflagged
    <2>2. Filled'
      <3>1. lines = <<>> /\ Len(lines) = 0
        BY <1>4 DEF McpInv, Filled
      <3>2. InOrder(lines', n)
        BY <1>2, <1>3, <1>4, <3>1, McpFacts DEF InOrder
      <3> QED
        BY <1>2, <1>4, <3>2, McpWriteFacts DEF McpInv, Filled
    <2>3. ASSUME ~mcpHurried PROVE ReadOnce' /\ AskedOnce'
      <3>1. ReadOnce /\ AskedOnce /\ lines = <<>> /\ Len(lines) = 0
        BY <1>2, <1>4, <2>3 DEF McpInv, Filled
      <3>2. signal = "IDLE" /\ inbox = <<>> /\ reader \notin {"woken", "copied"}
        BY <1>2, <1>4, <3>1, McpFacts DEF AskedOnce, ReadOnce
      <3>3. ~Due /\ Due' /\ Taken = Len(got) /\ Taken' = n /\ Taken = arrived
        BY <1>2, <1>3, <1>4, <3>1, <3>2, McpFacts, McpWriteFacts
        DEF Due, Taken, ReadOnce, Unflagged
      <3>4. ReadOnce'
        BY <1>1, <1>2, <1>4, <3>1, <3>2, <3>3 DEF ReadOnce
      <3>5. AskedOnce'
        BY <1>2, <1>4, <3>1, <3>2, McpWriteFacts DEF AskedOnce
      <3> QED
        BY <3>4, <3>5
    <2> QED
      BY <1>2, <2>1, <2>2, <2>3 DEF McpInv
  <1>5. CASE ~waiting
    <2>1. InOrder(lines', n) /\ Len(lines') = Len(lines) + 1 /\ lines' \in Seq(Mcp!Messages)
      <3>1. InOrder(Append(lines, n), n) /\ Len(Append(lines, n)) = Len(lines) + 1
        BY <1>1, <1>2, McpFacts, InOrderAppend DEF McpInv, Filled
      <3> QED
        BY <1>2, <1>5, <3>1 DEF InOrder
    <2>2. McpTypes'
      BY <1>2, <1>3, <1>5, <2>1, McpFacts DEF McpInv, McpTypes, Mcp!TypeOK
    <2>3. Filled'
      BY <1>2, <1>5, <2>1 DEF McpInv, Filled
    <2>4. ASSUME ~mcpHurried PROVE ReadOnce' /\ AskedOnce'
      <3>1. ReadOnce /\ AskedOnce
        BY <1>2, <2>4 DEF McpInv
      <3>2. Due' = Due
        BY <1>2, <1>5 DEF Due
      <3>3. Taken' = Taken
        <4>1. arrived' = n /\ arrived = n - 1 /\ Len(lines) \in Nat
          BY <1>2, <1>3, McpFacts
        <4> QED
          BY <1>1, <2>1, <4>1 DEF Taken
      <3>4. ReadOnce'
        BY <1>2, <1>5, <3>1, <3>2, <3>3 DEF ReadOnce
      <3>5. AskedOnce'
        BY <1>2, <1>5, <3>1 DEF AskedOnce
      <3> QED
        BY <3>4, <3>5
    <2> QED
      BY <1>2, <2>2, <2>3, <2>4 DEF McpInv
  <1> QED
    BY <1>4, <1>5

\* The input is closed.
LEMMA OnCloseStep == ASSUME McpInv, Mcp!OnClose PROVE McpInv'
  <1>1. /\ transport = "stdio" /\ started /\ input = "open" /\ mcpWrites = <<>>
        /\ \/ waiting /\ mcpWrites' = Closing /\ input' = "closed"
           \/ ~waiting /\ mcpWrites' = mcpWrites /\ input' = "lost"
        /\ UNCHANGED <<lines, waiting, isProcessing, pendingResponses, offered, signal,
                       mcpLength, message, inbox, started, reader, lastRequestId, held, got,
                       sawClosed, transport, oversize, arrived, answered, mcpTimeouts,
                       mcpHurried>>
    BY DEF Mcp!OnClose, Mcp!program, Mcp!shared, Closing
  <1>2. McpTypes' /\ Taken' = Taken
    BY <1>1 DEF McpInv, McpTypes, Mcp!TypeOK, Taken
  <1>3. Filled'
    BY <1>1, McpWriteFacts DEF McpInv, Filled
  <1>4. ASSUME ~mcpHurried PROVE ReadOnce' /\ AskedOnce'
    <2>1. ReadOnce /\ AskedOnce
      BY <1>1, <1>4 DEF McpInv
    <2>2. Due' = Due
      BY <1>1, McpWriteFacts DEF Due, Unflagged
    <2>3. waiting => signal = "IDLE"
      BY <1>1, <2>1, McpFacts DEF AskedOnce
    <2>4. ReadOnce'
      BY <1>1, <1>2, <2>1, <2>2, <2>3 DEF ReadOnce
    <2>5. AskedOnce'
      BY <1>1, <2>1, <2>3, McpWriteFacts DEF AskedOnce, Unflagged
    <2> QED
      BY <2>4, <2>5
  <1> QED
    BY <1>1, <1>2, <1>3, <1>4 DEF McpInv

\* The program asks for the next line.
LEMMA OnAskedStep == ASSUME McpInv, Mcp!OnAsked PROVE McpInv'
  <1>1. /\ transport = "stdio" /\ mcpWrites = <<>> /\ inbox # <<>> /\ inbox' = Tail(inbox)
        /\ IF lines = <<>> THEN waiting' = TRUE /\ UNCHANGED <<lines, offered, mcpWrites>>
           ELSE /\ offered' = Head(lines) /\ mcpWrites' = FourLeft /\ waiting' = FALSE
                /\ lines' = Tail(lines)
        /\ UNCHANGED <<isProcessing, pendingResponses, signal, mcpLength, message, started,
                       reader, lastRequestId, held, got, sawClosed, transport, oversize,
                       arrived, input, answered, mcpTimeouts, mcpHurried>>
    BY DEF Mcp!OnAsked, Mcp!Signal, Mcp!program, Mcp!outside, FourLeft
  <1>2. ASSUME ~mcpHurried
        PROVE  /\ ReadOnce /\ AskedOnce /\ inbox' = <<>> /\ signal = "IDLE" /\ started
               /\ ~waiting /\ reader \notin {"woken", "copied"} /\ ~Due
    <2>1. ReadOnce /\ AskedOnce
      BY <1>1, <1>2 DEF McpInv
    <2>2. inbox = <<0>>
      BY <1>1, <2>1 DEF AskedOnce
    <2>3. Tail(<<0>>) = <<>>
      OBVIOUS
    <2>4. signal = "IDLE" /\ started /\ ~waiting
      BY <1>1, <2>1, McpFacts DEF AskedOnce
    <2> QED
      BY <1>1, <2>1, <2>2, <2>3, <2>4, McpWriteFacts DEF ReadOnce, Due, Unflagged
  <1>3. CASE lines = <<>>
    <2>1. McpTypes' /\ Taken' = Taken
      BY <1>1, <1>3 DEF McpInv, McpTypes, Mcp!TypeOK, Taken
    <2>2. Filled'
      BY <1>1, <1>3 DEF McpInv, Filled
    <2>3. ASSUME ~mcpHurried PROVE ReadOnce' /\ AskedOnce'
      <3>1. Due' = Due
        BY <1>1, <1>3 DEF Due
      <3>2. ReadOnce'
        BY <1>1, <1>2, <1>3, <2>1, <2>3, <3>1 DEF ReadOnce
      <3>3. AskedOnce'
        BY <1>1, <1>2, <1>3, <2>3, McpWriteFacts DEF AskedOnce, Unflagged
      <3> QED
        BY <3>2, <3>3
    <2> QED
      BY <1>1, <2>1, <2>2, <2>3 DEF McpInv
  <1>4. CASE lines # <<>>
    <2>1. /\ InOrder(lines', arrived) /\ Len(lines') = Len(lines) - 1
          /\ offered' = arrived - Len(lines') /\ offered' \in Mcp!Messages
      BY <1>1, <1>4, McpFacts, InOrderTail DEF McpInv, Filled
    <2>2. /\ offered' \in 0 .. MaxMessages /\ lines' \in Seq(Mcp!Messages)
          /\ Taken' = Taken + 1 /\ offered' = Taken'
      <3>1. /\ offered' \in 0 .. MaxMessages /\ lines' \in Seq(Mcp!Messages)
            /\ arrived \in Nat /\ Len(lines) \in Nat
        BY <2>1, McpFacts DEF InOrder
      <3> QED
        BY <1>1, <2>1, <3>1 DEF Taken
    <2>3. McpTypes'
      BY <1>1, <1>4, <2>2, McpFacts DEF McpInv, McpTypes, Mcp!TypeOK, Unflagged
    <2>4. Filled'
      BY <1>1, <1>4, <2>1, McpWriteFacts DEF McpInv, Filled
    <2>5. ASSUME ~mcpHurried PROVE ReadOnce' /\ AskedOnce'
      <3>1. Due'
        BY <1>1, <1>4 DEF Due, Unflagged
      <3>2. ReadOnce'
        BY <1>1, <1>2, <1>4, <2>2, <2>5, <3>1, McpFacts DEF ReadOnce
      <3>3. AskedOnce'
        BY <1>1, <1>2, <1>4, <2>5, McpWriteFacts DEF AskedOnce
      <3> QED
        BY <3>2, <3>3
    <2> QED
      BY <1>1, <2>3, <2>4, <2>5 DEF McpInv
  <1> QED
    BY <1>3, <1>4

\* The next request is offered, if there is one and none is being worked on.
LEMMA OfferNext ==
    ASSUME NEW q, NEW n \in 0 .. MaxMessages, NEW busy \in BOOLEAN, NEW pending,
           InOrder(q, n), Mcp!signalNextRequest(q, busy, pending)
    PROVE  /\ InOrder(lines', n)
           /\ \/ /\ lines' = q /\ isProcessing' = busy /\ pendingResponses' = pending
                 /\ offered' = offered /\ mcpWrites' = mcpWrites
              \/ /\ ~busy /\ isProcessing' = TRUE /\ Len(lines') = Len(q) - 1
                 /\ offered' = n - Len(lines') /\ offered' \in Mcp!Messages
                 /\ pendingResponses' = pending \cup {offered'} /\ mcpWrites' = FourLeft
  <1>1. CASE ~busy /\ q # <<>>
    <2>1. /\ offered' = Head(q) /\ mcpWrites' = FourLeft /\ lines' = Tail(q)
          /\ pendingResponses' = pending \cup {Head(q)} /\ isProcessing' = TRUE
      BY <1>1 DEF Mcp!signalNextRequest, Mcp!MaySignal, Mcp!Signal, FourLeft
    <2> QED
      BY <1>1, <2>1, InOrderTail
  <1>2. CASE ~(~busy /\ q # <<>>)
    BY <1>2 DEF Mcp!signalNextRequest, Mcp!MaySignal
  <1> QED
    BY <1>1, <1>2

\* What is left of what the program has posted belongs to messages offered before.
StillPosted ==
    /\ inbox' \in Seq(Responses)
    /\ \A i \in 1 .. Len(inbox') : \E j \in 1 .. Len(inbox) : inbox'[i] = inbox[j]

LEMMA ResponseFacts ==
    ASSUME McpInv PROVE \A r \in Responses : r.to \in Nat
  <1>1. Mcp!Messages = 1 .. MaxMessages
    BY McpFacts
  <1> QED
    BY <1>1 DEF Responses

\* The worker that answers HTTP requests has offered a request, or none.
LEMMA OfferedStep ==
    ASSUME McpInv, transport = "http", mcpWrites = <<>>, StillPosted,
           arrived' \in 0 .. MaxMessages, InOrder(lines', arrived'), Taken' = Taken + 1,
           isProcessing' = TRUE, offered' = Taken', offered' \in Mcp!Messages,
           pendingResponses' = {offered'}, mcpWrites' = FourLeft,
           ~mcpHurried => signal = "IDLE",
           DOMAIN answered' = Mcp!Messages, \A m \in Mcp!Messages : answered'[m] \in {0, m},
           UNCHANGED <<waiting, signal, mcpLength, message, started, reader, lastRequestId,
                       held, got, transport, input, mcpTimeouts, mcpHurried>>
    PROVE  McpInv'
  <1>1. McpTypes'
    <2>1. /\ lines' \in Seq(Mcp!Messages) /\ offered' \in 0 .. MaxMessages
          /\ pendingResponses' \subseteq Mcp!Messages
      BY McpFacts DEF InOrder
    <2> QED
      BY <2>1 DEF McpInv, McpTypes, Mcp!TypeOK, Unflagged
  <1>2. OneUnanswered /\ OwnPosted /\ Filled
    BY DEF McpInv
  <1>3. offered' > offered
    BY <1>2, McpFacts DEF OneUnanswered
  <1>4. Filled'
    BY <1>2 DEF Filled, OneUnanswered
  <1>5. OneUnanswered'
    <2>1. /\ offered <= Taken /\ message <= offered /\ lastRequestId <= offered
          /\ ~waiting /\ signal # "CLOSED" /\ FourLeft # Closing
      BY <1>2, McpWriteFacts DEF OneUnanswered
    <2>2. message' < offered' /\ lastRequestId' < offered' /\ offered' <= Taken'
      BY <1>3, <2>1, McpFacts
    <2>3. lastRequestId' # offered'
      BY <1>3, <2>1, McpFacts
    <2>4. ~waiting' /\ mcpWrites' # Closing /\ signal' # "CLOSED" /\ isProcessing'
      BY <2>1
    <2>5. lastRequestId' <= offered' /\ message' <= offered'
      BY <1>3, <2>1, McpFacts
    <2> QED
      BY <2>2, <2>3, <2>4, <2>5 DEF OneUnanswered
  <1>6. OwnPosted'
    <2>1. ASSUME NEW i \in 1 .. Len(inbox') PROVE inbox'[i].to < offered'
      <3>1. PICK j \in 1 .. Len(inbox) : inbox'[i] = inbox[j]
        BY DEF StillPosted
      <3>2. inbox[j].to <= offered /\ inbox[j] \in Responses
        BY <1>2 DEF OwnPosted
      <3>3. inbox[j].to \in Nat
        BY <3>2, ResponseFacts
      <3>4. offered \in Nat /\ offered' \in Nat
        BY McpFacts
      <3> QED
        BY <1>3, <3>1, <3>2, <3>3, <3>4
    <2>2. \A i \in 1 .. Len(inbox') : inbox'[i] \in Responses
      BY DEF StillPosted
    <2>3. \A i \in 1 .. Len(inbox') : inbox'[i].to \in Nat
      BY <2>2, ResponseFacts
    <2>4. offered' \in Nat
      BY McpFacts
    <2> QED
      BY <2>1, <2>3, <2>4 DEF OwnPosted, StillPosted
  <1>7. ASSUME ~mcpHurried PROVE ReadOnce' /\ AnsweredInTurn'
    <2>1. ReadOnce /\ signal = "IDLE"
      BY <1>7 DEF McpInv
    <2>2. ~Due /\ Due'
      BY <2>1, McpWriteFacts DEF Due, Unflagged
    <2>3. ReadOnce'
      BY <2>1, <2>2, McpFacts DEF ReadOnce
    <2>4. AnsweredInTurn'
      <3>1. lastRequestId' # offered'
        BY <1>2, <1>3, McpFacts DEF OneUnanswered
      <3>2. \A i \in 1 .. Len(inbox') : inbox'[i].to # offered'
        <4>1. ASSUME NEW i \in 1 .. Len(inbox') PROVE inbox'[i].to # offered'
          <5>1. PICK j \in 1 .. Len(inbox) : inbox'[i] = inbox[j]
            BY DEF StillPosted
          <5>2. inbox[j].to <= offered /\ inbox[j] \in Responses
            BY <1>2 DEF OwnPosted
          <5>3. inbox[j].to \in Nat
            BY <5>2, ResponseFacts
          <5>4. offered \in Nat /\ offered' \in Nat
            BY McpFacts
          <5> QED
            BY <1>3, <5>1, <5>2, <5>3, <5>4
        <4> QED
          BY <4>1
      <3> QED
        BY <3>1, <3>2 DEF AnsweredInTurn
    <2> QED
      BY <2>3, <2>4
  <1> QED
    BY <1>1, <1>4, <1>5, <1>6, <1>7 DEF McpInv

LEMMA NotOfferedStep ==
    ASSUME McpInv, transport = "http", mcpWrites = <<>>, StillPosted,
           arrived' \in 0 .. MaxMessages, InOrder(lines', arrived'), Taken' = Taken,
           isProcessing' \in BOOLEAN, isProcessing' => isProcessing, offered' = offered,
           pendingResponses' = IF isProcessing' THEN {offered} ELSE {},
           mcpWrites' = mcpWrites, ~mcpHurried /\ ~isProcessing' => signal = "IDLE",
           DOMAIN answered' = Mcp!Messages, \A m \in Mcp!Messages : answered'[m] \in {0, m},
           UNCHANGED <<waiting, signal, mcpLength, message, started, reader, lastRequestId,
                       held, got, transport, input, mcpTimeouts, mcpHurried>>
    PROVE  McpInv'
  <1>1. OneUnanswered /\ OwnPosted /\ Filled
    BY DEF McpInv
  <1>2. McpTypes'
    <2>1. lines' \in Seq(Mcp!Messages) /\ pendingResponses' \subseteq Mcp!Messages
      <3>1. isProcessing => {offered} \subseteq Mcp!Messages
        BY <1>1, McpFacts DEF OneUnanswered
      <3> QED
        BY <3>1 DEF InOrder
    <2> QED
      BY <2>1 DEF McpInv, McpTypes, Mcp!TypeOK
  <1>3. Filled'
    BY <1>1 DEF Filled, OneUnanswered
  <1>4. OneUnanswered'
    BY <1>1 DEF OneUnanswered
  <1>5. OwnPosted'
    <2>1. ASSUME NEW i \in 1 .. Len(inbox')
          PROVE  inbox'[i].to <= offered /\ (inbox'[i].to = offered => inbox'[i].about = offered)
      <3>1. PICK j \in 1 .. Len(inbox) : inbox'[i] = inbox[j]
        BY DEF StillPosted
      <3> QED
        BY <1>1, <3>1 DEF OwnPosted
    <2> QED
      BY <2>1 DEF OwnPosted, StillPosted
  <1>6. ASSUME ~mcpHurried PROVE ReadOnce' /\ AnsweredInTurn'
    <2>1. ReadOnce /\ AnsweredInTurn
      BY <1>6 DEF McpInv
    <2>2. Due' = Due
      BY DEF Due
    <2>3. ReadOnce'
      BY <2>1, <2>2 DEF ReadOnce
    <2>4. AnsweredInTurn'
      <3>1. ASSUME isProcessing', NEW i \in 1 .. Len(inbox'), inbox'[i].to = offered
            PROVE  signal = "IDLE"
        <4>1. PICK j \in 1 .. Len(inbox) : inbox'[i] = inbox[j]
          BY DEF StillPosted
        <4> QED
          BY <2>1, <3>1, <4>1 DEF AnsweredInTurn
      <3>2. mcpWrites' \notin Unflagged
        BY McpWriteFacts DEF Unflagged
      <3> QED
        BY <1>6, <2>1, <3>1, <3>2 DEF AnsweredInTurn
    <2> QED
      BY <2>3, <2>4
  <1> QED
    BY <1>2, <1>3, <1>4, <1>5, <1>6 DEF McpInv

LEMMA OnRequestStep == ASSUME McpInv, Mcp!OnRequest PROVE McpInv'
  <1>1. PICK n \in Nat : n = arrived + 1
    BY McpFacts
  <1>2. PICK q : q = Append(lines, n)
    OBVIOUS
  <1>3. /\ transport = "http" /\ mcpWrites = <<>> /\ arrived < MaxMessages /\ arrived' = n
        /\ Mcp!signalNextRequest(q, isProcessing, pendingResponses)
        /\ UNCHANGED <<waiting, signal, mcpLength, message, inbox, started, reader,
                       lastRequestId, held, got, sawClosed, transport, oversize, input,
                       answered, mcpTimeouts, mcpHurried>>
    BY <1>1, <1>2 DEF Mcp!OnRequest, Mcp!program, Mcp!shared
  <1>4. n \in 0 .. MaxMessages
    <2>1. arrived < MaxMessages
      BY <1>3
    <2> QED
      BY <1>1, <2>1, McpFacts
  <1>5. InOrder(q, n) /\ n - Len(q) = Taken /\ Len(q) \in Nat
    <2>1. InOrder(Append(lines, n), n) /\ Len(Append(lines, n)) = Len(lines) + 1
      BY <1>1, <1>3, McpFacts, InOrderAppend DEF McpInv, Filled
    <2>2. InOrder(q, n) /\ Len(q) = Len(lines) + 1
      BY <1>2, <2>1, Zenon
    <2> QED
      BY <1>1, <2>2, McpFacts DEF Taken
  <1>6. /\ InOrder(lines', n)
        /\ \/ /\ lines' = q /\ isProcessing' = isProcessing
              /\ pendingResponses' = pendingResponses
              /\ offered' = offered /\ mcpWrites' = mcpWrites
           \/ /\ ~isProcessing /\ isProcessing' = TRUE /\ Len(lines') = Len(q) - 1
              /\ offered' = n - Len(lines') /\ offered' \in Mcp!Messages
              /\ pendingResponses' = pendingResponses \cup {offered'}
              /\ mcpWrites' = FourLeft
    BY <1>3, <1>4, <1>5, McpFacts, OfferNext
  <1>7. OneUnanswered /\ OwnPosted
    BY <1>3 DEF McpInv
  <1>8. StillPosted
    BY <1>3, <1>7 DEF OwnPosted, StillPosted
  <1>9. DOMAIN answered' = Mcp!Messages /\ \A m \in Mcp!Messages : answered'[m] \in {0, m}
    BY <1>3 DEF McpInv, McpTypes
  <1>10. Taken' = n - Len(lines')
    BY <1>3 DEF Taken
  <1>11. ASSUME lines' = q, isProcessing' = isProcessing, pendingResponses' = pendingResponses,
                offered' = offered, mcpWrites' = mcpWrites
         PROVE  McpInv'
    <2>1. Taken' = Taken
      BY <1>5, <1>10, <1>11
    <2>2. pendingResponses' = IF isProcessing' THEN {offered} ELSE {}
      BY <1>7, <1>11 DEF OneUnanswered
    <2>3. ~mcpHurried /\ ~isProcessing' => signal = "IDLE"
      BY <1>3, <1>11 DEF McpInv, AnsweredInTurn
    <2>4. isProcessing' \in BOOLEAN
      BY <1>11, McpFacts
    <2> QED
      BY <1>3, <1>4, <1>6, <1>8, <1>9, <1>11, <2>1, <2>2, <2>3, <2>4, NotOfferedStep, Zenon
  <1>12. ASSUME ~isProcessing, isProcessing' = TRUE, Len(lines') = Len(q) - 1,
                offered' = n - Len(lines'), offered' \in Mcp!Messages,
                pendingResponses' = pendingResponses \cup {offered'}, mcpWrites' = FourLeft
         PROVE  McpInv'
    <2>1. Taken' = Taken + 1 /\ offered' = Taken'
      BY <1>1, <1>5, <1>10, <1>12
    <2>2. pendingResponses' = {offered'}
      BY <1>7, <1>12 DEF OneUnanswered
    <2>3. ~mcpHurried => signal = "IDLE"
      BY <1>3, <1>12 DEF McpInv, AnsweredInTurn
    <2> QED
      BY <1>3, <1>4, <1>6, <1>8, <1>9, <1>12, <2>1, <2>2, <2>3, OfferedStep, Zenon
  <1> QED
    BY <1>6, <1>11, <1>12

LEMMA OnRespondStep == ASSUME McpInv, Mcp!OnRespond PROVE McpInv'
  <1>1. PICK id, about : id = Head(inbox).to /\ about = Head(inbox).about
    OBVIOUS
  <1>2. /\ transport = "http" /\ mcpWrites = <<>> /\ inbox # <<>> /\ inbox' = Tail(inbox)
        /\ IF id \in pendingResponses
           THEN /\ answered' = [answered EXCEPT ![id] = about]
                /\ Mcp!signalNextRequest(lines, FALSE, pendingResponses \ {id})
           ELSE UNCHANGED <<answered, lines, isProcessing, pendingResponses, offered, mcpWrites>>
        /\ UNCHANGED <<waiting, signal, mcpLength, message, started, reader, lastRequestId,
                       held, got, sawClosed, transport, oversize, arrived, input,
                       mcpTimeouts, mcpHurried>>
    BY <1>1 DEF Mcp!OnRespond, Mcp!program
  <1>3. OneUnanswered /\ OwnPosted /\ Filled
    BY <1>2 DEF McpInv
  <1>4. StillPosted /\ Head(inbox) = inbox[1] /\ 1 \in 1 .. Len(inbox)
    <2>1. /\ inbox \in Seq(Responses) /\ Len(inbox) \in Nat /\ Len(inbox) >= 1
          /\ Tail(inbox) \in Seq(Responses) /\ Len(Tail(inbox)) = Len(inbox) - 1
          /\ \A i \in 1 .. Len(Tail(inbox)) : Tail(inbox)[i] = inbox[i + 1]
          /\ Head(inbox) = inbox[1]
      BY <1>2, <1>3 DEF OwnPosted
    <2>2. \A i \in 1 .. Len(Tail(inbox)) : i + 1 \in 1 .. Len(inbox)
      BY <2>1
    <2> QED
      BY <1>2, <2>1, <2>2 DEF StillPosted
  <1>5. \A m \in Mcp!Messages : answered[m] \in {0, m}
    BY DEF McpInv, McpTypes
  <1>6. CASE id \in pendingResponses
    <2>1. id = offered /\ about = id /\ isProcessing = TRUE /\ pendingResponses \ {id} = {}
          /\ id \in Mcp!Messages
      <3>1. isProcessing = TRUE /\ pendingResponses = {offered}
        BY <1>3, <1>6, McpFacts DEF OneUnanswered
      <3> QED
        BY <1>1, <1>3, <1>4, <1>6, <3>1, McpFacts DEF OwnPosted
    <2>2. DOMAIN answered' = Mcp!Messages /\ \A m \in Mcp!Messages : answered'[m] \in {0, m}
      BY <1>2, <1>5, <1>6, <2>1 DEF McpInv, McpTypes
    <2>3. ~mcpHurried => signal = "IDLE"
      BY <1>1, <1>2, <1>4, <2>1 DEF McpInv, AnsweredInTurn
    <2>4. /\ InOrder(lines', arrived)
          /\ \/ /\ lines' = lines /\ isProcessing' = FALSE /\ pendingResponses' = {}
                /\ offered' = offered /\ mcpWrites' = mcpWrites
             \/ /\ isProcessing' = TRUE /\ Len(lines') = Len(lines) - 1
                /\ offered' = arrived - Len(lines') /\ offered' \in Mcp!Messages
                /\ pendingResponses' = {offered'} /\ mcpWrites' = FourLeft
      <3>1. InOrder(lines, arrived) /\ Mcp!signalNextRequest(lines, FALSE, {})
        BY <1>2, <1>3, <1>6, <2>1 DEF Filled
      <3>2. /\ InOrder(lines', arrived)
            /\ \/ /\ lines' = lines /\ isProcessing' = FALSE /\ pendingResponses' = {}
                  /\ offered' = offered /\ mcpWrites' = mcpWrites
               \/ /\ isProcessing' = TRUE /\ Len(lines') = Len(lines) - 1
                  /\ offered' = arrived - Len(lines') /\ offered' \in Mcp!Messages
                  /\ pendingResponses' = {} \cup {offered'} /\ mcpWrites' = FourLeft
        BY <3>1, McpFacts, OfferNext
      <3> QED
        BY <3>2
    <2>5. arrived' \in 0 .. MaxMessages /\ arrived' = arrived /\ Taken' = arrived - Len(lines')
      BY <1>2, McpFacts DEF Taken
    <2>6. ASSUME lines' = lines, isProcessing' = FALSE, pendingResponses' = {},
                 offered' = offered, mcpWrites' = mcpWrites
          PROVE  McpInv'
      <3>1. Taken' = Taken /\ InOrder(lines', arrived')
        BY <2>4, <2>5, <2>6 DEF Taken
      <3> QED
        BY <1>2, <1>4, <2>2, <2>3, <2>5, <2>6, <3>1, NotOfferedStep
    <2>7. ASSUME isProcessing' = TRUE, Len(lines') = Len(lines) - 1,
                 offered' = arrived - Len(lines'), offered' \in Mcp!Messages,
                 pendingResponses' = {offered'}, mcpWrites' = FourLeft
          PROVE  McpInv'
      <3>1. Taken' = Taken + 1 /\ offered' = Taken' /\ InOrder(lines', arrived')
        BY <2>4, <2>5, <2>7, McpFacts DEF Taken
      <3> QED
        BY <1>2, <1>4, <2>2, <2>3, <2>5, <2>7, <3>1, OfferedStep, Zenon
    <2> QED
      BY <2>4, <2>6, <2>7
  <1>7. CASE id \notin pendingResponses
    <2>1. /\ UNCHANGED <<answered, lines, isProcessing, pendingResponses, offered, mcpWrites>>
          /\ Taken' = Taken /\ arrived' \in 0 .. MaxMessages /\ InOrder(lines', arrived')
      BY <1>2, <1>3, <1>7, McpFacts DEF Taken, Filled
    <2>2. /\ pendingResponses' = IF isProcessing' THEN {offered} ELSE {}
          /\ isProcessing' \in BOOLEAN /\ (isProcessing' => isProcessing)
          /\ ~mcpHurried /\ ~isProcessing' => signal = "IDLE"
      BY <1>2, <1>3, <2>1, McpFacts DEF OneUnanswered, McpInv, AnsweredInTurn
    <2>3. DOMAIN answered' = Mcp!Messages /\ \A m \in Mcp!Messages : answered'[m] \in {0, m}
      BY <1>5, <2>1 DEF McpInv, McpTypes
    <2> QED
      BY <1>2, <1>4, <2>1, <2>2, <2>3, NotOfferedStep, Zenon
  <1> QED
    BY <1>6, <1>7

\* The program's thread waits, stops waiting or is woken: it reads nothing.
LEMMA WaitStep ==
    ASSUME McpInv,
           Mcp!Waits \/ Mcp!Neglects \/ Mcp!Blocks \/ Mcp!TimesOut \/ Mcp!SeesClosed
    PROVE  McpInv'
  <1>1. UNCHANGED <<lines, waiting, isProcessing, pendingResponses, offered, mcpWrites, signal,
                    mcpLength, message, lastRequestId, got, transport, oversize, arrived,
                    input, answered, mcpHurried>>
    BY DEF Mcp!Waits, Mcp!Neglects, Mcp!Blocks, Mcp!TimesOut, Mcp!SeesClosed, Mcp!worker,
           Mcp!shared, Mcp!outside
  <1>2. /\ held' \in {0, held} /\ mcpTimeouts' \in {mcpTimeouts, mcpTimeouts + 1}
        /\ held' # held => transport = "http"
    BY DEF Mcp!Waits, Mcp!Neglects, Mcp!Blocks, Mcp!TimesOut, Mcp!SeesClosed
  <1>3. /\ reader # "copied" /\ reader' \in {"busy", "waiting", "blocked", "woken"}
        /\ reader' = "woken" => reader = "woken" \/ signal # "IDLE"
    BY DEF Mcp!Waits, Mcp!Neglects, Mcp!Blocks, Mcp!TimesOut, Mcp!SeesClosed
  <1>4. \/ /\ started' = started /\ inbox' = inbox
        \/ /\ transport = "stdio" /\ ~started /\ started' = TRUE /\ inbox' = Append(inbox, 0)
        \/ /\ started' = TRUE /\ inbox' = inbox
    BY DEF Mcp!Waits, Mcp!Neglects, Mcp!Blocks, Mcp!TimesOut, Mcp!SeesClosed, Mcp!shared
  <1>5. McpTypes' /\ Taken' = Taken
    <2>1. /\ held' \in 0 .. Mcp!Torn /\ mcpTimeouts' \in Nat
          /\ reader' \in {"busy", "waiting", "blocked", "woken", "copied"}
      BY <1>2, <1>3, McpFacts
    <2>2. started' \in BOOLEAN
      BY <1>4, McpFacts
    <2> QED
      BY <1>1, <2>1, <2>2 DEF McpInv, McpTypes, Mcp!TypeOK, Taken
  <1>6. Filled'
    BY <1>1, <1>2 DEF McpInv, Filled
  <1>7. ASSUME transport = "http" PROVE OneUnanswered' /\ OwnPosted'
    <2>1. OneUnanswered /\ OwnPosted
      BY <1>7 DEF McpInv
    <2>2. OneUnanswered'
      BY <1>1, <1>2, <1>3, <1>5, <2>1 DEF OneUnanswered
    <2>3. inbox' = inbox
      BY <1>4, <1>7
    <2>4. OwnPosted'
      BY <1>1, <2>1, <2>3 DEF OwnPosted
    <2> QED
      BY <2>2, <2>4
  <1>8. ASSUME ~mcpHurried PROVE ReadOnce'
    <2>1. ReadOnce
      BY <1>8 DEF McpInv
    <2>2. Due' = Due
      BY <1>1, <1>3 DEF Due
    <2> QED
      BY <1>1, <1>3, <1>5, <2>1, <2>2 DEF ReadOnce
  <1>9. ASSUME ~mcpHurried, transport = "stdio" PROVE AskedOnce'
    <2>1. AskedOnce
      BY <1>9 DEF McpInv
    <2>2. CASE inbox' = inbox
      BY <1>1, <1>4, <2>1, <2>2 DEF AskedOnce
    <2>3. CASE ~started /\ started' = TRUE /\ inbox' = Append(inbox, 0)
      <3>1. Append(<<>>, 0) = <<0>>
        OBVIOUS
      <3>2. /\ inbox = <<>> /\ inbox' = <<0>> /\ ~waiting /\ signal = "IDLE"
            /\ mcpWrites = <<>>
        BY <2>1, <2>3, <3>1 DEF AskedOnce
      <3> QED
        BY <1>1, <2>1, <2>3, <3>2, McpWriteFacts DEF AskedOnce, Unflagged
    <2> QED
      BY <1>4, <2>2, <2>3
  <1>10. ASSUME ~mcpHurried, transport = "http" PROVE AnsweredInTurn'
    <2>1. AnsweredInTurn /\ inbox' = inbox
      BY <1>4, <1>10 DEF McpInv
    <2> QED
      BY <1>1, <1>3, <2>1 DEF AnsweredInTurn
  <1> QED
    BY <1>1, <1>5, <1>6, <1>7, <1>8, <1>9, <1>10 DEF McpInv

\* The program copies a message out of the buffer.
LEMMA CopyStep ==
    ASSUME McpInv, Mcp!_mcp_stdio_read \/ Mcp!_mcp_http_accept PROVE McpInv'
  <1>1. PICK m : /\ Mcp!Copies(m) /\ m \in {message, Mcp!Torn}
                 /\ \/ /\ transport = "stdio" /\ UNCHANGED <<lastRequestId, held>>
                    \/ /\ transport = "http" /\ held' = m
                       /\ \/ lastRequestId' = lastRequestId
                          \/ lastRequestId' = m /\ m # Mcp!Torn
    BY DEF Mcp!_mcp_stdio_read, Mcp!_mcp_http_accept
  <1>2. /\ reader = "woken" /\ signal # "CLOSED" /\ reader' = "copied"
        /\ m \in IF message = mcpLength THEN {message} ELSE {message, Mcp!Torn}
        /\ got' = Append(got, m)
        /\ UNCHANGED <<lines, waiting, isProcessing, pendingResponses, offered, mcpWrites, signal,
                       mcpLength, message, inbox, started, sawClosed, transport, oversize,
                       arrived, input, answered, mcpTimeouts, mcpHurried>>
    BY <1>1 DEF Mcp!Copies, Mcp!worker, Mcp!shared, Mcp!outside
  <1>3. m \in 0 .. Mcp!Torn /\ (m # Mcp!Torn => m = message /\ m \in 0 .. MaxMessages)
    BY <1>1, McpFacts
  <1>4. PICK r : r = Append(got, m)
    OBVIOUS
  <1>5. /\ r \in Seq(0 .. Mcp!Torn) /\ Len(r) = Len(got) + 1 /\ r[Len(got) + 1] = m
        /\ \A i \in 1 .. Len(got) : r[i] = got[i]
    BY <1>3, <1>4, McpFacts
  <1>6. McpTypes' /\ Taken' = Taken
    <2>1. held' \in 0 .. Mcp!Torn /\ lastRequestId' \in 0 .. MaxMessages
      BY <1>1, <1>3, McpFacts
    <2> QED
      BY <1>2, <1>4, <1>5, <2>1, McpFacts DEF McpInv, McpTypes, Mcp!TypeOK, Taken
  <1>7. Filled'
    BY <1>1, <1>2 DEF McpInv, Filled
  <1>8. ASSUME transport = "http" PROVE OneUnanswered' /\ OwnPosted'
    <2>1. OneUnanswered /\ OwnPosted /\ Filled
      BY <1>8 DEF McpInv
    <2>2. /\ held' = m /\ (lastRequestId' = lastRequestId \/ (lastRequestId' = m /\ m = message))
      BY <1>1, <1>3, <1>8
    <2>3. lastRequestId' <= offered
      BY <2>1, <2>2 DEF OneUnanswered
    <2>4. ASSUME lastRequestId' = offered, offered # 0
          PROVE  m = offered /\ mcpWrites # FourLeft
      <3>1. CASE lastRequestId' = m /\ m = message
        <4>1. mcpWrites = FourLeft => m # offered
          BY <2>1, <3>1, McpFacts DEF OneUnanswered
        <4> QED
          BY <2>4, <3>1, <4>1
      <3>2. CASE lastRequestId = offered
        <4>1. mcpWrites \notin {FourLeft, ThreeLeft}
          BY <1>2, <2>1, <2>4, <3>2 DEF OneUnanswered
        <4>2. message = offered /\ mcpLength = offered
          BY <2>1, <4>1 DEF Filled
        <4> QED
          BY <1>2, <4>1, <4>2
      <3> QED
        BY <2>2, <2>4, <3>1, <3>2
    <2>5. OneUnanswered'
      BY <1>2, <1>6, <2>1, <2>2, <2>3, <2>4 DEF OneUnanswered
    <2>6. OwnPosted'
      BY <1>2, <2>1 DEF OwnPosted
    <2> QED
      BY <2>5, <2>6
  <1>9. ASSUME ~mcpHurried PROVE ReadOnce' /\ mcpWrites \notin Unflagged /\ signal = "READY"
    <2>1. ReadOnce /\ Filled
      BY <1>9 DEF McpInv
    <2>2. signal = "READY" /\ mcpWrites \in {NotifyLeft, <<>>}
      BY <1>2, <2>1, McpFacts DEF ReadOnce
    <2>3. mcpWrites \notin Unflagged /\ m = offered
      BY <1>2, <2>1, <2>2, McpWriteFacts DEF Filled, Unflagged
    <2>4. Due /\ ~Due'
      BY <1>2, <2>2, <2>3 DEF Due
    <2>5. m = Len(got) + 1 /\ Taken = Len(got) + 1
      BY <2>1, <2>3, <2>4 DEF ReadOnce
    <2>6. \A i \in 1 .. Len(r) : r[i] = i
      <3>1. \A i \in 1 .. Len(r) : i \in 1 .. Len(got) \/ i = Len(got) + 1
        BY <1>5, McpFacts
      <3> QED
        BY <1>5, <2>1, <2>5, <3>1 DEF ReadOnce
    <2>7. ReadOnce'
      BY <1>2, <1>4, <1>5, <1>6, <2>1, <2>2, <2>4, <2>5, <2>6 DEF ReadOnce
    <2> QED
      BY <2>2, <2>3, <2>7
  <1>10. ASSUME ~mcpHurried, transport = "stdio" PROVE AskedOnce'
    BY <1>2, <1>10 DEF McpInv, AskedOnce
  <1>11. ASSUME ~mcpHurried, transport = "http" PROVE AnsweredInTurn'
    <2>1. AnsweredInTurn /\ mcpWrites \notin Unflagged /\ signal = "READY"
      BY <1>9, <1>11 DEF McpInv
    <2> QED
      BY <1>2, <2>1 DEF AnsweredInTurn
  <1> QED
    BY <1>2, <1>6, <1>7, <1>8, <1>9, <1>10, <1>11 DEF McpInv

\* The program resets the flag, and over stdio asks for the next line.
LEMMA ReleasesStep == ASSUME McpInv, Mcp!Releases PROVE McpInv'
  <1>1. /\ reader = "copied" /\ reader' = "busy" /\ signal' = "IDLE"
        /\ inbox' = IF transport = "stdio" THEN Append(inbox, 0) ELSE inbox
        /\ UNCHANGED <<lines, waiting, isProcessing, pendingResponses, offered, mcpWrites,
                       mcpLength, message, started, lastRequestId, held, got, sawClosed,
                       transport, oversize, arrived, input, answered, mcpTimeouts, mcpHurried>>
    BY DEF Mcp!Releases, Mcp!worker, Mcp!outside
  <1>2. McpTypes' /\ Taken' = Taken
    BY <1>1 DEF McpInv, McpTypes, Mcp!TypeOK, Taken
  <1>3. Filled'
    BY <1>1 DEF McpInv, Filled
  <1>4. ASSUME transport = "http" PROVE OneUnanswered' /\ OwnPosted'
    <2>1. OneUnanswered /\ OwnPosted
      BY <1>4 DEF McpInv
    <2>2. OneUnanswered'
      BY <1>1, <1>2, <2>1 DEF OneUnanswered
    <2>3. OwnPosted'
      BY <1>1, <1>4, <2>1 DEF OwnPosted
    <2> QED
      BY <2>2, <2>3
  <1>5. ASSUME ~mcpHurried
        PROVE  ReadOnce' /\ signal = "READY" /\ mcpWrites \in {NotifyLeft, <<>>}
    <2>1. ReadOnce
      BY <1>5 DEF McpInv
    <2>2. signal = "READY" /\ mcpWrites \in {NotifyLeft, <<>>}
      BY <1>1, <2>1 DEF ReadOnce
    <2>3. ~Due /\ ~Due'
      BY <1>1, <2>2, McpWriteFacts DEF Due, Unflagged
    <2> QED
      BY <1>1, <1>2, <2>1, <2>2, <2>3 DEF ReadOnce
  <1>6. ASSUME ~mcpHurried, transport = "stdio" PROVE AskedOnce'
    <2>1. AskedOnce
      BY <1>6 DEF McpInv
    <2>2. inbox = <<>> /\ ~waiting /\ started
      BY <1>5, <1>6, <2>1, McpFacts DEF AskedOnce
    <2>3. Append(<<>>, 0) = <<0>>
      OBVIOUS
    <2>4. mcpWrites \notin Unflagged \cup {Closing}
      BY <1>5, <1>6, McpWriteFacts DEF Unflagged
    <2> QED
      BY <1>1, <1>6, <2>1, <2>2, <2>3, <2>4 DEF AskedOnce
  <1>7. ASSUME ~mcpHurried, transport = "http" PROVE AnsweredInTurn'
    <2>1. AnsweredInTurn /\ inbox' = inbox
      BY <1>1, <1>7 DEF McpInv
    <2>2. mcpWrites \notin Unflagged
      BY <1>5, <1>7, McpWriteFacts DEF Unflagged
    <2> QED
      BY <1>1, <2>1, <2>2 DEF AnsweredInTurn
  <1> QED
    BY <1>1, <1>2, <1>3, <1>4, <1>5, <1>6, <1>7 DEF McpInv

\* The program answers the message it holds.
LEMMA RespondStep == ASSUME McpInv, Mcp!_mcp_http_respond PROVE McpInv'
  <1>1. /\ reader = "busy" /\ held # 0 /\ held' = 0 /\ lastRequestId' = 0
        /\ inbox' = IF lastRequestId = 0 THEN inbox
                    ELSE Append(inbox, [to |-> lastRequestId, about |-> held])
        /\ UNCHANGED <<lines, waiting, isProcessing, pendingResponses, offered, mcpWrites,
                       signal, mcpLength, message, started, reader, got, sawClosed,
                       transport, oversize, arrived, input, answered, mcpTimeouts, mcpHurried>>
    BY DEF Mcp!_mcp_http_respond, Mcp!worker, Mcp!outside
  <1>0. transport = "http"
    BY <1>1, McpFacts DEF McpInv, Filled
  <1>2. McpTypes' /\ Taken' = Taken
    BY <1>1, McpFacts DEF McpInv, McpTypes, Mcp!TypeOK, Taken
  <1>3. Filled'
    BY <1>0, <1>1 DEF McpInv, Filled
  <1>4. PICK e : e = [to |-> lastRequestId, about |-> held]
    OBVIOUS
  <1>5. ASSUME lastRequestId # 0
        PROVE  /\ inbox' \in Seq(Responses) /\ inbox \in Seq(Responses)
               /\ Len(inbox') = Len(inbox) + 1 /\ Len(inbox) \in Nat
               /\ \A i \in 1 .. Len(inbox') :
                     inbox'[i] = IF i = Len(inbox) + 1 THEN e ELSE inbox[i]
    <2>1. e \in Responses
      BY <1>4, <1>5, McpFacts DEF Responses
    <2>2. inbox \in Seq(Responses) /\ inbox' = Append(inbox, e)
      BY <1>0, <1>1, <1>4, <1>5 DEF McpInv, OwnPosted
    <2> QED
      BY <2>1, <2>2
  <1>6. OneUnanswered' /\ OwnPosted'
    <2>1. OneUnanswered /\ OwnPosted
      BY <1>0 DEF McpInv
    <2>2. OneUnanswered'
      <3>1. 0 <= offered
        BY McpFacts
      <3> QED
        BY <1>1, <1>2, <2>1, <3>1 DEF OneUnanswered
    <2>3. CASE lastRequestId = 0
      BY <1>1, <2>1, <2>2, <2>3 DEF OwnPosted
    <2>4. CASE lastRequestId # 0
      <3>1. e.to <= offered /\ (e.to = offered => e.about = offered)
        BY <1>1, <1>4, <2>1, <2>4, McpFacts DEF OneUnanswered
      <3>2. ASSUME NEW i \in 1 .. Len(inbox')
            PROVE  inbox'[i].to <= offered /\ (inbox'[i].to = offered => inbox'[i].about = offered)
        <4>1. CASE i = Len(inbox) + 1
          BY <1>5, <2>4, <3>1, <4>1
        <4>2. CASE i # Len(inbox) + 1
          <5>1. i \in 1 .. Len(inbox) /\ inbox'[i] = inbox[i]
            BY <1>5, <2>4, <4>2
          <5> QED
            BY <2>1, <5>1 DEF OwnPosted
        <4> QED
          BY <4>1, <4>2
      <3> QED
        BY <1>1, <1>5, <2>2, <2>4, <3>2 DEF OwnPosted
    <2> QED
      BY <2>2, <2>3, <2>4
  <1>7. ASSUME ~mcpHurried PROVE ReadOnce'
    <2>1. ReadOnce /\ Due' = Due
      BY <1>1, <1>7 DEF McpInv, Due
    <2> QED
      BY <1>1, <1>2, <2>1 DEF ReadOnce
  <1>8. ASSUME ~mcpHurried PROVE AnsweredInTurn'
    <2>1. AnsweredInTurn /\ OneUnanswered
      BY <1>0, <1>8 DEF McpInv
    <2>2. isProcessing /\ lastRequestId = offered => mcpWrites \notin Unflagged /\ signal = "IDLE"
      BY <1>1, <2>1 DEF AnsweredInTurn
    <2>3. isProcessing => offered # 0
      BY <2>1, McpFacts DEF OneUnanswered
    <2>4. ASSUME isProcessing, NEW i \in 1 .. Len(inbox'), inbox'[i].to = offered
          PROVE  mcpWrites \notin Unflagged /\ signal = "IDLE"
      <3>1. CASE lastRequestId = 0
        BY <1>1, <2>1, <2>4, <3>1 DEF AnsweredInTurn
      <3>2. CASE lastRequestId # 0
        <4>1. CASE i = Len(inbox) + 1
          BY <1>4, <1>5, <2>2, <2>4, <3>2, <4>1
        <4>2. CASE i # Len(inbox) + 1
          <5>1. i \in 1 .. Len(inbox) /\ inbox'[i] = inbox[i]
            BY <1>5, <3>2, <4>2
          <5> QED
            BY <2>1, <2>4, <5>1 DEF AnsweredInTurn
        <4> QED
          BY <4>1, <4>2
      <3> QED
        BY <3>1, <3>2
    <2> QED
      BY <1>1, <2>1, <2>3, <2>4 DEF AnsweredInTurn
  <1> QED
    BY <1>0, <1>1, <1>2, <1>3, <1>6, <1>7, <1>8 DEF McpInv

LEMMA McpNext == ASSUME McpInv, [Mcp!Next]_mcpVars PROVE McpInv'
  <1>1. CASE UNCHANGED mcpVars
    <2>1. UNCHANGED <<transport, oversize, arrived, input, lines, waiting, isProcessing,
                      pendingResponses, signal, mcpLength, message, offered, mcpWrites, inbox,
                      started, reader, lastRequestId, held, got, answered, sawClosed,
                      mcpTimeouts, mcpHurried>>
      BY <1>1 DEF mcpVars
    <2>2. UNCHANGED <<Taken, Due>> /\ McpTypes' /\ Filled'
      BY <2>1 DEF McpInv, McpTypes, Mcp!TypeOK, Taken, Due, Filled
    <2>3. (OneUnanswered => OneUnanswered') /\ (OwnPosted => OwnPosted')
      BY <2>1, <2>2 DEF OneUnanswered, OwnPosted
    <2>4. /\ ReadOnce => ReadOnce'
          /\ AskedOnce => AskedOnce'
          /\ AnsweredInTurn => AnsweredInTurn'
      BY <2>1, <2>2 DEF ReadOnce, AskedOnce, AnsweredInTurn
    <2> QED
      BY <2>1, <2>2, <2>3, <2>4 DEF McpInv
  <1> QED
    BY <1>1, McpStoreStep, OnLineStep, OnCloseStep, OnAskedStep, OnRequestStep, OnRespondStep,
       WaitStep, CopyStep, ReleasesStep, RespondStep DEF Mcp!Next, Mcp!Worker, Mcp!Program

LEMMA McpInit == ASSUME Mcp!Init PROVE McpInv
  <1>1. MaxMessages \in Nat
    BY McpAssumption
  <1>2. Len(<<>>) = 0 /\ <<>> \in Seq(Mcp!Messages) /\ <<>> \in Seq(0 .. Mcp!Torn)
        /\ <<>> \in Seq(Responses)
    OBVIOUS
  <1>3. /\ lines = <<>> /\ got = <<>> /\ arrived = 0 /\ signal = "IDLE" /\ reader = "busy"
        /\ mcpWrites = <<>> /\ offered = 0 /\ message = 0 /\ mcpLength = 0 /\ inbox = <<>>
        /\ waiting = FALSE /\ isProcessing = FALSE /\ pendingResponses = {} /\ started = FALSE
        /\ held = 0 /\ lastRequestId = 0 /\ mcpHurried = FALSE
    BY DEF Mcp!Init
  <1>4. McpTypes
    <2>1. /\ transport \in {"stdio", "http"} /\ arrived \in 0 .. MaxMessages
          /\ input \in {"open", "closed", "lost"} /\ signal \in {"IDLE", "READY", "CLOSED"}
          /\ message \in 0 .. MaxMessages /\ mcpLength \in 0 .. MaxMessages
          /\ offered \in 0 .. MaxMessages /\ pendingResponses \subseteq Mcp!Messages
          /\ lastRequestId \in 0 .. MaxMessages
          /\ reader \in {"busy", "waiting", "blocked", "woken", "copied"}
          /\ held \in 0 .. Mcp!Torn /\ mcpTimeouts \in Nat /\ mcpHurried \in BOOLEAN
      <3>1. Mcp!Torn = MaxMessages + 1 /\ 0 \in 0 .. Mcp!Torn /\ 0 \in 0 .. MaxMessages
        BY <1>1 DEF Mcp!Torn
      <3>2. transport \in {"stdio", "http"} /\ input = "open" /\ mcpTimeouts = 0
        BY DEF Mcp!Init
      <3>3. /\ arrived \in 0 .. MaxMessages /\ message \in 0 .. MaxMessages
            /\ mcpLength \in 0 .. MaxMessages /\ offered \in 0 .. MaxMessages
            /\ lastRequestId \in 0 .. MaxMessages /\ held \in 0 .. Mcp!Torn
        BY <1>3, <3>1, Zenon
      <3>4. /\ signal \in {"IDLE", "READY", "CLOSED"} /\ pendingResponses \subseteq Mcp!Messages
            /\ reader \in {"busy", "waiting", "blocked", "woken", "copied"}
            /\ mcpHurried \in BOOLEAN
        BY <1>3, Zenon
      <3> QED
        BY <3>2, <3>3, <3>4
    <2>2. DOMAIN answered = Mcp!Messages /\ \A m \in Mcp!Messages : answered[m] \in {0, m}
      BY DEF Mcp!Init
    <2>3. lines \in Seq(Mcp!Messages) /\ got \in Seq(0 .. Mcp!Torn)
      BY <1>2, <1>3
    <2> QED
      BY <1>3, <2>1, <2>2, <2>3 DEF McpTypes, Mcp!TypeOK
  <1>5. Len(lines) = 0 /\ Len(got) = 0 /\ Len(inbox) = 0 /\ Taken = 0
    <2>1. Len(lines) = 0 /\ Len(got) = 0 /\ Len(inbox) = 0
      BY <1>2, <1>3, Zenon
    <2>2. 0 - 0 = 0
      OBVIOUS
    <2>3. arrived - Len(lines) = 0
      BY <1>3, <2>1, <2>2, Zenon
    <2> QED
      BY <2>1, <2>3 DEF Taken
  <1>6. InOrder(lines, arrived)
    BY <1>2, <1>3, <1>5 DEF InOrder
  <1>7. Filled
    BY <1>3, <1>6 DEF Filled
  <1>8. OneUnanswered /\ OwnPosted
    BY <1>2, <1>3, <1>5, McpWriteFacts DEF OneUnanswered, OwnPosted
  <1>9. ReadOnce
    <2>1. ~Due
      BY <1>3, McpWriteFacts DEF Due, Unflagged
    <2> QED
      BY <1>3, <1>5, <2>1 DEF ReadOnce
  <1>10. AskedOnce /\ AnsweredInTurn
    BY <1>3, <1>5, McpWriteFacts DEF AskedOnce, AnsweredInTurn, Unflagged
  <1> QED
    BY <1>4, <1>7, <1>8, <1>9, <1>10 DEF McpInv

\* A program that serves MCP reads every message once and in the order of arrival, over
\* standard input and over HTTP, with timeouts, neglected requests and requests that do
\* not fit, until a notify that comes late wakes it with nothing stored; whatever it
\* reads, its answers reach only the clients that asked (bridge/mcp.ts and its workers).
THEOREM MessagesAreExact == MCSpec => []McpExact
  <1> DEFINE Inv == part = "mcp" => McpInv
  <1>1. MCInit => Inv
    BY McpInit DEF MCInit
  <1>2. Inv /\ [MCNext]_allVars => Inv'
    <2> SUFFICES ASSUME part' = "mcp", Inv, [MCNext]_allVars PROVE McpInv'
      OBVIOUS
    <2>1. part = "mcp"
      BY DEF MCNext, allVars, ChannelOnly, StoreOnly, HttpOnly, McpOnly, HandlesOnly
    <2>2. [Mcp!Next]_mcpVars
      BY <2>1 DEF MCNext, allVars, ChannelOnly, StoreOnly, HttpOnly, HandlesOnly
    <2> QED
      BY <2>1, <2>2, McpNext
  <1>3. Inv => McpExact
    <2> SUFFICES ASSUME McpInv PROVE Mcp!McpExact
      BY DEF McpExact
    <2>1. ASSUME ~mcpHurried, NEW m \in 1 .. arrived
          PROVE  \/ m \in Mcp!ToSet(lines) \/ m \in Mcp!ToSet(got)
                 \/ offered = m /\ \/ "READY" \in Mcp!ToSet(mcpWrites)
                                   \/ signal = "READY" /\ message = m
      <3>1. /\ arrived \in Nat /\ Len(lines) \in Nat /\ Len(lines) <= arrived
            /\ Taken = arrived - Len(lines) /\ Len(got) \in Nat
            /\ \A i \in 1 .. Len(lines) : lines[i] = Taken + i
        BY McpFacts DEF McpInv, Filled, InOrder, Taken
      <3>2. /\ \A i \in 1 .. Len(got) : got[i] = i
            /\ Taken = IF Due THEN Len(got) + 1 ELSE Len(got)
            /\ Due => offered = Taken
            /\ signal # "IDLE" => mcpWrites \in {NotifyLeft, <<>>}
        BY <2>1 DEF McpInv, ReadOnce
      <3>3. DOMAIN lines = 1 .. Len(lines) /\ DOMAIN got = 1 .. Len(got)
        BY McpFacts
      <3>4. CASE m > Taken
        <4>1. m - Taken \in 1 .. Len(lines) /\ lines[m - Taken] = m
          BY <3>1, <3>4, SMTT(30)
        <4> QED
          BY <3>3, <4>1 DEF Mcp!ToSet
      <3>5. CASE m \in 1 .. Len(got)
        BY <3>2, <3>3, <3>5 DEF Mcp!ToSet
      <3>6. CASE Due /\ m = Taken
        <4>1. CASE mcpWrites \in Unflagged
          <5>1. \E i \in DOMAIN mcpWrites : mcpWrites[i] = "READY"
            <6>1. FourLeft[3] = "READY" /\ 3 \in DOMAIN FourLeft
              BY DEF FourLeft
            <6>2. ThreeLeft[2] = "READY" /\ 2 \in DOMAIN ThreeLeft
              BY DEF ThreeLeft
            <6>3. TwoLeft[1] = "READY" /\ 1 \in DOMAIN TwoLeft
              BY DEF TwoLeft
            <6> QED
              BY <4>1, <6>1, <6>2, <6>3, Zenon DEF Unflagged
          <5> QED
            BY <3>2, <3>6, <5>1, Zenon DEF Mcp!ToSet
        <4>2. CASE signal = "READY"
          BY <3>2, <3>6, <4>2, McpWriteFacts DEF McpInv, Filled
        <4> QED
          BY <3>6, <4>1, <4>2 DEF Due
      <3>7. CASE m <= Taken /\ ~(Due /\ m = Taken)
        <4>1. m \in 1 .. Len(got)
          <5>1. Taken = IF Due THEN Len(got) + 1 ELSE Len(got)
            BY <3>2
          <5> QED
            BY <3>1, <3>7, <5>1
        <4> QED
          BY <3>5, <4>1
      <3> QED
        BY <3>1, <3>4, <3>6, <3>7
    <2>2. ~mcpHurried => \A i \in 1 .. Len(got) : got[i] = i
      BY DEF McpInv, ReadOnce
    <2>3. \A m \in Mcp!Messages : answered[m] \in {0, m}
      BY DEF McpInv, McpTypes
    <2> QED
      BY <2>1, <2>2, <2>3 DEF Mcp!McpExact
  <1> HIDE DEF Inv
  <1> QED
    BY <1>1, <1>2, <1>3, PTL DEF MCSpec

-----------------------------------------------------------------------------
(***************************************************************************)
(* Handles.  Every array has exactly one handle, so that there are never   *)
(* more handles than arrays, and a new array is another one.               *)
(***************************************************************************)
Elements == Handles!Elements
Cells == Elements \cup {Handles!Hole}

HandleTypes ==
    /\ objects \in Seq(Seq(Cells)) /\ Len(objects) <= MaxHandles
    /\ nextList \in Nat \ {0} /\ nextArray \in Nat \ {0}
    /\ nextList + nextArray = Len(objects) + 2
    /\ listStore \in [1 .. nextList - 1 -> 1 .. Len(objects)]
    /\ arrayStore \in [1 .. nextArray - 1 -> 1 .. Len(objects)]
    /\ callback \in [Elements -> Elements]

HandlesDistinct ==
    /\ \A h, g \in DOMAIN listStore : listStore[h] = listStore[g] => h = g
    /\ \A h, g \in DOMAIN arrayStore : arrayStore[h] = arrayStore[g] => h = g
    /\ \A h \in DOMAIN listStore : \A g \in DOMAIN arrayStore : listStore[h] # arrayStore[g]

\* The two tables, the one that has got a new handle first.
Apart(ls, as, count) ==
    /\ \A h, g \in DOMAIN ls : ls[h] = ls[g] => h = g
    /\ \A h, g \in DOMAIN as : as[h] = as[g] => h = g
    /\ \A h \in DOMAIN ls : \A g \in DOMAIN as : ls[h] # as[g]
    /\ \A h \in DOMAIN ls : ls[h] \in 1 .. count
    /\ \A h \in DOMAIN as : as[h] \in 1 .. count

\* A handle for an array that has just been made.
LEMMA HandleAdded ==
    ASSUME NEW ls, NEW as, NEW count \in Nat, NEW next \in Nat \ {0},
           ls \in [1 .. next - 1 -> 1 .. count], Apart(ls, as, count),
           NEW ms, DOMAIN ms = DOMAIN ls \cup {next}, ms[next] = count + 1,
           \A h \in DOMAIN ls : ms[h] = ls[h]
    PROVE  Apart(ms, as, count + 1)
  <1>1. DOMAIN ls = 1 .. next - 1 /\ next \notin DOMAIN ls
    OBVIOUS
  <1>2. /\ DOMAIN ms = DOMAIN ls \cup {next} /\ ms[next] = count + 1
        /\ \A h \in DOMAIN ls : ms[h] = ls[h]
    BY <1>1
  <1>3. /\ \A h \in DOMAIN ls : ls[h] \in 1 .. count
        /\ \A h \in DOMAIN as : as[h] \in 1 .. count
        /\ count + 1 \in 1 .. count + 1 /\ 1 .. count \subseteq 1 .. count + 1
        /\ count + 1 \notin 1 .. count
    <2>1. /\ \A h \in DOMAIN ls : ls[h] \in 1 .. count
          /\ \A h \in DOMAIN as : as[h] \in 1 .. count
      BY DEF Apart
    <2>2. /\ count + 1 \in 1 .. count + 1 /\ 1 .. count \subseteq 1 .. count + 1
          /\ count + 1 \notin 1 .. count
      OBVIOUS
    <2> QED
      BY <2>1, <2>2
  <1>4. \A h \in DOMAIN ms : ms[h] \in 1 .. count + 1
    BY <1>2, <1>3
  <1>5. \A h, g \in DOMAIN ms : ms[h] = ms[g] => h = g
    <2> SUFFICES ASSUME NEW h \in DOMAIN ms, NEW g \in DOMAIN ms, ms[h] = ms[g] PROVE h = g
      OBVIOUS
    <2>1. CASE h \in DOMAIN ls /\ g \in DOMAIN ls
      BY <1>2, <2>1 DEF Apart
    <2>2. h = next <=> g = next
      BY <1>1, <1>2, <1>3
    <2> QED
      BY <1>2, <2>1, <2>2
  <1>6. \A h \in DOMAIN ms : \A g \in DOMAIN as : ms[h] # as[g]
    <2> SUFFICES ASSUME NEW h \in DOMAIN ms, NEW g \in DOMAIN as PROVE ms[h] # as[g]
      OBVIOUS
    <2>1. CASE h \in DOMAIN ls
      BY <1>2, <2>1 DEF Apart
    <2>2. CASE h = next
      BY <1>2, <1>3, <2>2
    <2> QED
      BY <1>2, <2>1, <2>2
  <1> QED
    BY <1>3, <1>4, <1>5, <1>6 DEF Apart

LEMMA ApartIs ==
    ASSUME HandleTypes
    PROVE  /\ HandlesDistinct <=> Apart(listStore, arrayStore, Len(objects))
           /\ HandlesDistinct <=> Apart(arrayStore, listStore, Len(objects))
           /\ Len(objects) \in Nat
  <1>1. Len(objects) \in Nat
    BY LenProperties DEF HandleTypes
  <1>2. /\ \A h \in DOMAIN listStore : listStore[h] \in 1 .. Len(objects)
        /\ \A h \in DOMAIN arrayStore : arrayStore[h] \in 1 .. Len(objects)
    BY DEF HandleTypes
  <1> QED
    BY <1>1, <1>2 DEF HandlesDistinct, Apart

\* An object is appended and gets a handle in one of the tables.
LEMMA ObjectStored ==
    ASSUME HandleTypes, HandlesDistinct, Len(objects) < MaxHandles,
           NEW contents \in Seq(Cells), objects' = Append(objects, contents),
           callback' = callback,
           \/ /\ listStore' = [h \in DOMAIN listStore \cup {nextList} |->
                                  IF h = nextList THEN Len(objects) + 1 ELSE listStore[h]]
              /\ nextList' = nextList + 1 /\ UNCHANGED <<arrayStore, nextArray>>
           \/ /\ arrayStore' = [h \in DOMAIN arrayStore \cup {nextArray} |->
                                   IF h = nextArray THEN Len(objects) + 1 ELSE arrayStore[h]]
              /\ nextArray' = nextArray + 1 /\ UNCHANGED <<listStore, nextList>>
    PROVE  HandleTypes' /\ HandlesDistinct'
  <1>1. Len(objects) \in Nat /\ objects \in Seq(Seq(Cells))
    BY ApartIs DEF HandleTypes
  <1>2. objects' \in Seq(Seq(Cells)) /\ Len(objects') = Len(objects) + 1
    BY <1>1, AppendProperties
  <1>3. Len(objects') <= MaxHandles /\ 1 .. Len(objects) \subseteq 1 .. Len(objects')
    BY <1>1, <1>2, HandlesAssumption
  <1>4. CASE UNCHANGED <<arrayStore, nextArray>>
    <2>1. /\ listStore' = [h \in DOMAIN listStore \cup {nextList} |->
                             IF h = nextList THEN Len(objects) + 1 ELSE listStore[h]]
          /\ nextList' = nextList + 1
      BY <1>4 DEF HandleTypes
    <2>2. /\ listStore \in [1 .. nextList - 1 -> 1 .. Len(objects)] /\ nextList \in Nat \ {0}
          /\ Apart(listStore, arrayStore, Len(objects))
      BY ApartIs DEF HandleTypes
    <2>3. /\ listStore' \in [1 .. (nextList + 1) - 1 -> 1 .. Len(objects) + 1]
          /\ Apart(listStore', arrayStore', Len(objects) + 1)
      <3>1. /\ DOMAIN listStore = 1 .. nextList - 1
            /\ DOMAIN listStore \cup {nextList} = 1 .. (nextList + 1) - 1
            /\ nextList \notin DOMAIN listStore
        BY <2>2
      <3>2. /\ DOMAIN listStore' = DOMAIN listStore \cup {nextList} /\ listStore'[nextList] = Len(objects) + 1
            /\ \A h \in DOMAIN listStore : listStore'[h] = listStore[h]
        BY <2>1, <3>1
      <3>3. \A h \in DOMAIN listStore : listStore[h] \in 1 .. Len(objects) + 1
        BY <1>1, <2>2
      <3>4. listStore' \in [1 .. (nextList + 1) - 1 -> 1 .. Len(objects) + 1]
        BY <1>1, <2>1, <3>1, <3>3
      <3>5. Apart(listStore', arrayStore, Len(objects) + 1)
        BY <1>1, <2>2, <3>2, HandleAdded
      <3> QED
        BY <1>4, <3>4, <3>5
    <2>4. arrayStore' \in [1 .. nextArray' - 1 -> 1 .. Len(objects')]
      BY <1>3, <1>4 DEF HandleTypes
    <2>5. nextList' \in Nat \ {0} /\ nextList' + nextArray' = Len(objects') + 2
      BY <1>1, <1>2, <1>4, <2>1, <2>2 DEF HandleTypes
    <2>6. HandleTypes'
      BY <1>2, <1>3, <1>4, <2>1, <2>3, <2>4, <2>5, SMTT(30) DEF HandleTypes
    <2> QED
      BY <2>3, <2>6 DEF HandlesDistinct, Apart
  <1>5. CASE UNCHANGED <<listStore, nextList>>
    <2>1. /\ arrayStore' = [h \in DOMAIN arrayStore \cup {nextArray} |->
                              IF h = nextArray THEN Len(objects) + 1 ELSE arrayStore[h]]
          /\ nextArray' = nextArray + 1
      BY <1>5 DEF HandleTypes
    <2>2. /\ arrayStore \in [1 .. nextArray - 1 -> 1 .. Len(objects)] /\ nextArray \in Nat \ {0}
          /\ Apart(arrayStore, listStore, Len(objects))
      BY ApartIs DEF HandleTypes
    <2>3. /\ arrayStore' \in [1 .. (nextArray + 1) - 1 -> 1 .. Len(objects) + 1]
          /\ Apart(arrayStore', listStore', Len(objects) + 1)
      <3>1. /\ DOMAIN arrayStore = 1 .. nextArray - 1
            /\ DOMAIN arrayStore \cup {nextArray} = 1 .. (nextArray + 1) - 1
            /\ nextArray \notin DOMAIN arrayStore
        BY <2>2
      <3>2. /\ DOMAIN arrayStore' = DOMAIN arrayStore \cup {nextArray} /\ arrayStore'[nextArray] = Len(objects) + 1
            /\ \A h \in DOMAIN arrayStore : arrayStore'[h] = arrayStore[h]
        BY <2>1, <3>1
      <3>3. \A h \in DOMAIN arrayStore : arrayStore[h] \in 1 .. Len(objects) + 1
        BY <1>1, <2>2
      <3>4. arrayStore' \in [1 .. (nextArray + 1) - 1 -> 1 .. Len(objects) + 1]
        BY <1>1, <2>1, <3>1, <3>3
      <3>5. Apart(arrayStore', listStore, Len(objects) + 1)
        BY <1>1, <2>2, <3>2, HandleAdded
      <3> QED
        BY <1>5, <3>4, <3>5
    <2>4. listStore' \in [1 .. nextList' - 1 -> 1 .. Len(objects')]
      BY <1>3, <1>5 DEF HandleTypes
    <2>5. nextArray' \in Nat \ {0} /\ nextList' + nextArray' = Len(objects') + 2
      BY <1>1, <1>2, <1>5, <2>1, <2>2 DEF HandleTypes
    <2>6. HandleTypes'
      BY <1>2, <1>3, <1>5, <2>1, <2>3, <2>4, <2>5 DEF HandleTypes
    <2> QED
      BY <2>3, <2>6 DEF HandlesDistinct, Apart
  <1> QED
    BY <1>4, <1>5

\* The contents that the functions make of an array.
LEMMA Rearranged ==
    ASSUME NEW S, NEW s \in Seq(S)
    PROVE  /\ \A i, j \in Nat : SubSeq(s, i + 1, IF j > Len(s) THEN Len(s) ELSE j) \in Seq(S)
           /\ \A i \in Nat : Handles!Cut(s, i) \in Seq(S)
           /\ \A i \in Nat, v \in S : Handles!Replaced(s, i, v) \in Seq(S)
           /\ s # <<>> => Handles!Front(s) \in Seq(S)
           /\ Handles!Reverse(s) \in Seq(S)
           /\ \A p \in Handles!Orders(s) : [i \in DOMAIN p |-> s[p[i]]] \in Seq(S)
  <1>1. /\ Len(s) \in Nat /\ DOMAIN s = 1 .. Len(s) /\ s \in [1 .. Len(s) -> S]
        /\ \A i \in 1 .. Len(s) : s[i] \in S
    BY LenProperties, ElementOfSeq
  <1>2. ASSUME NEW i \in Nat, NEW j \in Nat, j <= Len(s) PROVE SubSeq(s, i + 1, j) \in Seq(S)
    <2>1. \A k \in i + 1 .. j : s[k] \in S
      BY <1>1, <1>2
    <2> QED
      BY <2>1, SubSeqProperties
  <1>3. ASSUME NEW i \in Nat, NEW j \in Nat
        PROVE  SubSeq(s, i + 1, IF j > Len(s) THEN Len(s) ELSE j) \in Seq(S)
    <2>1. PICK n : n = IF j > Len(s) THEN Len(s) ELSE j
      OBVIOUS
    <2>2. n \in Nat /\ n <= Len(s)
      BY <1>1, <2>1
    <2>3. SubSeq(s, i + 1, n) \in Seq(S)
      BY <1>2, <2>2
    <2> QED
      BY <2>1, <2>3
  <1>4. ASSUME NEW i \in Nat PROVE Handles!Cut(s, i) \in Seq(S)
    <2>1. CASE i < Len(s)
      <3>1. i + 1 \in 1 .. Len(s)
        BY <1>1, <2>1
      <3>2. RemoveAt(s, i + 1) \in Seq(S)
        BY <3>1, RemoveAtFacts
      <3> QED
        BY <2>1, <3>2 DEF Handles!Cut, Handles!RemoveAt, RemoveAt
    <2>2. CASE ~(i < Len(s))
      BY <2>2 DEF Handles!Cut
    <2> QED
      BY <2>1, <2>2
  <1>5. ASSUME NEW i \in Nat, NEW v \in S PROVE Handles!Replaced(s, i, v) \in Seq(S)
    BY ExceptSeq, <1>1 DEF Handles!Replaced
  <1>6. s # <<>> => Handles!Front(s) \in Seq(S)
    <2> SUFFICES ASSUME s # <<>> PROVE Handles!Front(s) \in Seq(S)
      OBVIOUS
    <2>1. Len(s) - 1 \in Nat /\ Len(s) - 1 <= Len(s)
      BY <1>1, EmptySeq
    <2>2. SubSeq(s, 0 + 1, Len(s) - 1) \in Seq(S)
      BY <1>2, <2>1
    <2> QED
      BY <2>2 DEF Handles!Front
  <1>7. Handles!Reverse(s) \in Seq(S)
    <2>1. \A i \in 1 .. Len(s) : (Len(s) - i) + 1 \in 1 .. Len(s)
      BY <1>1
    <2>2. Handles!Reverse(s) \in [1 .. Len(s) -> S]
      BY <1>1, <2>1 DEF Handles!Reverse
    <2> QED
      BY <1>1, <2>2
  <1>8. ASSUME NEW p \in Handles!Orders(s) PROVE [i \in DOMAIN p |-> s[p[i]]] \in Seq(S)
    <2>1. p \in [DOMAIN s -> DOMAIN s]
      BY DEF Handles!Orders
    <2>2. [i \in DOMAIN p |-> s[p[i]]] \in [1 .. Len(s) -> S]
      BY <1>1, <2>1
    <2> QED
      BY <1>1, <2>2
  <1> QED
    BY <1>3, <1>4, <1>5, <1>6, <1>7, <1>8

-----------------------------------------------------------------------------
(***************************************************************************)
(* Walks.  Whatever the callbacks do elsewhere, as long as the elements    *)
(* that an array had are kept, what a walk of it has gathered is what the  *)
(* function promises for the elements so far.                              *)
(***************************************************************************)
\* The places among the first n whose elements the callback accepts.
HitsOf(cb, s, n) == Ascending({i \in 1 .. n : cb[s[i]] # 0})
Combined(cb, acc, v) == (2 * acc + cb[v]) % (Top + 1)
IsValue(cb, s, f, n) ==
    f = [i \in 0 .. n |-> IF i = 0 THEN 0 ELSE Combined(cb, f[i - 1], s[i])]
Value(cb, s) == CHOOSE f : IsValue(cb, s, f, Len(s))

Prefix(cb, s, o, n) ==
    CASE o = "filter" -> [k \in DOMAIN HitsOf(cb, s, n) |-> s[HitsOf(cb, s, n)[k]]]
      [] o = "map" -> [i \in 1 .. n |-> cb[s[i]]]
      [] o = "reduce" -> <<Value(cb, s)[n]>>
      [] o = "find" -> IF HitsOf(cb, s, n) = <<>> THEN <<>> ELSE <<s[HitsOf(cb, s, n)[1]]>>

Operations == {"filter", "map", "reduce", "find"}
Walks ==
    [op : Operations, on : Nat, i : Nat, len : Nat, arg : Elements, out : Seq(Elements),
     was : Seq(Elements), cut : BOOLEAN]

Extends(t, s) == Len(s) <= Len(t) /\ \A i \in 1 .. Len(s) : t[i] = s[i]

\* What a walk of the array s holds after n elements of it.
Gathered(cb, s, w, n) ==
    /\ s \in Seq(Elements) /\ w.len = Len(w.was)
    /\ w.op \in {"filter", "map"} => n <= w.len
    /\ w.op = "map" => Len(w.out) = n
    /\ w.op = "filter" => Len(w.out) <= n
    /\ w.op = "reduce" => \E acc \in Elements : w.out = <<acc>>
    /\ ~w.cut => /\ Extends(s, w.was) /\ n <= Len(s)
                 /\ w.out = Prefix(cb, s, w.op, n)

\* A walk that stands in the callback for its element number i.
Frame(cb, s, w) ==
    /\ w.i >= 1 /\ Gathered(cb, s, w, w.i - 1)
    /\ w.op \in {"filter", "map"} => w.i <= w.len
    /\ w.op = "find" => w.out = <<>>
    /\ ~w.cut => w.i <= Len(s) /\ w.arg = s[w.i]

Frames(cb, objs, ws) ==
    \A k \in 1 .. Len(ws) :
        ws[k].on \in 1 .. Len(objs) /\ Frame(cb, objs[ws[k].on], ws[k])

WalkInv ==
    /\ walks \in Seq(Walks) /\ Len(objects) + Len(walks) <= MaxHandles
    /\ Frames(callback, objects, walks)

FoundInv ==
    found.op # "none" =>
        /\ found.op \in Operations /\ found.was \in Seq(Elements) /\ found.now \in Seq(Elements)
        /\ ~found.cut =>
              LET that == IF found.op \in {"filter", "map"} THEN found.was ELSE found.now
              IN  found.is = Prefix(callback, that, found.op, Len(that))
        /\ found.op = "filter" => Len(found.is) <= Len(found.was)
        /\ found.op = "map" => Len(found.is) = Len(found.was)

HandlesInv == HandleTypes /\ HandlesDistinct /\ WalkInv /\ FoundInv

LEMMA HandlesAscending == \A S : Handles!Ascending(S) = Ascending(S)
  BY DEF Handles!Ascending, Ascending, Handles!Increasing, Increasing, Handles!Cardinality,
     Cardinality

LEMMA CellFacts ==
    /\ Elements = 0 .. Top /\ Handles!Hole = Top + 1 /\ Handles!Hole \notin Elements
    /\ 0 \in Elements /\ Elements \subseteq Cells /\ Elements \subseteq Nat
    /\ \A c \in Cells : c # Handles!Hole => c \in Elements
  BY HandlesAssumption DEF Elements, Cells, Handles!Elements, Handles!Hole

LEMMA CombineFacts ==
    ASSUME NEW cb \in [Elements -> Elements], NEW acc \in Elements, NEW v \in Elements
    PROVE  Combined(cb, acc, v) \in Elements
  <1>1. cb[v] \in Nat /\ acc \in Nat /\ Top \in Nat
    BY CellFacts, HandlesAssumption
  <1>2. 2 * acc + cb[v] \in Nat /\ Top + 1 \in Nat \ {0}
    BY <1>1
  <1>3. (2 * acc + cb[v]) % (Top + 1) \in 0 .. (Top + 1) - 1
    BY <1>2
  <1> QED
    BY <1>1, <1>3, CellFacts DEF Combined

\* The function that reduce computes exists; otherwise there would be a least number
\* of elements for which it does not.
LEMMA ValueExists ==
    ASSUME NEW s \in Seq(Elements), NEW cb \in [Elements -> Elements]
    PROVE  /\ IsValue(cb, s, Value(cb, s), Len(s)) /\ Value(cb, s)[0] = 0
           /\ \A n \in 1 .. Len(s) : Value(cb, s)[n] = Combined(cb, Value(cb, s)[n - 1], s[n])
  <1> DEFINE Missing == {n \in Nat : n <= Len(s) /\ ~\E f : IsValue(cb, s, f, n)}
  <1>1. Len(s) \in Nat
    BY LenProperties
  <1>2. ASSUME Missing # {} PROVE FALSE
    <2>1. Missing \subseteq Nat
      OBVIOUS
    <2>2. PICK n \in Missing : \A m \in Missing : n <= m
      BY <1>2, <2>1, LeastNatural
    <2>3. n \in Nat /\ n <= Len(s) /\ ~\E f : IsValue(cb, s, f, n)
      BY <2>2
    <2>4. n # 0
      <3>1. PICK f : f = [i \in 0 .. 0 |-> 0]
        OBVIOUS
      <3>2. \A i \in 0 .. 0 : i = 0 /\ f[i] = 0
        BY <3>1
      <3>3. f = [i \in 0 .. 0 |-> IF i = 0 THEN 0 ELSE Combined(cb, f[i - 1], s[i])]
        BY <3>1, <3>2
      <3> QED
        BY <2>3, <3>3 DEF IsValue
    <2>5. n - 1 \in Nat /\ n - 1 < n /\ n - 1 <= Len(s)
      BY <1>1, <2>3, <2>4
    <2>6. PICK g : IsValue(cb, s, g, n - 1)
      <3>1. n - 1 \notin Missing
        <4>1. \A m \in Missing : n <= m
          BY <2>2
        <4> HIDE DEF Missing
        <4>2. n - 1 \in Missing => n <= n - 1
          BY <4>1
        <4> QED
          BY <2>3, <2>5, <4>2
      <3> QED
        BY <2>5, <3>1
    <2>7. PICK f : f = [i \in 0 .. n |-> IF i < n THEN g[i]
                                         ELSE Combined(cb, g[n - 1], s[n])]
      OBVIOUS
    <2>8. ASSUME NEW i \in 0 .. n
          PROVE  f[i] = IF i = 0 THEN 0 ELSE Combined(cb, f[i - 1], s[i])
      <3>1. CASE i < n
        <4>1. i \in 0 .. n - 1 /\ f[i] = g[i]
          BY <2>3, <2>7, <3>1
        <4>2. g[i] = IF i = 0 THEN 0 ELSE Combined(cb, g[i - 1], s[i])
          BY <2>6, <4>1 DEF IsValue
        <4>3. i # 0 => i - 1 \in 0 .. n /\ i - 1 < n
          BY <2>3, <3>1
        <4>4. i # 0 => f[i - 1] = g[i - 1]
          BY <2>7, <4>3
        <4> QED
          BY <4>1, <4>2, <4>4
      <3>2. CASE ~(i < n)
        <4>1. i = n /\ n - 1 \in 0 .. n /\ n - 1 < n /\ n \in 0 .. n /\ ~(n < n)
          BY <2>3, <2>5, <3>2
        <4>2. f[n] = Combined(cb, g[n - 1], s[n]) /\ f[n - 1] = g[n - 1]
          BY <2>7, <4>1
        <4> QED
          BY <2>4, <4>1, <4>2
      <3> QED
        BY <3>1, <3>2
    <2>9. DOMAIN f = 0 .. n /\ f = [i \in DOMAIN f |-> f[i]]
      BY <2>7
    <2>10. IsValue(cb, s, f, n)
      BY <2>8, <2>9 DEF IsValue
    <2> QED
      BY <2>3, <2>10
  <1>3. \E f : IsValue(cb, s, f, Len(s))
    BY <1>1, <1>2
  <1>4. IsValue(cb, s, Value(cb, s), Len(s))
    BY <1>3 DEF Value
  <1> HIDE DEF Value
  <1>5. PICK v : v = Value(cb, s)
    OBVIOUS
  <1>6. v = [i \in 0 .. Len(s) |->
                IF i = 0 THEN 0 ELSE Combined(cb, v[i - 1], s[i])]
    BY <1>4, <1>5 DEF IsValue
  <1>7. v[0] = 0 /\ \A n \in 1 .. Len(s) : v[n] = Combined(cb, v[n - 1], s[n])
    BY <1>1, <1>6
  <1> QED
    BY <1>4, <1>5, <1>7

LEMMA HitsFacts ==
    ASSUME NEW s \in Seq(Elements), NEW cb \in [Elements -> Elements], NEW n \in Nat, n < Len(s)
    PROVE  /\ HitsOf(cb, s, n) \in Seq(1 .. n) /\ HitsOf(cb, s, 0) = <<>>
           /\ HitsOf(cb, s, n + 1) = IF cb[s[n + 1]] # 0 THEN Append(HitsOf(cb, s, n), n + 1)
                              ELSE HitsOf(cb, s, n)
  <1> DEFINE Hits(m) == {i \in 1 .. m : cb[s[i]] # 0}
  <1>1. \A m \in Nat : Hits(m) \subseteq 1 .. m /\ Hits(m) \subseteq Nat /\ IsFiniteSet(Hits(m))
    <2> SUFFICES ASSUME NEW m \in Nat
                 PROVE  Hits(m) \subseteq 1 .. m /\ Hits(m) \subseteq Nat /\ IsFiniteSet(Hits(m))
      OBVIOUS
    <2>1. IsFiniteSet(1 .. m)
      BY FS_Interval
    <2>2. Hits(m) \subseteq 1 .. m
      OBVIOUS
    <2> QED
      BY <2>1, <2>2, FS_Subset
  <1>2. HitsOf(cb, s, n) \in Seq(1 .. n)
    <2>1. Enumerates(Ascending(Hits(n)), Hits(n))
      BY <1>1, AscendingEnumerates
    <2> QED
      BY <1>1, <2>1, SeqMonotonic DEF Enumerates, HitsOf
  <1>3. HitsOf(cb, s, 0) = <<>>
    <2>1. Hits(0) = {}
      OBVIOUS
    <2>2. Enumerates(Ascending({}), {})
      BY <1>1, <2>1, AscendingEnumerates
    <2>3. Ascending({}) = <<>>
      BY <2>2, EmptySeq DEF Enumerates
    <2> QED
      BY <2>1, <2>3 DEF HitsOf
  <1>4. CASE cb[s[n + 1]] # 0
    <2>1. Hits(n + 1) = Hits(n) \cup {n + 1}
      BY <1>4
    <2>2. \A a \in Hits(n) : a < n + 1
      OBVIOUS
    <2>3. Ascending(Hits(n) \cup {n + 1}) = Append(Ascending(Hits(n)), n + 1)
      <3>1. PICK A : A = Hits(n)
        OBVIOUS
      <3>2. A \subseteq Nat /\ IsFiniteSet(A) /\ n + 1 \in Nat /\ \A a \in A : a < n + 1
        BY <1>1, <2>2, <3>1
      <3>3. Ascending(A \cup {n + 1}) = Append(Ascending(A), n + 1)
        BY <3>2, AscendingAppend
      <3> QED
        BY <3>1, <3>3
    <2> QED
      BY <1>2, <1>3, <1>4, <2>1, <2>3 DEF HitsOf
  <1>5. CASE cb[s[n + 1]] = 0
    <2>1. Hits(n + 1) = Hits(n)
      BY <1>5
    <2> QED
      BY <1>2, <1>3, <1>5, <2>1 DEF HitsOf
  <1> QED
    BY <1>4, <1>5

\* What one more element adds to what a walk has gathered.
LEMMA PrefixNext ==
    ASSUME NEW s \in Seq(Elements), NEW cb \in [Elements -> Elements], NEW n \in Nat, n < Len(s)
    PROVE  LET v == s[n + 1]
           IN  /\ v \in Elements /\ cb[v] \in Elements
               /\ Prefix(cb, s, "map", n + 1) = Append(Prefix(cb, s, "map", n), cb[v])
               /\ Prefix(cb, s, "filter", n + 1) =
                     IF cb[v] = 0 THEN Prefix(cb, s, "filter", n) ELSE Append(Prefix(cb, s, "filter", n), v)
               /\ \A acc : Prefix(cb, s, "reduce", n) = <<acc>> =>
                     Prefix(cb, s, "reduce", n + 1) = <<Combined(cb, acc, v)>>
               /\ Prefix(cb, s, "find", n) = <<>> =>
                     Prefix(cb, s, "find", n + 1) = IF cb[v] = 0 THEN <<>> ELSE <<v>>
  <1>1. Len(s) \in Nat /\ \A i \in 1 .. Len(s) : s[i] \in Elements
    BY LenProperties, ElementOfSeq
  <1>2. PICK v : v = s[n + 1]
    OBVIOUS
  <1>3. n + 1 \in 1 .. Len(s) /\ cb \in [Elements -> Elements]
    BY <1>1
  <1>4. v \in Elements /\ cb[v] \in Elements
    BY <1>1, <1>2, <1>3
  <1>5. PICK h : h = HitsOf(cb, s, n)
    OBVIOUS
  <1>6. /\ h \in Seq(1 .. n) /\ Len(h) \in Nat /\ DOMAIN h = 1 .. Len(h)
        /\ \A k \in 1 .. Len(h) : h[k] \in 1 .. n
        /\ HitsOf(cb, s, n + 1) = IF cb[v] # 0 THEN Append(h, n + 1) ELSE h
    <2>1. /\ h \in Seq(1 .. n)
          /\ HitsOf(cb, s, n + 1) = IF cb[v] # 0 THEN Append(h, n + 1) ELSE h
      BY <1>2, <1>5, HitsFacts
    <2> QED
      BY <2>1, LenProperties, ElementOfSeq
  <1>7. /\ Append(h, n + 1) \in Seq(Nat) /\ Len(Append(h, n + 1)) = Len(h) + 1
        /\ DOMAIN Append(h, n + 1) = 1 .. Len(h) + 1
        /\ Append(h, n + 1)[Len(h) + 1] = n + 1
        /\ \A k \in 1 .. Len(h) : Append(h, n + 1)[k] = h[k]
    <2>1. h \in Seq(Nat) /\ n + 1 \in Nat
      BY <1>6, SeqMonotonic
    <2>2. Append(h, n + 1) \in Seq(Nat) /\ Len(Append(h, n + 1)) = Len(h) + 1
      BY <2>1, AppendProperties
    <2>3. DOMAIN Append(h, n + 1) = 1 .. Len(h) + 1
      BY <2>2, LenProperties
    <2> QED
      BY <2>1, <2>2, <2>3, AppendProperties
  <1>8. Prefix(cb, s, "map", n + 1) = Append(Prefix(cb, s, "map", n), cb[v])
    <2>1. PICK u, w : u = [i \in 1 .. n |-> cb[s[i]]]
                      /\ w = [i \in 1 .. n + 1 |-> cb[s[i]]]
      OBVIOUS
    <2>2. \A i \in 1 .. n + 1 : cb[s[i]] \in Elements
      <3>1. \A i \in 1 .. n + 1 : i \in 1 .. Len(s)
        BY <1>1, <1>3
      <3> QED
        BY <1>1, <1>3, <3>1
    <2>3. u \in [1 .. n -> Elements] /\ w \in [1 .. n + 1 -> Elements]
      BY <2>1, <2>2
    <2>4. u \in Seq(Elements) /\ Len(u) = n /\ w \in Seq(Elements) /\ Len(w) = n + 1
      BY <2>3, LenProperties
    <2>5. Append(u, cb[v]) \in Seq(Elements) /\ Len(Append(u, cb[v])) = n + 1
      BY <1>4, <2>4, AppendProperties
    <2>6. ASSUME NEW i \in 1 .. n + 1 PROVE w[i] = Append(u, cb[v])[i]
      <3>1. CASE i \in 1 .. n
        BY <1>4, <2>1, <2>4, <3>1, AppendProperties
      <3>2. CASE i = n + 1
        BY <1>2, <1>4, <2>1, <2>4, <3>2, AppendProperties
      <3>3. i \in 1 .. n \/ i = n + 1
        OBVIOUS
      <3> QED
        BY <3>1, <3>2, <3>3
    <2>7. w = Append(u, cb[v])
      BY <2>4, <2>5, <2>6, SeqEqual
    <2> QED
      BY <2>1, <2>7 DEF Prefix
  <1>9. Prefix(cb, s, "filter", n + 1) =
           IF cb[v] = 0 THEN Prefix(cb, s, "filter", n) ELSE Append(Prefix(cb, s, "filter", n), v)
    <2>1. CASE cb[v] = 0
      BY <1>5, <1>6, <2>1 DEF Prefix
    <2>2. CASE cb[v] # 0
      <3>1. PICK a : a = Append(h, n + 1)
        OBVIOUS
      <3>2. PICK u, w : u = [k \in DOMAIN h |-> s[h[k]]]
                        /\ w = [k \in DOMAIN a |-> s[a[k]]]
        OBVIOUS
      <3>3. /\ \A k \in 1 .. Len(h) : s[h[k]] \in Elements /\ a[k] = h[k]
            /\ DOMAIN a = 1 .. Len(h) + 1 /\ a[Len(h) + 1] = n + 1
        <4>1. ASSUME NEW k \in 1 .. Len(h) PROVE s[h[k]] \in Elements
          <5>1. h[k] \in 1 .. n
            BY <1>6
          <5>2. h[k] \in 1 .. Len(s)
            BY <1>1, <5>1
          <5> QED
            BY <1>1, <5>2
        <4> QED
          BY <1>7, <3>1, <4>1
      <3>4. \A k \in 1 .. Len(h) + 1 : s[a[k]] \in Elements
        <4> SUFFICES ASSUME NEW k \in 1 .. Len(h) + 1 PROVE s[a[k]] \in Elements
          OBVIOUS
        <4>1. k \in 1 .. Len(h) \/ k = Len(h) + 1
          BY <1>6
        <4> QED
          BY <1>2, <1>4, <3>3, <4>1
      <3>5. u \in [1 .. Len(h) -> Elements] /\ w \in [1 .. Len(h) + 1 -> Elements]
        BY <1>6, <3>2, <3>3, <3>4
      <3>6. /\ u \in Seq(Elements) /\ Len(u) = Len(h)
            /\ w \in Seq(Elements) /\ Len(w) = Len(h) + 1
        <4>1. Len(h) \in Nat /\ Len(h) + 1 \in Nat
          BY <1>6
        <4>2. u \in Seq(Elements) /\ w \in Seq(Elements)
          BY <3>5, <4>1
        <4>3. DOMAIN u = 1 .. Len(h) /\ DOMAIN w = 1 .. Len(h) + 1
          BY <3>5
        <4>4. /\ Len(u) \in Nat /\ DOMAIN u = 1 .. Len(u)
              /\ Len(w) \in Nat /\ DOMAIN w = 1 .. Len(w)
          BY <4>2, LenProperties
        <4> QED
          BY <4>1, <4>2, <4>3, <4>4
      <3>7. Append(u, v) \in Seq(Elements) /\ Len(Append(u, v)) = Len(h) + 1
        BY <1>4, <3>6, AppendProperties
      <3>8. ASSUME NEW k \in 1 .. Len(h) + 1 PROVE w[k] = Append(u, v)[k]
        <4>1. CASE k \in 1 .. Len(h)
          <5>1. w[k] = s[h[k]] /\ u[k] = s[h[k]]
            BY <1>6, <3>2, <3>3, <4>1
          <5> QED
            BY <1>4, <3>6, <4>1, <5>1, AppendProperties
        <4>2. CASE k = Len(h) + 1
          <5>1. w[k] = v
            BY <1>2, <1>6, <3>2, <3>3, <4>2
          <5> QED
            BY <1>4, <3>6, <4>2, <5>1, AppendProperties
        <4>3. k \in 1 .. Len(h) \/ k = Len(h) + 1
          BY <1>6
        <4> QED
          BY <4>1, <4>2, <4>3
      <3>9. w = Append(u, v)
        BY <3>6, <3>7, <3>8, SeqEqual
      <3>10. Prefix(cb, s, "filter", n) = u /\ Prefix(cb, s, "filter", n + 1) = w
        BY <1>5, <1>6, <2>2, <3>1, <3>2 DEF Prefix
      <3> QED
        BY <2>2, <3>9, <3>10
    <2> QED
      BY <2>1, <2>2
  <1>10. ASSUME NEW acc, Prefix(cb, s, "reduce", n) = <<acc>>
         PROVE  Prefix(cb, s, "reduce", n + 1) = <<Combined(cb, acc, v)>>
    <2>1. Prefix(cb, s, "reduce", n) = <<Value(cb, s)[n]>> /\ Prefix(cb, s, "reduce", n + 1) = <<Value(cb, s)[n + 1]>>
      BY DEF Prefix
    <2>2. Value(cb, s)[n] = acc
      BY <1>10, <2>1
    <2>3. Value(cb, s)[n + 1] = Combined(cb, Value(cb, s)[(n + 1) - 1], s[n + 1]) /\ (n + 1) - 1 = n
      BY <1>3, ValueExists
    <2> QED
      BY <1>2, <2>1, <2>2, <2>3
  <1>11. ASSUME Prefix(cb, s, "find", n) = <<>>
         PROVE  Prefix(cb, s, "find", n + 1) = IF cb[v] = 0 THEN <<>> ELSE <<v>>
    <2>1. h = <<>>
      BY <1>5, <1>11 DEF Prefix
    <2>2. CASE cb[v] = 0
      BY <1>6, <2>1, <2>2 DEF Prefix
    <2>3. CASE cb[v] # 0
      <3>1. Len(h) = 0
        BY <2>1
      <3>2. Append(h, n + 1) # <<>> /\ Append(h, n + 1)[1] = n + 1
        <4>1. Len(h) + 1 = 1
          BY <3>1
        <4>2. Len(Append(h, n + 1)) = 1 /\ Append(h, n + 1)[1] = n + 1
          BY <1>7, <4>1
        <4>3. Append(h, n + 1) # <<>>
          <5>1. PICK a : a = Append(h, n + 1)
            OBVIOUS
          <5>2. a \in Seq(Nat) /\ Len(a) # 0
            BY <1>7, <4>2, <5>1
          <5>3. a # <<>>
            BY <5>2, EmptySeq
          <5> QED
            BY <5>1, <5>3
        <4> QED
          BY <4>2, <4>3
      <3> QED
        BY <1>2, <1>6, <2>3, <3>2 DEF Prefix
    <2> QED
      BY <2>2, <2>3
  <1> QED
    BY <1>2, <1>4, <1>8, <1>9, <1>10, <1>11

LEMMA PrefixEnds ==
    ASSUME NEW s \in Seq(Elements), NEW cb \in [Elements -> Elements], NEW n \in Nat,
           n <= Len(s), Prefix(cb, s, "find", n) # <<>>
    PROVE  Prefix(cb, s, "find", Len(s)) = Prefix(cb, s, "find", n)
  <1> DEFINE Hits(i, j) == {k \in i .. j : cb[s[k]] # 0}
  <1>1. Len(s) \in Nat
    BY LenProperties
  <1>2. \A i, j \in Nat : Hits(i, j) \subseteq Nat /\ IsFiniteSet(Hits(i, j))
    <2> SUFFICES ASSUME NEW i \in Nat, NEW j \in Nat
                 PROVE  Hits(i, j) \subseteq Nat /\ IsFiniteSet(Hits(i, j))
      OBVIOUS
    <2>1. IsFiniteSet(i .. j) /\ Hits(i, j) \subseteq i .. j
      BY FS_Interval
    <2> QED
      BY <2>1, FS_Subset
  <1>3. PICK A, B : A = Hits(1, n) /\ B = Hits(n + 1, Len(s))
    OBVIOUS
  <1>4. A \cup B = Hits(1, Len(s))
    BY <1>1, <1>3
  <1>5. /\ A \subseteq Nat /\ B \subseteq Nat /\ IsFiniteSet(A) /\ IsFiniteSet(B)
        /\ \A a \in A, b \in B : a < b
    <2>1. n + 1 \in Nat /\ 1 \in Nat
      OBVIOUS
    <2>2. A \subseteq Nat /\ B \subseteq Nat /\ IsFiniteSet(A) /\ IsFiniteSet(B)
      BY <1>1, <1>2, <1>3, <2>1
    <2>3. \A a \in A, b \in B : a < b
      BY <1>3
    <2> QED
      BY <2>2, <2>3
  <1>6. Ascending(A \cup B) = Ascending(A) \o Ascending(B)
    BY <1>5, AscendingConcat
  <1>7. /\ HitsOf(cb, s, n) = Ascending(A)
        /\ HitsOf(cb, s, Len(s)) = Ascending(A) \o Ascending(B)
    BY <1>3, <1>4, <1>6 DEF HitsOf
  <1>8. HitsOf(cb, s, n) # <<>>
    BY DEF Prefix
  <1>9. PICK x, y : x = Ascending(A) /\ y = Ascending(B)
    OBVIOUS
  <1>10. x \in Seq(Nat) /\ y \in Seq(Nat) /\ Len(x) \in Nat /\ Len(y) \in Nat /\ x # <<>>
    <2>1. Enumerates(x, A) /\ Enumerates(y, B)
      BY <1>5, <1>9, AscendingEnumerates
    <2>2. x \in Seq(Nat) /\ y \in Seq(Nat)
      BY <1>5, <2>1, SeqMonotonic DEF Enumerates
    <2> QED
      BY <1>7, <1>8, <1>9, <2>2, LenProperties
  <1>11. Len(x) >= 1
    BY <1>10, EmptySeq
  <1>12. x \o y # <<>> /\ (x \o y)[1] = x[1]
    <2>1. Len(x \o y) = Len(x) + Len(y) /\ 1 \in 1 .. Len(x) + Len(y) /\ 1 <= Len(x)
      BY <1>10, <1>11, ConcatProperties
    <2>2. (x \o y)[1] = x[1]
      BY <1>10, <2>1, ConcatProperties
    <2>3. Len(x \o y) # 0
      BY <1>10, <1>11, <2>1
    <2> QED
      BY <2>2, <2>3
  <1> QED
    BY <1>7, <1>8, <1>9, <1>12 DEF Prefix

\* A walk begins with nothing gathered.
LEMMA PrefixBegins ==
    ASSUME NEW s \in Seq(Elements), NEW cb \in [Elements -> Elements]
    PROVE  /\ Prefix(cb, s, "filter", 0) = <<>> /\ Prefix(cb, s, "map", 0) = <<>>
           /\ Prefix(cb, s, "reduce", 0) = <<0>> /\ Prefix(cb, s, "find", 0) = <<>>
  <1>1. Value(cb, s)[0] = 0
    BY ValueExists
  <1>2. HitsOf(cb, s, 0) = <<>>
    <2>1. {i \in 1 .. 0 : cb[s[i]] # 0} = {}
      OBVIOUS
    <2>2. IsFiniteSet({}) /\ {} \subseteq Nat
      BY FS_EmptySet
    <2>3. Enumerates(Ascending({}), {})
      BY <2>2, AscendingEnumerates
    <2>4. Ascending({}) = <<>>
      BY <2>3, EmptySeq DEF Enumerates
    <2> QED
      BY <2>1, <2>4 DEF HitsOf
  <1>3. Prefix(cb, s, "filter", 0) = <<>>
    <2>1. Prefix(cb, s, "filter", 0) = [k \in DOMAIN <<>> |-> s[<<>>[k]]]
      BY <1>2 DEF Prefix
    <2>2. DOMAIN <<>> = {}
      OBVIOUS
    <2>3. [k \in DOMAIN <<>> |-> s[<<>>[k]]] = <<>>
      BY <2>2
    <2> QED
      BY <2>1, <2>3
  <1>4. Prefix(cb, s, "map", 0) = <<>>
    <2>1. Prefix(cb, s, "map", 0) = [i \in 1 .. 0 |-> cb[s[i]]]
      BY DEF Prefix
    <2>2. [i \in 1 .. 0 |-> cb[s[i]]] = <<>>
      OBVIOUS
    <2> QED
      BY <2>1, <2>2
  <1>5. Prefix(cb, s, "reduce", 0) = <<0>> /\ Prefix(cb, s, "find", 0) = <<>>
    BY <1>1, <1>2 DEF Prefix
  <1> QED
    BY <1>3, <1>4, <1>5

\* The elements that an array keeps give what they gave.
LEMMA PrefixKept ==
    ASSUME NEW s \in Seq(Elements), NEW t \in Seq(Elements), Extends(t, s),
           NEW cb \in [Elements -> Elements], NEW n \in Nat, n <= Len(s), NEW o \in Operations
    PROVE  Prefix(cb, t, o, n) = Prefix(cb, s, o, n)
  <1>1. /\ Len(s) \in Nat /\ Len(t) \in Nat /\ n <= Len(t)
        /\ \A i \in 1 .. n : t[i] = s[i]
    BY LenProperties DEF Extends
  <1>2. PICK h : h = HitsOf(cb, s, n)
    OBVIOUS
  <1>3. HitsOf(cb, t, n) = h
    <2>1. {i \in 1 .. n : cb[t[i]] # 0} = {i \in 1 .. n : cb[s[i]] # 0}
      BY <1>1
    <2> QED
      BY <1>2, <2>1 DEF HitsOf
  <1>4. \A k \in DOMAIN h : h[k] \in 1 .. n
    <2>1. PICK H : H = {i \in 1 .. n : cb[s[i]] # 0}
      OBVIOUS
    <2>2. H \subseteq 1 .. n /\ H \subseteq Nat /\ IsFiniteSet(1 .. n)
      BY <2>1, FS_Interval
    <2>3. IsFiniteSet(H)
      BY <2>2, FS_Subset
    <2>4. Enumerates(h, H)
      BY <1>2, <2>1, <2>2, <2>3, AscendingEnumerates DEF HitsOf
    <2>5. h \in Seq(H)
      BY <2>4 DEF Enumerates
    <2> QED
      BY <2>2, <2>5, LenProperties, ElementOfSeq
  <1>5. CASE o = "filter"
    <2>1. \A k \in DOMAIN h : t[h[k]] = s[h[k]]
      BY <1>1, <1>4
    <2>2. [k \in DOMAIN h |-> t[h[k]]] = [k \in DOMAIN h |-> s[h[k]]]
      BY <2>1
    <2> QED
      BY <1>2, <1>3, <1>5, <2>2 DEF Prefix
  <1>6. CASE o = "map"
    <2>1. [i \in 1 .. n |-> cb[t[i]]] = [i \in 1 .. n |-> cb[s[i]]]
      BY <1>1
    <2> QED
      BY <1>6, <2>1 DEF Prefix
  <1>7. CASE o = "find"
    <2>1. h # <<>> => 1 \in DOMAIN h
      <3>1. h \in Seq(Nat)
        <4>1. {i \in 1 .. n : cb[s[i]] # 0} \subseteq Nat /\ IsFiniteSet(1 .. n)
          BY FS_Interval
        <4>2. IsFiniteSet({i \in 1 .. n : cb[s[i]] # 0})
          <5>1. {i \in 1 .. n : cb[s[i]] # 0} \subseteq 1 .. n
            OBVIOUS
          <5> QED
            BY <4>1, <5>1, FS_Subset
        <4>3. Enumerates(h, {i \in 1 .. n : cb[s[i]] # 0})
          BY <1>2, <4>1, <4>2, AscendingEnumerates DEF HitsOf
        <4> QED
          BY <4>1, <4>3, SeqMonotonic DEF Enumerates
      <3>2. Len(h) \in Nat /\ DOMAIN h = 1 .. Len(h)
        BY <3>1, LenProperties
      <3>3. h # <<>> => Len(h) # 0
        BY <3>1, EmptySeq
      <3> QED
        BY <3>2, <3>3
    <2>2. h # <<>> => t[h[1]] = s[h[1]]
      BY <1>1, <1>4, <2>1
    <2> QED
      BY <1>2, <1>3, <1>7, <2>2 DEF Prefix
  <1>8. CASE o = "reduce"
    <2>1. PICK f, g : f = Value(cb, s) /\ g = Value(cb, t)
      OBVIOUS
    <2>2. /\ f[0] = 0 /\ \A m \in 1 .. n : f[m] = Combined(cb, f[m - 1], s[m])
          /\ g[0] = 0 /\ \A m \in 1 .. n : g[m] = Combined(cb, g[m - 1], s[m])
      <3>1. /\ f[0] = 0 /\ \A m \in 1 .. Len(s) : f[m] = Combined(cb, f[m - 1], s[m])
            /\ g[0] = 0 /\ \A m \in 1 .. Len(t) : g[m] = Combined(cb, g[m - 1], t[m])
        BY <2>1, ValueExists
      <3>2. \A m \in 1 .. n : m \in 1 .. Len(s) /\ m \in 1 .. Len(t) /\ t[m] = s[m]
        BY <1>1
      <3> QED
        BY <3>1, <3>2
    <2>3. PICK D : D = {m \in Nat : m <= n /\ f[m] # g[m]}
      OBVIOUS
    <2>4. ASSUME D # {} PROVE FALSE
      <3>1. PICK m \in D : \A k \in D : m <= k
        BY <2>3, <2>4, LeastNatural
      <3>2. m \in Nat /\ m <= n /\ f[m] # g[m] /\ m # 0
        BY <2>2, <2>3, <3>1
      <3>3. m - 1 \in Nat /\ m - 1 <= n /\ m - 1 < m /\ m \in 1 .. n
        BY <3>2
      <3>4. m - 1 \notin D
        BY <3>1, <3>2, <3>3
      <3>5. f[m - 1] = g[m - 1]
        BY <2>3, <3>3, <3>4
      <3> QED
        BY <2>2, <3>2, <3>3, <3>5
    <2>5. f[n] = g[n]
      BY <2>3, <2>4
    <2> QED
      BY <1>8, <2>1, <2>5 DEF Prefix
  <1> QED
    BY <1>5, <1>6, <1>7, <1>8 DEF Operations

\* What the callback gives for the element it was called with.
LEMMA CallbackFacts ==
    ASSUME callback \in [Elements -> Elements], NEW w \in Walks, NEW s, Frame(callback, s, w),
           NEW out, out = Handles!callWasmCallback(w)
    PROVE  /\ out \in Seq(Elements)
           /\ w.op = "map" => Len(out) = w.i
           /\ w.op = "filter" => Len(out) <= w.i
           /\ w.op = "reduce" => \E acc \in Elements : out = <<acc>>
           /\ ~w.cut => out = Prefix(callback, s, w.op, w.i)
  <1>1. PICK v : v = w.arg
    OBVIOUS
  <1>2. /\ v \in Elements /\ callback[v] \in Elements /\ w.op \in Operations
        /\ w.i \in Nat /\ w.i >= 1 /\ w.out \in Seq(Elements) /\ Len(w.out) \in Nat
        /\ s \in Seq(Elements) /\ Len(s) \in Nat
    BY <1>1, LenProperties DEF Walks, Frame, Gathered
  <1>3. /\ w.op = "map" => out = Append(w.out, callback[v])
        /\ w.op = "filter" => out = IF callback[v] = 0 THEN w.out ELSE Append(w.out, v)
        /\ w.op = "reduce" => out = <<Combined(callback, w.out[1], v)>>
        /\ w.op = "find" => out = IF callback[v] = 0 THEN w.out ELSE <<v>>
    BY <1>1 DEF Handles!callWasmCallback, Handles!Combine, Combined
  <1>4. /\ Append(w.out, v) \in Seq(Elements) /\ Len(Append(w.out, v)) = Len(w.out) + 1
        /\ Append(w.out, callback[v]) \in Seq(Elements)
        /\ Len(Append(w.out, callback[v])) = Len(w.out) + 1
    BY <1>2, AppendProperties
  <1>5. /\ w.op = "map" => Len(w.out) = w.i - 1
        /\ w.op = "filter" => Len(w.out) <= w.i - 1
        /\ w.op = "reduce" => \E acc \in Elements : w.out = <<acc>>
        /\ w.op = "find" => w.out = <<>>
    BY DEF Frame, Gathered
  <1>6. ASSUME w.op = "map" PROVE out \in Seq(Elements) /\ Len(out) = w.i
    <2>1. out \in Seq(Elements) /\ Len(out) = Len(w.out) + 1
      BY <1>3, <1>4, <1>6
    <2> QED
      BY <1>2, <1>5, <1>6, <2>1
  <1>7. ASSUME w.op = "filter" PROVE out \in Seq(Elements) /\ Len(out) <= w.i
    <2>1. CASE callback[v] = 0
      <3>1. out = w.out
        BY <1>3, <1>7, <2>1
      <3> QED
        BY <1>2, <1>5, <1>7, <3>1
    <2>2. CASE callback[v] # 0
      <3>1. out \in Seq(Elements) /\ Len(out) = Len(w.out) + 1
        BY <1>3, <1>4, <1>7, <2>2
      <3> QED
        BY <1>2, <1>5, <1>7, <3>1
    <2> QED
      BY <2>1, <2>2
  <1>8. ASSUME w.op = "reduce"
        PROVE  /\ out \in Seq(Elements) /\ \E acc \in Elements : out = <<acc>>
               /\ \A acc : w.out = <<acc>> => out = <<Combined(callback, acc, v)>>
    <2>1. PICK acc \in Elements : w.out = <<acc>>
      BY <1>5, <1>8
    <2>2. w.out[1] = acc /\ Combined(callback, acc, v) \in Elements
      BY <1>2, <2>1, CombineFacts
    <2>3. out = <<Combined(callback, acc, v)>>
      BY <1>3, <1>8, <2>2
    <2>4. \A other : w.out = <<other>> => other = acc
      BY <2>1
    <2> QED
      BY <2>2, <2>3, <2>4
  <1>9. ASSUME w.op = "find" PROVE out \in Seq(Elements)
    <2>1. <<v>> \in Seq(Elements)
      BY <1>2
    <2> QED
      BY <1>2, <1>3, <1>9, <2>1
  <1>10. ASSUME ~w.cut PROVE out = Prefix(callback, s, w.op, w.i)
    <2>1. PICK n : n = w.i - 1
      OBVIOUS
    <2>2. /\ n \in Nat /\ n < Len(s) /\ n + 1 = w.i /\ s[n + 1] = v
          /\ w.out = Prefix(callback, s, w.op, n)
      BY <1>1, <1>2, <1>10, <2>1 DEF Frame, Gathered
    <2>3. /\ Prefix(callback, s, "map", n + 1)
                = Append(Prefix(callback, s, "map", n), callback[v])
          /\ Prefix(callback, s, "filter", n + 1) =
                IF callback[v] = 0 THEN Prefix(callback, s, "filter", n)
                ELSE Append(Prefix(callback, s, "filter", n), v)
          /\ \A acc : Prefix(callback, s, "reduce", n) = <<acc>> =>
                Prefix(callback, s, "reduce", n + 1) = <<Combined(callback, acc, v)>>
          /\ Prefix(callback, s, "find", n) = <<>> =>
                Prefix(callback, s, "find", n + 1) = IF callback[v] = 0 THEN <<>> ELSE <<v>>
      BY <1>2, <2>2, PrefixNext
    <2>4. CASE w.op = "map"
      BY <1>3, <2>2, <2>3, <2>4
    <2>5. CASE w.op = "filter"
      BY <1>3, <2>2, <2>3, <2>5
    <2>6. CASE w.op = "reduce"
      <3>1. PICK acc \in Elements : w.out = <<acc>>
        BY <1>5, <2>6
      <3>2. out = <<Combined(callback, acc, v)>>
        BY <1>8, <2>6, <3>1
      <3> QED
        BY <2>2, <2>3, <2>6, <3>1, <3>2
    <2>7. CASE w.op = "find"
      BY <1>3, <1>5, <2>2, <2>3, <2>7
    <2> QED
      BY <1>2, <2>4, <2>5, <2>6, <2>7 DEF Operations
  <1> QED
    BY <1>2, <1>6, <1>7, <1>8, <1>9, <1>10 DEF Operations

\* What a walk gives that ends with n elements gathered.
LEMMA EndFacts ==
    ASSUME HandleTypes, NEW w \in Walks, NEW s, s = objects[w.on],
           Gathered(callback, s, w, w.i), ~Handles!HasNext(w)
    PROVE  LET is == Handles!Result(w)
           IN  /\ is \in Seq(Cells)
               /\ ~w.cut => LET that == IF w.op \in {"filter", "map"} THEN w.was ELSE s
                            IN  is = Prefix(callback, that, w.op, Len(that))
               /\ w.op = "filter" => Len(is) <= Len(w.was)
               /\ w.op = "map" => Len(is) = Len(w.was)
  <1>1. PICK is : is = Handles!Result(w)
    OBVIOUS
  <1>2. /\ w.op \in Operations /\ w.i \in Nat /\ w.len = Len(w.was) /\ Len(w.was) \in Nat
        /\ w.was \in Seq(Elements) /\ w.out \in Seq(Elements) /\ Len(w.out) \in Nat
        /\ s \in Seq(Elements) /\ Len(s) \in Nat /\ callback \in [Elements -> Elements]
        /\ w.out \in Seq(Cells)
    <2>1. /\ w.op \in Operations /\ w.i \in Nat /\ w.len = Len(w.was) /\ s \in Seq(Elements)
          /\ w.was \in Seq(Elements) /\ w.out \in Seq(Elements)
          /\ callback \in [Elements -> Elements]
      BY DEF Walks, Gathered, HandleTypes
    <2>2. w.out \in Seq(Cells)
      BY <2>1, CellFacts, SeqMonotonic
    <2> QED
      BY <2>1, <2>2, LenProperties
  <1>3. /\ w.op = "map" => Len(w.out) = w.i /\ w.i <= w.len
        /\ w.op = "filter" => Len(w.out) <= w.i /\ w.i <= w.len
    BY DEF Gathered
  <1>4. CASE w.op = "map"
    <2>1. PICK pad : pad = [k \in 1 .. w.len - Len(w.out) |-> Handles!Hole]
      OBVIOUS
    <2>2. w.len - Len(w.out) \in Nat /\ Handles!Hole \in Cells
      BY <1>2, <1>3, <1>4 DEF Cells
    <2>3. pad \in Seq(Cells) /\ Len(pad) = w.len - Len(w.out)
      BY <2>1, <2>2, LenProperties
    <2>4. is = w.out \o pad
      BY <1>1, <1>4, <2>1 DEF Handles!Result
    <2>5. is \in Seq(Cells) /\ Len(is) = Len(w.was)
      <3>1. is \in Seq(Cells) /\ Len(is) = Len(w.out) + Len(pad)
        BY <1>2, <2>3, <2>4, ConcatProperties
      <3> QED
        BY <1>2, <2>3, <3>1
    <2>6. ASSUME ~w.cut PROVE is = Prefix(callback, w.was, "map", Len(w.was))
      <3>1. /\ Extends(s, w.was) /\ w.i <= Len(s) /\ Len(w.was) <= Len(s)
            /\ w.out = Prefix(callback, s, "map", w.i)
        BY <1>4, <2>6 DEF Gathered, Extends
      <3>2. w.i = w.len
        BY <1>2, <1>3, <1>4, <3>1 DEF Handles!HasNext
      <3>3. pad = <<>>
        <4>1. Len(pad) = 0
          BY <1>2, <1>3, <1>4, <2>3, <3>2
        <4> QED
          BY <2>3, <4>1, EmptySeq
      <3>4. is = w.out
        BY <1>2, <2>4, <3>3, ConcatEmptySeq
      <3>5. Prefix(callback, s, "map", Len(w.was)) = Prefix(callback, w.was, "map", Len(w.was))
        BY <1>2, <3>1, PrefixKept DEF Operations
      <3> QED
        BY <1>2, <3>1, <3>2, <3>4, <3>5
    <2> QED
      BY <1>1, <1>4, <2>5, <2>6
  <1>5. CASE w.op # "map"
    <2>1. is = w.out
      BY <1>1, <1>5 DEF Handles!Result
    <2>2. w.op = "filter" => Len(is) <= Len(w.was)
      BY <1>2, <1>3, <2>1
    <2>3. ASSUME ~w.cut
          PROVE  LET that == IF w.op \in {"filter", "map"} THEN w.was ELSE s
                 IN  is = Prefix(callback, that, w.op, Len(that))
      <3>1. /\ Extends(s, w.was) /\ w.i <= Len(s) /\ Len(w.was) <= Len(s)
            /\ w.out = Prefix(callback, s, w.op, w.i)
        BY <2>3 DEF Gathered, Extends
      <3>2. CASE w.op = "filter"
        <4>1. w.i = w.len
          BY <1>2, <1>3, <3>1, <3>2 DEF Handles!HasNext
        <4>2. Prefix(callback, s, "filter", Len(w.was))
                 = Prefix(callback, w.was, "filter", Len(w.was))
          BY <1>2, <3>1, PrefixKept DEF Operations
        <4> QED
          BY <1>2, <2>1, <3>1, <3>2, <4>1, <4>2
      <3>3. CASE w.op = "reduce"
        <4>1. w.i = Len(s)
          BY <1>2, <3>1, <3>3 DEF Handles!HasNext
        <4> QED
          BY <2>1, <3>1, <3>3, <4>1
      <3>4. CASE w.op = "find"
        <4>1. w.i = Len(s) \/ w.out # <<>>
          BY <1>2, <3>1, <3>4 DEF Handles!HasNext
        <4>2. w.out # <<>> => Prefix(callback, s, "find", Len(s)) = w.out
          BY <1>2, <3>1, <3>4, PrefixEnds
        <4>3. is = Prefix(callback, s, "find", Len(s))
          BY <2>1, <3>1, <3>4, <4>1, <4>2
        <4> QED
          BY <3>4, <4>3
      <3> QED
        BY <1>2, <1>5, <3>2, <3>3, <3>4 DEF Operations
    <2> QED
      BY <1>1, <1>2, <1>5, <2>1, <2>2, <2>3
  <1> QED
    BY <1>4, <1>5

\* Walks stay what they are when the arrays they walk stay what they are.
LEMMA FramesKept ==
    ASSUME NEW cb, NEW ws, NEW objs, NEW more, Frames(cb, objs, ws),
           Len(objs) \in Nat, Len(more) \in Nat, Len(objs) <= Len(more),
           \A o \in 1 .. Len(objs) : more[o] = objs[o]
    PROVE  Frames(cb, more, ws)
  <1> SUFFICES ASSUME NEW k \in 1 .. Len(ws)
               PROVE  ws[k].on \in 1 .. Len(more) /\ Frame(cb, more[ws[k].on], ws[k])
    BY DEF Frames
  <1>1. ws[k].on \in 1 .. Len(objs) /\ Frame(cb, objs[ws[k].on], ws[k])
    BY DEF Frames
  <1>2. ws[k].on \in 1 .. Len(more) /\ more[ws[k].on] = objs[ws[k].on]
    BY <1>1
  <1> QED
    BY <1>1, <1>2

\* A walk goes in front of the others.
LEMMA FramesFront ==
    ASSUME NEW cb, NEW objs, NEW w \in Walks, NEW ws \in Seq(Walks), Frames(cb, objs, ws),
           w.on \in 1 .. Len(objs), Frame(cb, objs[w.on], w)
    PROVE  /\ <<w>> \o ws \in Seq(Walks) /\ Len(<<w>> \o ws) = Len(ws) + 1
           /\ Frames(cb, objs, <<w>> \o ws)
  <1>1. Len(ws) \in Nat /\ <<w>> \in Seq(Walks) /\ Len(<<w>>) = 1 /\ <<w>>[1] = w
    BY LenProperties
  <1>2. PICK all : all = <<w>> \o ws
    OBVIOUS
  <1>3. all \in Seq(Walks) /\ Len(all) = Len(ws) + 1
    <2>1. all \in Seq(Walks) /\ Len(all) = 1 + Len(ws)
      BY <1>1, <1>2, ConcatProperties
    <2> QED
      BY <1>1, <2>1
  <1>4. ASSUME NEW k \in 1 .. Len(all)
        PROVE  all[k].on \in 1 .. Len(objs) /\ Frame(cb, objs[all[k].on], all[k])
    <2>1. CASE k = 1
      <3>1. all[1] = w
        BY <1>1, <1>2, ConcatProperties
      <3> QED
        BY <2>1, <3>1
    <2>2. CASE k # 1
      <3>1. k - 1 \in 1 .. Len(ws)
        BY <1>1, <1>3, <2>2
      <3>2. all[k] = ws[k - 1]
        BY <1>1, <1>2, <1>3, <2>2, <3>1, ConcatProperties
      <3> QED
        BY <3>1, <3>2 DEF Frames
    <2> QED
      BY <2>1, <2>2
  <1>5. Frames(cb, objs, all)
    BY <1>4 DEF Frames
  <1> QED
    BY <1>2, <1>3, <1>5

\* A walk reads its next element or ends.
LEMMA GoesOnStep ==
    ASSUME HandleTypes, HandlesDistinct, NEW w \in Walks, NEW others \in Seq(Walks),
           w.on \in 1 .. Len(objects), Gathered(callback, objects[w.on], w, w.i),
           Frames(callback, objects, others), Len(objects) + Len(others) < MaxHandles,
           Handles!GoesOn(w, others)
    PROVE  HandlesInv'
  <1>1. PICK s : s = objects[w.on]
    OBVIOUS
  <1>2. /\ callback' = callback /\ callback \in [Elements -> Elements]
        /\ Len(objects) \in Nat /\ Len(others) \in Nat /\ MaxHandles \in Nat
        /\ s \in Seq(Elements) /\ Len(s) \in Nat /\ w.i \in Nat
        /\ objects \in Seq(Seq(Cells)) /\ Len(objects) < MaxHandles
    <2>1. /\ callback' = callback /\ callback \in [Elements -> Elements]
          /\ s \in Seq(Elements) /\ w.i \in Nat /\ objects \in Seq(Seq(Cells))
      BY <1>1 DEF Handles!GoesOn, HandleTypes, Gathered, Walks
    <2>2. /\ Len(objects) \in Nat /\ Len(others) \in Nat /\ MaxHandles \in Nat
          /\ Len(s) \in Nat
      BY <2>1, HandlesAssumption, LenProperties
    <2> QED
      BY <2>1, <2>2
  <1>3. CASE Handles!HasNext(w)
    <2>1. PICK v : v = s[w.i + 1]
      OBVIOUS
    <2>2. PICK u : u = [w EXCEPT !.i = w.i + 1, !.arg = v]
      OBVIOUS
    <2>3. /\ walks' = <<u>> \o others /\ found' = Handles!NoResult
          /\ UNCHANGED <<listStore, arrayStore, objects, nextList, nextArray>>
      BY <1>1, <1>3, <2>1, <2>2 DEF Handles!GoesOn, Handles!tables
    <2>4. /\ w.i + 1 <= Len(s) /\ w.i + 1 \in 1 .. Len(s)
          /\ w.op \in {"filter", "map"} => w.i + 1 <= w.len
          /\ w.op = "find" => w.out = <<>>
      <3>1. /\ w.i < Len(s)
            /\ w.op \in {"filter", "map"} => w.i < w.len
            /\ w.op = "find" => w.out = <<>>
        BY <1>1, <1>3 DEF Handles!HasNext
      <3>2. w.len \in Nat
        BY DEF Walks
      <3> QED
        BY <1>2, <3>1, <3>2
    <2>5. v \in Elements /\ w.i + 1 \in Nat /\ (w.i + 1) - 1 = w.i /\ w.i + 1 >= 1
      <3>1. w.i + 1 \in Nat /\ (w.i + 1) - 1 = w.i /\ w.i + 1 >= 1
        <4>1. w.i \in Nat
          BY <1>2
        <4> QED
          BY <4>1
      <3>2. v \in Elements
        <4>1. s \in Seq(Elements)
          BY <1>2
        <4> QED
          BY <2>1, <2>4, <4>1, ElementOfSeq
      <3> QED
        BY <3>1, <3>2
    <2>6. /\ u \in Walks /\ u.on = w.on /\ u.i = w.i + 1 /\ u.arg = v /\ u.op = w.op
          /\ u.len = w.len /\ u.out = w.out /\ u.was = w.was /\ u.cut = w.cut
      BY <2>2, <2>5 DEF Walks
    <2>7. Gathered(callback, s, u, w.i)
      <3>1. Gathered(callback, s, w, w.i)
        BY <1>1
      <3> QED
        BY <2>6, <3>1 DEF Gathered
    <2>8. Frame(callback, s, u)
      BY <2>1, <2>4, <2>5, <2>6, <2>7 DEF Frame
    <2>9. /\ walks' \in Seq(Walks) /\ Len(walks') = Len(others) + 1
          /\ Frames(callback, objects, walks')
      BY <1>1, <2>3, <2>6, <2>8, FramesFront
    <2>10. WalkInv'
      <3>1. Len(objects) + Len(walks') <= MaxHandles
        BY <1>2, <2>9
      <3> QED
        BY <1>2, <2>3, <2>9, <3>1 DEF WalkInv
    <2>11. HandleTypes' /\ HandlesDistinct'
      BY <1>2, <2>3 DEF HandleTypes, HandlesDistinct
    <2>12. FoundInv'
      BY <2>3 DEF FoundInv, Handles!NoResult
    <2> QED
      BY <2>10, <2>11, <2>12 DEF HandlesInv
  <1>4. CASE ~Handles!HasNext(w)
    <2>1. PICK is : is = Handles!Result(w)
      OBVIOUS
    <2>2. /\ walks' = others
          /\ found' = [op |-> w.op, was |-> w.was, now |-> s, cut |-> w.cut, is |-> is]
          /\ IF w.op \in {"filter", "map"} THEN Handles!storeArray(is)
             ELSE UNCHANGED <<listStore, arrayStore, objects, nextList, nextArray>>
      BY <1>1, <1>4, <2>1 DEF Handles!GoesOn, Handles!Ends, Handles!tables
    <2>3. /\ is \in Seq(Cells)
          /\ ~w.cut => LET that == IF w.op \in {"filter", "map"} THEN w.was ELSE s
                       IN  is = Prefix(callback, that, w.op, Len(that))
          /\ w.op = "filter" => Len(is) <= Len(w.was)
          /\ w.op = "map" => Len(is) = Len(w.was)
      BY <1>1, <1>4, <2>1, EndFacts
    <2>4. FoundInv'
      <3>1. /\ found'.op = w.op /\ found'.was = w.was /\ found'.now = s /\ found'.cut = w.cut
            /\ found'.is = is /\ w.op \in Operations /\ w.was \in Seq(Elements)
        BY <2>2 DEF Walks
      <3> QED
        BY <1>2, <2>3, <3>1 DEF FoundInv
    <2>5. CASE w.op \in {"filter", "map"}
      <3>1. /\ objects' = Append(objects, is)
            /\ arrayStore' = [h \in DOMAIN arrayStore \cup {nextArray} |->
                                IF h = nextArray THEN Len(objects) + 1 ELSE arrayStore[h]]
            /\ nextArray' = nextArray + 1 /\ UNCHANGED <<listStore, nextList>>
        BY <2>2, <2>5 DEF Handles!storeArray, Handles!Named
      <3>2. HandleTypes' /\ HandlesDistinct'
        BY <1>2, <2>3, <3>1, ObjectStored
      <3>3. /\ Len(objects') = Len(objects) + 1
            /\ \A o \in 1 .. Len(objects) : objects'[o] = objects[o]
        BY <1>2, <2>3, <3>1, AppendProperties
      <3>4. Frames(callback, objects', others)
        <4>1. Len(objects) \in Nat /\ Len(others) \in Nat
          BY <1>2
        <4> QED
          BY <3>3, <4>1, FramesKept
      <3>5. WalkInv'
        BY <1>2, <2>2, <3>3, <3>4 DEF WalkInv
      <3> QED
        BY <2>4, <3>2, <3>5 DEF HandlesInv
    <2>6. CASE w.op \notin {"filter", "map"}
      <3>1. UNCHANGED <<listStore, arrayStore, objects, nextList, nextArray>>
        BY <2>2, <2>6
      <3>2. HandleTypes' /\ HandlesDistinct'
        BY <1>2, <3>1 DEF HandleTypes, HandlesDistinct
      <3>3. WalkInv'
        BY <1>2, <2>2, <3>1 DEF WalkInv
      <3> QED
        BY <2>4, <3>2, <3>3 DEF HandlesInv
    <2> QED
      BY <2>5, <2>6
  <1> QED
    BY <1>3, <1>4

\* An array without holes.
LEMMA FullArray ==
    ASSUME HandleTypes, NEW h \in DOMAIN arrayStore, Handles!Full(h)
    PROVE  arrayStore[h] \in 1 .. Len(objects) /\ Handles!ArrayOf(h) \in Seq(Elements)
  <1>1. arrayStore[h] \in 1 .. Len(objects) /\ objects \in Seq(Seq(Cells))
    BY DEF HandleTypes
  <1>2. PICK s : s = Handles!ArrayOf(h)
    OBVIOUS
  <1>3. s \in Seq(Cells)
    BY <1>1, <1>2, ElementOfSeq DEF Handles!ArrayOf
  <1>4. Len(s) \in Nat /\ DOMAIN s = 1 .. Len(s)
    BY <1>3, LenProperties
  <1>5. \A i \in 1 .. Len(s) : s[i] # Handles!Hole
    BY <1>2, <1>4 DEF Handles!Full, Handles!ToSet
  <1>6. \A i \in 1 .. Len(s) : s[i] \in Elements
    BY <1>3, <1>5, ElementOfSeq, CellFacts
  <1>7. s = [i \in 1 .. Len(s) |-> s[i]]
    BY <1>3, <1>4
  <1>8. s \in [1 .. Len(s) -> Elements]
    BY <1>6, <1>7
  <1>9. s \in Seq(Elements)
    BY <1>4, <1>8
  <1> QED
    BY <1>1, <1>2, <1>9

\* A walk begins, inside of those that stand in a callback.
LEMMA BeginsWalk ==
    ASSUME HandlesInv, NEW o \in Operations, NEW h, NEW out \in Seq(Elements),
           out = IF o = "reduce" THEN << 0 >> ELSE <<>>, Handles!Begins(o, h, out)
    PROVE  HandlesInv'
  <1>1. PICK s : s = Handles!ArrayOf(h)
    OBVIOUS
  <1>2. PICK w : w = [op |-> o, on |-> arrayStore[h], i |-> 0, len |-> Len(s), arg |-> 0,
                      out |-> out, was |-> s, cut |-> FALSE]
    OBVIOUS
  <1>3. /\ h \in DOMAIN arrayStore /\ Handles!Full(h)
        /\ Len(objects) + Len(walks) < MaxHandles /\ Handles!GoesOn(w, walks)
    BY <1>1, <1>2 DEF Handles!Begins, Handles!Room
  <1>4. /\ HandleTypes /\ HandlesDistinct /\ walks \in Seq(Walks)
        /\ Frames(callback, objects, walks) /\ callback \in [Elements -> Elements]
        /\ Len(objects) \in Nat
    BY ApartIs DEF HandlesInv, WalkInv, HandleTypes
  <1>5. /\ arrayStore[h] \in 1 .. Len(objects) /\ s \in Seq(Elements) /\ Len(s) \in Nat
        /\ s = objects[arrayStore[h]]
    BY <1>1, <1>3, <1>4, FullArray, LenProperties DEF Handles!ArrayOf
  <1>6. w \in Walks
    <2>1. arrayStore[h] \in Nat /\ 0 \in Nat /\ 0 \in Elements
      BY <1>4, <1>5, CellFacts
    <2> QED
      BY <1>2, <1>5, <2>1 DEF Walks
  <1>7. out = Prefix(callback, s, o, 0)
    BY <1>4, <1>5, PrefixBegins DEF Operations
  <1>8. /\ o = "map" => Len(out) = 0
        /\ o = "filter" => Len(out) <= 0
        /\ o = "reduce" => \E acc \in Elements : out = <<acc>>
    BY CellFacts
  <1>9. Extends(s, s) /\ 0 <= Len(s)
    BY <1>5 DEF Extends
  <1>10. Gathered(callback, objects[w.on], w, w.i)
    <2>1. /\ w.op = o /\ w.on = arrayStore[h] /\ w.i = 0 /\ w.len = Len(s) /\ w.out = out
          /\ w.was = s
      BY <1>2
    <2> QED
      BY <1>5, <1>7, <1>8, <1>9, <2>1 DEF Gathered
  <1>11. w.on \in 1 .. Len(objects)
    BY <1>2, <1>5
  <1> QED
    BY <1>3, <1>4, <1>6, <1>10, <1>11, GoesOnStep

LEMMA BeginStep ==
    ASSUME HandlesInv, NEW h,
           \/ Handles!array_filter(h) \/ Handles!array_map(h)
           \/ Handles!array_reduce(h) \/ Handles!array_find(h)
    PROVE  HandlesInv'
  <1>1. <<>> \in Seq(Elements) /\ <<0>> \in Seq(Elements)
    BY CellFacts
  <1>2. PICK o \in Operations, out \in Seq(Elements) :
           /\ Handles!Begins(o, h, out)
           /\ out = IF o = "reduce" THEN <<0>> ELSE <<>>
    BY <1>1 DEF Handles!array_filter, Handles!array_map, Handles!array_reduce,
       Handles!array_find, Operations
  <1> QED
    BY <1>2, BeginsWalk

\* The innermost callback returns.
LEMMA ReturnsStep ==
    ASSUME HandlesInv, Handles!Returns
    PROVE  HandlesInv'
  <1>1. PICK w : w = Head(walks)
    OBVIOUS
  <1>2. PICK out : out = Handles!callWasmCallback(w)
    OBVIOUS
  <1>3. PICK u : u = [w EXCEPT !.out = out]
    OBVIOUS
  <1>4. PICK others : others = Tail(walks)
    OBVIOUS
  <1>5. walks # <<>> /\ Handles!GoesOn(u, others)
    BY <1>1, <1>2, <1>3, <1>4 DEF Handles!Returns
  <1>6. /\ HandleTypes /\ HandlesDistinct /\ walks \in Seq(Walks)
        /\ Frames(callback, objects, walks) /\ callback \in [Elements -> Elements]
        /\ Len(objects) \in Nat /\ Len(objects) + Len(walks) <= MaxHandles
        /\ MaxHandles \in Nat
    BY ApartIs, HandlesAssumption DEF HandlesInv, WalkInv, HandleTypes
  <1>7. /\ w = walks[1] /\ w \in Walks /\ 1 \in 1 .. Len(walks) /\ Len(walks) \in Nat
        /\ others \in Seq(Walks) /\ Len(others) = Len(walks) - 1
        /\ \A k \in 1 .. Len(others) : others[k] = walks[k + 1]
    <2>1. Len(walks) \in Nat /\ Len(walks) # 0
      BY <1>5, <1>6, EmptySeq, LenProperties
    <2>2. w = walks[1] /\ w \in Walks
      BY <1>1, <1>5, <1>6, HeadTailProperties
    <2>3. others \in Seq(Walks) /\ Len(others) = Len(walks) - 1
      BY <1>4, <1>5, <1>6, HeadTailProperties
    <2>4. \A k \in 1 .. Len(others) : others[k] = walks[k + 1]
      BY <1>4, <1>5, <1>6, HeadTailProperties
    <2> QED
      BY <2>1, <2>2, <2>3, <2>4
  <1>8. Frames(callback, objects, others)
    <2>1. \A k \in 1 .. Len(others) : k + 1 \in 1 .. Len(walks)
      BY <1>7
    <2> QED
      BY <1>6, <1>7, <2>1 DEF Frames
  <1>9. w.on \in 1 .. Len(objects) /\ Frame(callback, objects[w.on], w)
    BY <1>6, <1>7 DEF Frames
  <1>10. /\ out \in Seq(Elements)
         /\ w.op = "map" => Len(out) = w.i
         /\ w.op = "filter" => Len(out) <= w.i
         /\ w.op = "reduce" => \E acc \in Elements : out = <<acc>>
         /\ ~w.cut => out = Prefix(callback, objects[w.on], w.op, w.i)
    BY <1>2, <1>6, <1>7, <1>9, CallbackFacts
  <1>11. /\ u \in Walks /\ u.op = w.op /\ u.on = w.on /\ u.i = w.i /\ u.len = w.len
         /\ u.out = out /\ u.was = w.was /\ u.cut = w.cut
    BY <1>3, <1>7, <1>10 DEF Walks
  <1>12. Gathered(callback, objects[u.on], u, u.i)
    <2>1. /\ objects[w.on] \in Seq(Elements) /\ w.len = Len(w.was)
          /\ w.op \in {"filter", "map"} => w.i <= w.len
          /\ ~w.cut => Extends(objects[w.on], w.was) /\ w.i <= Len(objects[w.on])
      BY <1>9 DEF Frame, Gathered
    <2> QED
      BY <1>10, <1>11, <2>1 DEF Gathered
  <1>13. Len(objects) + Len(others) < MaxHandles
    BY <1>6, <1>7
  <1> QED
    BY <1>5, <1>6, <1>7, <1>8, <1>9, <1>11, <1>12, <1>13, GoesOnStep

LEMMA PrefixExtends ==
    ASSUME NEW S, NEW s \in Seq(S), NEW t \in Seq(S), Handles!IsPrefix(s, t)
    PROVE  Extends(t, s)
  <1>1. /\ Len(s) \in Nat /\ Len(t) \in Nat /\ Len(s) <= Len(t)
        /\ SubSeq(s, 1, Len(s)) = SubSeq(t, 1, Len(s))
    BY LenProperties DEF Handles!IsPrefix
  <1>2. ASSUME NEW i \in 1 .. Len(s) PROVE t[i] = s[i]
    <2>1. SubSeq(s, 1, Len(s))[i] = s[i] /\ SubSeq(t, 1, Len(s))[i] = t[i]
      BY <1>1
    <2> QED
      BY <1>1, <2>1
  <1> QED
    BY <1>1, <1>2 DEF Extends

\* The program, which may be in callbacks, changes an array: a walk of it is cut
\* unless the elements it had are kept.
LEMMA ChangedWalk ==
    ASSUME callback \in [Elements -> Elements], NEW w \in Walks,
           NEW s \in Seq(Cells), NEW contents \in Seq(Cells),
           s \in Seq(Elements) => contents \in Seq(Elements), Frame(callback, s, w),
           NEW u, u = [w EXCEPT !.cut = w.cut \/ ~Handles!IsPrefix(s, contents)]
    PROVE  Frame(callback, contents, u)
  <1>1. /\ u.op = w.op /\ u.i = w.i /\ u.len = w.len /\ u.arg = w.arg /\ u.out = w.out
        /\ u.was = w.was /\ u.cut = (w.cut \/ ~Handles!IsPrefix(s, contents))
    BY DEF Walks
  <1>2. ~u.cut => ~w.cut /\ Handles!IsPrefix(s, contents)
    BY <1>1, Zenon
  <1>3. s \in Seq(Elements) /\ contents \in Seq(Elements) /\ w.op \in Operations
        /\ w.i \in Nat /\ w.was \in Seq(Elements)
    BY DEF Frame, Gathered, Walks
  <1>4. ASSUME ~u.cut
        PROVE  /\ Extends(contents, w.was) /\ w.i <= Len(contents) /\ w.arg = contents[w.i]
               /\ w.i - 1 <= Len(contents)
               /\ w.out = Prefix(callback, contents, w.op, w.i - 1)
    <2>1. Extends(contents, s)
      BY <1>2, <1>3, <1>4, PrefixExtends
    <2>2. /\ Extends(s, w.was) /\ w.i <= Len(s) /\ w.arg = s[w.i] /\ w.i >= 1
          /\ w.out = Prefix(callback, s, w.op, w.i - 1)
      BY <1>2, <1>4 DEF Frame, Gathered
    <2>3. Len(s) \in Nat /\ Len(contents) \in Nat /\ Len(w.was) \in Nat
      BY <1>3, LenProperties
    <2>4. Extends(contents, w.was) /\ w.i <= Len(contents) /\ w.arg = contents[w.i]
      BY <1>3, <2>1, <2>2, <2>3 DEF Extends
    <2>5. w.i - 1 \in Nat /\ w.i - 1 <= Len(s) /\ w.i - 1 <= Len(contents)
      BY <1>3, <2>2, <2>3, <2>4
    <2>6. Prefix(callback, contents, w.op, w.i - 1) = Prefix(callback, s, w.op, w.i - 1)
      BY <1>3, <2>1, <2>5, PrefixKept
    <2> QED
      BY <2>2, <2>4, <2>5, <2>6
  <1>5. Gathered(callback, contents, u, u.i - 1)
    BY <1>1, <1>3, <1>4 DEF Frame, Gathered
  <1> QED
    BY <1>1, <1>4, <1>5 DEF Frame

LEMMA ChangeStep ==
    ASSUME HandlesInv, NEW o \in 1 .. Len(objects), NEW contents \in Seq(Cells),
           objects[o] \in Seq(Elements) => contents \in Seq(Elements),
           Handles!Change(o, contents)
    PROVE  HandlesInv'
  <1>1. PICK s : s = objects[o]
    OBVIOUS
  <1>2. /\ objects' = [objects EXCEPT ![o] = contents]
        /\ walks' = [k \in DOMAIN walks |-> [walks[k] EXCEPT
              !.cut = walks[k].cut \/ (walks[k].on = o /\ ~Handles!IsPrefix(s, contents))]]
        /\ found' = Handles!NoResult
        /\ UNCHANGED <<listStore, arrayStore, nextList, nextArray, callback>>
    BY <1>1 DEF Handles!Change
  <1>3. /\ objects \in Seq(Seq(Cells)) /\ Len(objects) \in Nat /\ s \in Seq(Cells)
        /\ walks \in Seq(Walks) /\ Len(walks) \in Nat /\ DOMAIN walks = 1 .. Len(walks)
        /\ callback \in [Elements -> Elements]
    BY <1>1, ElementOfSeq, LenProperties DEF HandlesInv, HandleTypes, WalkInv
  <1>4. /\ objects' \in Seq(Seq(Cells)) /\ Len(objects') = Len(objects)
        /\ \A p \in 1 .. Len(objects) : p # o => objects'[p] = objects[p]
        /\ objects'[o] = contents
    BY <1>2, <1>3, ExceptSeq
  <1>5. HandleTypes' /\ HandlesDistinct'
    BY <1>2, <1>4 DEF HandlesInv, HandleTypes, HandlesDistinct
  <1>6. ASSUME NEW k \in 1 .. Len(walks)
        PROVE  /\ walks'[k] \in Walks /\ walks'[k].on \in 1 .. Len(objects)
               /\ Frame(callback, objects'[walks'[k].on], walks'[k])
    <2>1. PICK w \in Walks : w = walks[k]
      BY <1>3, ElementOfSeq
    <2>2. PICK u : u = walks'[k]
      OBVIOUS
    <2>3. u = [w EXCEPT !.cut = w.cut \/ (w.on = o /\ ~Handles!IsPrefix(s, contents))]
      BY <1>2, <1>3, <2>1, <2>2
    <2>4. w.on \in 1 .. Len(objects) /\ Frame(callback, objects[w.on], w)
      BY <2>1 DEF HandlesInv, WalkInv, Frames
    <2>5. u \in Walks /\ u.on = w.on
      <3>1. (w.cut \/ (w.on = o /\ ~Handles!IsPrefix(s, contents))) \in BOOLEAN
        BY Zenon
      <3> QED
        BY <2>3, <3>1 DEF Walks
    <2>6. CASE w.on = o
      <3>1. (w.cut \/ (w.on = o /\ ~Handles!IsPrefix(s, contents)))
               = (w.cut \/ ~Handles!IsPrefix(s, contents))
        BY <2>6, Zenon
      <3>2. u = [w EXCEPT !.cut = w.cut \/ ~Handles!IsPrefix(s, contents)]
        BY <2>3, <3>1, Zenon
      <3>3. Frame(callback, s, w)
        BY <1>1, <2>4, <2>6
      <3>4. s \in Seq(Elements) => contents \in Seq(Elements)
        BY <1>1
      <3>5. Frame(callback, contents, u)
        BY <1>3, <3>2, <3>3, <3>4, ChangedWalk
      <3> QED
        BY <1>4, <2>2, <2>4, <2>5, <2>6, <3>5
    <2>7. CASE w.on # o
      <3>1. (w.cut \/ (w.on = o /\ ~Handles!IsPrefix(s, contents))) = w.cut
        <4>1. w.cut \in BOOLEAN
          BY DEF Walks
        <4> QED
          BY <2>7, <4>1, Zenon
      <3>2. u = [w EXCEPT !.cut = w.cut]
        BY <2>3, <3>1, Zenon
      <3>3. u = w
        BY <3>2 DEF Walks
      <3> QED
        BY <1>4, <2>2, <2>4, <2>5, <2>7, <3>3
    <2> QED
      BY <2>6, <2>7
  <1>7. walks' \in Seq(Walks) /\ Len(walks') = Len(walks)
    <2>1. PICK n \in Nat : n = Len(walks)
      BY <1>3
    <2>2. PICK ws : ws = walks'
      OBVIOUS
    <2>3. DOMAIN ws = 1 .. n /\ ws = [k \in 1 .. n |-> ws[k]]
      BY <1>2, <1>3, <2>1, <2>2
    <2>4. \A k \in 1 .. n : ws[k] \in Walks
      BY <1>6, <2>1, <2>2
    <2>5. ws \in [1 .. n -> Walks]
      BY <2>3, <2>4
    <2>6. ws \in Seq(Walks)
      BY <2>5
    <2>7. Len(ws) \in Nat /\ DOMAIN ws = 1 .. Len(ws)
      BY <2>6, LenProperties
    <2> QED
      BY <2>1, <2>2, <2>3, <2>6, <2>7
  <1>8. WalkInv'
    <2>1. Len(objects') + Len(walks') <= MaxHandles
      BY <1>4, <1>7 DEF HandlesInv, WalkInv
    <2>2. Frames(callback, objects', walks')
      BY <1>4, <1>6, <1>7 DEF Frames
    <2> QED
      BY <1>2, <1>7, <2>1, <2>2 DEF WalkInv
  <1>9. FoundInv'
    BY <1>2 DEF FoundInv, Handles!NoResult
  <1> QED
    BY <1>5, <1>8, <1>9 DEF HandlesInv

\* What the functions that change an array leave in it.
SameKind(s, t) == t \in Seq(Cells) /\ (s \in Seq(Elements) => t \in Seq(Elements))

LEMMA ChangesFacts ==
    ASSUME NEW s \in Seq(Cells)
    PROVE  /\ SameKind(s, <<>>) /\ (s # <<>> => SameKind(s, Handles!Front(s)))
           /\ \A v \in Elements : SameKind(s, Append(s, v))
           /\ \A i \in 0 .. MaxLength : SameKind(s, Handles!Cut(s, i))
           /\ \A i \in 0 .. MaxLength, v \in Elements : SameKind(s, Handles!Replaced(s, i, v))
  <1>1. 0 .. MaxLength \subseteq Nat
    BY HandlesAssumption
  <1>2. ASSUME NEW S, Elements \subseteq S, NEW t \in Seq(S)
        PROVE  /\ <<>> \in Seq(S) /\ (t # <<>> => Handles!Front(t) \in Seq(S))
               /\ \A v \in Elements : Append(t, v) \in Seq(S)
               /\ \A i \in 0 .. MaxLength : Handles!Cut(t, i) \in Seq(S)
               /\ \A i \in 0 .. MaxLength, v \in Elements :
                     Handles!Replaced(t, i, v) \in Seq(S)
    <2>1. \A v \in Elements : Append(t, v) \in Seq(S)
      BY <1>2, AppendProperties
    <2>2. /\ \A i \in Nat : Handles!Cut(t, i) \in Seq(S)
          /\ \A i \in Nat, v \in S : Handles!Replaced(t, i, v) \in Seq(S)
          /\ t # <<>> => Handles!Front(t) \in Seq(S)
      BY Rearranged
    <2>3. <<>> \in Seq(S)
      OBVIOUS
    <2>4. \A i \in 0 .. MaxLength : Handles!Cut(t, i) \in Seq(S)
      BY <1>1, <2>2
    <2>5. \A i \in 0 .. MaxLength, v \in Elements : Handles!Replaced(t, i, v) \in Seq(S)
      BY <1>1, <1>2, <2>2
    <2> QED
      BY <2>1, <2>2, <2>3, <2>4, <2>5
  <1>3. Elements \subseteq Cells
    BY CellFacts
  <1>4. /\ <<>> \in Seq(Cells) /\ (s # <<>> => Handles!Front(s) \in Seq(Cells))
        /\ \A v \in Elements : Append(s, v) \in Seq(Cells)
        /\ \A i \in 0 .. MaxLength : Handles!Cut(s, i) \in Seq(Cells)
        /\ \A i \in 0 .. MaxLength, v \in Elements : Handles!Replaced(s, i, v) \in Seq(Cells)
    BY <1>2, <1>3
  <1>5. s \in Seq(Elements) =>
        /\ <<>> \in Seq(Elements) /\ (s # <<>> => Handles!Front(s) \in Seq(Elements))
        /\ \A v \in Elements : Append(s, v) \in Seq(Elements)
        /\ \A i \in 0 .. MaxLength : Handles!Cut(s, i) \in Seq(Elements)
        /\ \A i \in 0 .. MaxLength, v \in Elements :
              Handles!Replaced(s, i, v) \in Seq(Elements)
    BY <1>2
  <1> QED
    BY <1>4, <1>5 DEF SameKind

\* An array of the program's own is changed through its handle.
LEMMA ChangesStep ==
    ASSUME HandlesInv, NEW h,
           \/ Handles!clear(h) \/ Handles!array_pop(h)
           \/ \E v \in Elements : Handles!push(h, v) \/ Handles!array_push(h, v)
           \/ \E i \in 0 .. MaxLength : Handles!remove(h, i)
           \/ \E i \in 0 .. MaxLength : \E v \in Elements :
                 Handles!set(h, i, v) \/ Handles!array_set(h, i, v)
    PROVE  HandlesInv'
  <1>1. \A o \in 1 .. Len(objects) : objects[o] \in Seq(Cells)
    BY ElementOfSeq DEF HandlesInv, HandleTypes
  <1>2. /\ h \in DOMAIN listStore =>
              /\ listStore[h] \in 1 .. Len(objects) /\ Handles!ListOf(h) \in Seq(Cells)
              /\ Handles!ListOf(h) = objects[listStore[h]]
        /\ h \in DOMAIN arrayStore =>
              /\ arrayStore[h] \in 1 .. Len(objects) /\ Handles!ArrayOf(h) \in Seq(Cells)
              /\ Handles!ArrayOf(h) = objects[arrayStore[h]]
    <2>1. /\ h \in DOMAIN listStore => listStore[h] \in 1 .. Len(objects)
          /\ h \in DOMAIN arrayStore => arrayStore[h] \in 1 .. Len(objects)
      BY DEF HandlesInv, HandleTypes
    <2> QED
      BY <1>1, <2>1 DEF Handles!ListOf, Handles!ArrayOf
  <1>3. ASSUME NEW o \in 1 .. Len(objects), NEW contents, Handles!Change(o, contents),
               SameKind(objects[o], contents)
        PROVE  HandlesInv'
    BY <1>3, ChangeStep DEF SameKind
  <1>4. ASSUME h \in DOMAIN listStore, NEW contents, SameKind(Handles!ListOf(h), contents),
               Handles!Change(listStore[h], contents)
        PROVE  HandlesInv'
    BY <1>2, <1>3, <1>4
  <1>5. ASSUME h \in DOMAIN arrayStore, NEW contents, SameKind(Handles!ArrayOf(h), contents),
               Handles!Change(arrayStore[h], contents)
        PROVE  HandlesInv'
    BY <1>2, <1>3, <1>5
  <1>6. CASE Handles!clear(h)
    <2>1. h \in DOMAIN listStore /\ Handles!Change(listStore[h], <<>>)
      BY <1>6 DEF Handles!clear
    <2>2. SameKind(Handles!ListOf(h), <<>>)
      BY <1>2, <2>1, ChangesFacts
    <2> QED
      BY <1>4, <2>1, <2>2
  <1>7. CASE Handles!array_pop(h)
    <2>1. /\ h \in DOMAIN arrayStore /\ Handles!ArrayOf(h) # <<>>
          /\ Handles!Change(arrayStore[h], Handles!Front(Handles!ArrayOf(h)))
      BY <1>7 DEF Handles!array_pop
    <2>2. SameKind(Handles!ArrayOf(h), Handles!Front(Handles!ArrayOf(h)))
      BY <1>2, <2>1, ChangesFacts
    <2> QED
      BY <1>5, <2>1, <2>2
  <1>8. ASSUME NEW v \in Elements, Handles!push(h, v) PROVE HandlesInv'
    <2>1. h \in DOMAIN listStore /\ Handles!Change(listStore[h], Append(Handles!ListOf(h), v))
      BY <1>8 DEF Handles!push
    <2>2. SameKind(Handles!ListOf(h), Append(Handles!ListOf(h), v))
      BY <1>2, <2>1, ChangesFacts
    <2> QED
      BY <1>4, <2>1, <2>2
  <1>9. ASSUME NEW v \in Elements, Handles!array_push(h, v) PROVE HandlesInv'
    <2>1. /\ h \in DOMAIN arrayStore
          /\ Handles!Change(arrayStore[h], Append(Handles!ArrayOf(h), v))
      BY <1>9 DEF Handles!array_push
    <2>2. SameKind(Handles!ArrayOf(h), Append(Handles!ArrayOf(h), v))
      BY <1>2, <2>1, ChangesFacts
    <2> QED
      BY <1>5, <2>1, <2>2
  <1>10. ASSUME NEW i \in 0 .. MaxLength, Handles!remove(h, i) PROVE HandlesInv'
    <2>1. h \in DOMAIN listStore /\ Handles!Change(listStore[h], Handles!Cut(Handles!ListOf(h), i))
      BY <1>10 DEF Handles!remove
    <2>2. SameKind(Handles!ListOf(h), Handles!Cut(Handles!ListOf(h), i))
      BY <1>2, <2>1, ChangesFacts
    <2> QED
      BY <1>4, <2>1, <2>2
  <1>11. ASSUME NEW i \in 0 .. MaxLength, NEW v \in Elements, Handles!set(h, i, v)
         PROVE  HandlesInv'
    <2>1. /\ h \in DOMAIN listStore
          /\ Handles!Change(listStore[h], Handles!Replaced(Handles!ListOf(h), i, v))
      BY <1>11 DEF Handles!set
    <2>2. SameKind(Handles!ListOf(h), Handles!Replaced(Handles!ListOf(h), i, v))
      BY <1>2, <2>1, ChangesFacts
    <2> QED
      BY <1>4, <2>1, <2>2
  <1>12. ASSUME NEW i \in 0 .. MaxLength, NEW v \in Elements, Handles!array_set(h, i, v)
         PROVE  HandlesInv'
    <2>1. /\ h \in DOMAIN arrayStore
          /\ Handles!Change(arrayStore[h], Handles!Replaced(Handles!ArrayOf(h), i, v))
      BY <1>12 DEF Handles!array_set
    <2>2. SameKind(Handles!ArrayOf(h), Handles!Replaced(Handles!ArrayOf(h), i, v))
      BY <1>2, <2>1, ChangesFacts
    <2> QED
      BY <1>5, <2>1, <2>2
  <1> QED
    BY <1>6, <1>7, <1>8, <1>9, <1>10, <1>11, <1>12

\* Arrays that are made, in a callback or outside of one.
LEMMA CreatedStep ==
    ASSUME HandlesInv, NEW contents \in Seq(Cells), objects' = Append(objects, contents),
           HandleTypes', HandlesDistinct', Len(objects) + Len(walks) < MaxHandles,
           UNCHANGED <<walks, callback>>, found' = Handles!NoResult
    PROVE  HandlesInv'
  <1>1. /\ objects \in Seq(Seq(Cells)) /\ Len(objects) \in Nat /\ MaxHandles \in Nat
        /\ walks \in Seq(Walks) /\ Len(walks) \in Nat /\ Frames(callback, objects, walks)
    BY HandlesAssumption, LenProperties DEF HandlesInv, HandleTypes, WalkInv
  <1>2. /\ Len(objects') = Len(objects) + 1
        /\ \A o \in 1 .. Len(objects) : objects'[o] = objects[o]
    BY <1>1, AppendProperties
  <1>3. Frames(callback, objects', walks)
    <2>1. PICK objs, more : objs = objects /\ more = objects'
      OBVIOUS
    <2>2. /\ Len(objs) \in Nat /\ Len(more) \in Nat /\ Len(objs) <= Len(more)
          /\ \A o \in 1 .. Len(objs) : more[o] = objs[o]
      BY <1>1, <1>2, <2>1
    <2>3. Frames(callback, objs, walks)
      BY <1>1, <2>1
    <2>4. Frames(callback, more, walks)
      BY <2>2, <2>3, FramesKept
    <2> QED
      BY <2>1, <2>4
  <1>4. WalkInv'
    <2>1. Len(objects') + Len(walks) <= MaxHandles
      BY <1>1, <1>2
    <2> QED
      BY <1>1, <1>3, <2>1 DEF WalkInv
  <1>5. FoundInv'
    BY DEF FoundInv, Handles!NoResult
  <1> QED
    BY <1>4, <1>5 DEF HandlesInv

LEMMA RoomFacts ==
    ASSUME HandlesInv, Handles!Room
    PROVE  Len(objects) + Len(walks) < MaxHandles /\ Len(objects) < MaxHandles
  <1>1. Len(objects) \in Nat /\ Len(walks) \in Nat /\ MaxHandles \in Nat
    BY ApartIs, HandlesAssumption, LenProperties DEF HandlesInv, WalkInv
  <1>2. Len(objects) + Len(walks) < MaxHandles
    BY DEF Handles!Room
  <1> QED
    BY <1>1, <1>2

LEMMA StoresStep ==
    ASSUME HandlesInv, NEW contents \in Seq(Cells), Handles!Stores(contents)
    PROVE  HandlesInv'
  <1>1. /\ Handles!Room /\ objects' = Append(objects, contents)
        /\ arrayStore' = [h \in DOMAIN arrayStore \cup {nextArray} |->
                            IF h = nextArray THEN Len(objects) + 1 ELSE arrayStore[h]]
        /\ nextArray' = nextArray + 1 /\ found' = Handles!NoResult
        /\ UNCHANGED <<listStore, nextList, walks, callback>>
    BY DEF Handles!Stores, Handles!storeArray, Handles!Named
  <1>2. Len(objects) + Len(walks) < MaxHandles /\ Len(objects) < MaxHandles
    BY <1>1, RoomFacts
  <1>3. HandleTypes' /\ HandlesDistinct'
    BY <1>1, <1>2, ObjectStored DEF HandlesInv
  <1> QED
    BY <1>1, <1>2, <1>3, CreatedStep

LEMMA AllocateStep ==
    ASSUME HandlesInv, Handles!allocate
    PROVE  HandlesInv'
  <1>1. /\ Handles!Room /\ objects' = Append(objects, <<>>)
        /\ listStore' = [h \in DOMAIN listStore \cup {nextList} |->
                           IF h = nextList THEN Len(objects) + 1 ELSE listStore[h]]
        /\ nextList' = nextList + 1 /\ found' = Handles!NoResult
        /\ UNCHANGED <<arrayStore, nextArray, walks, callback>>
    BY DEF Handles!allocate
  <1>2. Len(objects) + Len(walks) < MaxHandles /\ Len(objects) < MaxHandles
    BY <1>1, RoomFacts
  <1>3. <<>> \in Seq(Cells)
    OBVIOUS
  <1>4. HandleTypes' /\ HandlesDistinct'
    BY <1>1, <1>2, <1>3, ObjectStored DEF HandlesInv
  <1> QED
    BY <1>1, <1>2, <1>3, <1>4, CreatedStep

\* The functions that return a new array.
LEMMA CopiesStep ==
    ASSUME HandlesInv, NEW h,
           \/ \E s \in Handles!Contents : Handles!FreshArray(s)
           \/ Handles!array_reverse(h) \/ Handles!array_sort(h)
           \/ \E i \in 0 .. MaxLength : Handles!array_slice(h, 0, i) \/ Handles!array_slice(h, 1, i)
           \/ \E g : Handles!array_concat(h, g)
    PROVE  HandlesInv'
  <1>1. \A g \in DOMAIN arrayStore : Handles!ArrayOf(g) \in Seq(Cells)
    <2> SUFFICES ASSUME NEW g \in DOMAIN arrayStore PROVE Handles!ArrayOf(g) \in Seq(Cells)
      OBVIOUS
    <2>1. arrayStore[g] \in 1 .. Len(objects) /\ objects \in Seq(Seq(Cells))
      BY DEF HandlesInv, HandleTypes
    <2> QED
      BY <2>1, ElementOfSeq DEF Handles!ArrayOf
  <1>2. ASSUME NEW s \in Handles!Contents, Handles!FreshArray(s) PROVE HandlesInv'
    <2>1. ASSUME NEW a \in Elements, s = <<a>> PROVE s \in Seq(Cells)
      BY <2>1, CellFacts
    <2>2. ASSUME NEW a \in Elements, NEW b \in Elements, s = <<a, b>> PROVE s \in Seq(Cells)
      BY <2>2, CellFacts
    <2>3. s = <<>> \/ (\E a \in Elements : s = <<a>>) \/ (\E a, b \in Elements : s = <<a, b>>)
      BY DEF Handles!Contents, Elements
    <2>4. s \in Seq(Cells)
      <3>1. <<>> \in Seq(Cells)
        OBVIOUS
      <3> QED
        BY <2>1, <2>2, <2>3, <3>1
    <2> QED
      BY <1>2, <2>4, StoresStep DEF Handles!FreshArray
  <1>3. CASE Handles!array_reverse(h)
    <2>1. h \in DOMAIN arrayStore /\ Handles!Stores(Handles!Reverse(Handles!ArrayOf(h)))
      BY <1>3 DEF Handles!array_reverse
    <2>2. Handles!Reverse(Handles!ArrayOf(h)) \in Seq(Cells)
      BY <1>1, <2>1, Rearranged
    <2> QED
      BY <2>1, <2>2, StoresStep
  <1>4. CASE Handles!array_sort(h)
    <2>1. PICK s : s = Handles!ArrayOf(h)
      OBVIOUS
    <2>2. h \in DOMAIN arrayStore /\ \E p \in Handles!Orders(s) : Handles!Stores([i \in DOMAIN p |-> s[p[i]]])
      BY <1>4, <2>1 DEF Handles!array_sort
    <2>3. PICK p \in Handles!Orders(s) : Handles!Stores([i \in DOMAIN p |-> s[p[i]]])
      BY <2>2
    <2>4. [i \in DOMAIN p |-> s[p[i]]] \in Seq(Cells)
      <3>1. s \in Seq(Cells)
        BY <1>1, <2>1, <2>2
      <3> QED
        BY <3>1, Rearranged
    <2> QED
      BY <2>3, <2>4, StoresStep
  <1>5. ASSUME NEW i \in 0 .. MaxLength, NEW f \in {0, 1}, Handles!array_slice(h, f, i)
        PROVE  HandlesInv'
    <2>1. PICK s : s = Handles!ArrayOf(h)
      OBVIOUS
    <2>2. h \in DOMAIN arrayStore /\ Handles!Stores(SubSeq(s, f + 1, IF i > Len(s) THEN Len(s) ELSE i))
      BY <1>5, <2>1 DEF Handles!array_slice
    <2>3. SubSeq(s, f + 1, IF i > Len(s) THEN Len(s) ELSE i) \in Seq(Cells)
      <3>1. s \in Seq(Cells) /\ i \in Nat /\ f \in Nat
        BY <1>1, <2>1, <2>2, HandlesAssumption
      <3>2. \A m, n \in Nat : SubSeq(s, m + 1, IF n > Len(s) THEN Len(s) ELSE n) \in Seq(Cells)
        BY <3>1, Rearranged
      <3> QED
        BY <3>1, <3>2
    <2> QED
      BY <2>2, <2>3, StoresStep
  <1>6. ASSUME NEW g, Handles!array_concat(h, g) PROVE HandlesInv'
    <2>1. /\ h \in DOMAIN arrayStore /\ g \in DOMAIN arrayStore
          /\ Handles!Stores(Handles!ArrayOf(h) \o Handles!ArrayOf(g))
      BY <1>6 DEF Handles!array_concat
    <2>2. Handles!ArrayOf(h) \o Handles!ArrayOf(g) \in Seq(Cells)
      BY <1>1, <2>1, ConcatProperties
    <2> QED
      BY <2>1, <2>2, StoresStep
  <1> QED
    <2>1. ASSUME NEW i \in 0 .. MaxLength, Handles!array_slice(h, 0, i) \/ Handles!array_slice(h, 1, i)
          PROVE  HandlesInv'
      BY <1>5, <2>1
    <2> QED
      BY <1>2, <1>3, <1>4, <1>6, <2>1

\* Nothing is held when a request begins.
LEMMA EmptyTables ==
    ASSUME listStore = Handles!NoHandles, arrayStore = Handles!NoHandles, objects = <<>>,
           nextList = 1, nextArray = 1, walks = <<>>, found = Handles!NoResult,
           callback \in [Elements -> Elements]
    PROVE  HandlesInv
  <1>1. /\ Len(objects) = 0 /\ objects \in Seq(Seq(Cells))
        /\ Len(walks) = 0 /\ walks \in Seq(Walks)
    OBVIOUS
  <1>2. 1 .. 1 - 1 = {} /\ 1 \in Nat \ {0} /\ 1 + 1 = 0 + 2 /\ 0 <= MaxHandles
    BY HandlesAssumption
  <1>3. \A S : Handles!NoHandles \in [{} -> S] /\ DOMAIN Handles!NoHandles = {}
    BY DEF Handles!NoHandles
  <1>4. HandleTypes
    BY <1>1, <1>2, <1>3 DEF HandleTypes
  <1>5. HandlesDistinct
    BY <1>3 DEF HandlesDistinct
  <1>6. Frames(callback, objects, walks) /\ 0 + 0 <= MaxHandles
    BY <1>1, <1>2 DEF Frames
  <1>7. WalkInv /\ FoundInv
    BY <1>1, <1>6 DEF WalkInv, FoundInv, Handles!NoResult
  <1> QED
    BY <1>4, <1>5, <1>7 DEF HandlesInv

LEMMA HandlesInit == Handles!Init => HandlesInv
  BY EmptyTables DEF Handles!Init, Elements

LEMMA RequestEndsStep ==
    ASSUME HandlesInv, Handles!RequestEnds
    PROVE  HandlesInv'
  <1>1. /\ listStore' = Handles!NoHandles /\ arrayStore' = Handles!NoHandles
        /\ objects' = <<>> /\ nextList' = 1 /\ nextArray' = 1
        /\ walks' = <<>> /\ found' = Handles!NoResult /\ callback' = callback
    BY DEF Handles!RequestEnds, Handles!resetPerRequestBridgeState
  <1>2. callback' \in [Elements -> Elements]
    BY <1>1 DEF HandlesInv, HandleTypes
  <1>3. /\ Len(objects') = 0 /\ objects' \in Seq(Seq(Cells))
        /\ Len(walks') = 0 /\ walks' \in Seq(Walks)
    BY <1>1
  <1>4. 1 .. 1 - 1 = {} /\ 1 \in Nat \ {0} /\ 1 + 1 = 0 + 2 /\ 0 <= MaxHandles
    BY HandlesAssumption
  <1>5. \A S : Handles!NoHandles \in [{} -> S] /\ DOMAIN Handles!NoHandles = {}
    BY DEF Handles!NoHandles
  <1>6. HandleTypes'
    BY <1>1, <1>2, <1>3, <1>4, <1>5 DEF HandleTypes
  <1>7. HandlesDistinct'
    BY <1>1, <1>5 DEF HandlesDistinct
  <1>8. Frames(callback', objects', walks') /\ 0 + 0 <= MaxHandles
    BY <1>3, <1>4 DEF Frames
  <1>9. WalkInv' /\ FoundInv'
    BY <1>1, <1>3, <1>8 DEF WalkInv, FoundInv, Handles!NoResult
  <1> QED
    BY <1>6, <1>7, <1>9 DEF HandlesInv

LEMMA HandlesNext == ASSUME HandlesInv, [Handles!Next]_handleVars PROVE HandlesInv'
  <1>1. CASE Handles!allocate
    BY <1>1, AllocateStep
  <1>2. CASE Handles!Returns
    BY <1>2, ReturnsStep
  <1>3. CASE Handles!RequestEnds
    BY <1>3, RequestEndsStep
  <1>4. ASSUME NEW s \in Handles!Contents, Handles!FreshArray(s) PROVE HandlesInv'
    BY <1>4, CopiesStep
  <1>5. ASSUME NEW h \in Handles!Handles,
               \/ Handles!clear(h) \/ Handles!array_pop(h) \/ Handles!array_reverse(h)
               \/ Handles!array_sort(h) \/ Handles!array_filter(h) \/ Handles!array_map(h)
               \/ Handles!array_reduce(h) \/ Handles!array_find(h)
        PROVE  HandlesInv'
    BY <1>5, ChangesStep, CopiesStep, BeginStep
  <1>6. ASSUME NEW h \in Handles!Handles, NEW v \in Handles!Elements,
               Handles!push(h, v) \/ Handles!array_push(h, v)
        PROVE  HandlesInv'
    BY <1>6, ChangesStep DEF Elements
  <1>7. ASSUME NEW h \in Handles!Handles, NEW i \in 0 .. MaxLength,
               Handles!remove(h, i) \/ Handles!array_slice(h, 0, i) \/ Handles!array_slice(h, 1, i)
        PROVE  HandlesInv'
    BY <1>7, ChangesStep, CopiesStep
  <1>8. ASSUME NEW h \in Handles!Handles, NEW i \in 0 .. MaxLength, NEW v \in Handles!Elements,
               Handles!set(h, i, v) \/ Handles!array_set(h, i, v)
        PROVE  HandlesInv'
    BY <1>8, ChangesStep DEF Elements
  <1>9. ASSUME NEW h \in Handles!Handles, NEW g \in Handles!Handles, Handles!array_concat(h, g)
        PROVE  HandlesInv'
    BY <1>9, CopiesStep
  <1>10. CASE UNCHANGED handleVars
    BY <1>10 DEF handleVars, HandlesInv, HandleTypes, HandlesDistinct, WalkInv, FoundInv
  <1> QED
    BY <1>1, <1>2, <1>3, <1>4, <1>5, <1>6, <1>7, <1>8, <1>9, <1>10 DEF Handles!Next

\* The invariant of the handles, for a run of them.
LEMMA HandlesAlways == MCSpec => [](part = "handles" => HandlesInv)
  <1> DEFINE Inv == part = "handles" => HandlesInv
  <1>1. MCInit => Inv
    BY HandlesInit DEF MCInit
  <1>2. Inv /\ [MCNext]_allVars => Inv'
    <2> SUFFICES ASSUME part' = "handles", Inv, [MCNext]_allVars PROVE HandlesInv'
      OBVIOUS
    <2>1. part = "handles"
      BY DEF MCNext, allVars, ChannelOnly, StoreOnly, HttpOnly, McpOnly, HandlesOnly
    <2>2. [Handles!Next]_handleVars
      BY <2>1 DEF MCNext, allVars, ChannelOnly, StoreOnly, HttpOnly, McpOnly
    <2> QED
      BY <2>1, <2>2, HandlesNext
  <1> QED
    BY <1>1, <1>2, PTL DEF MCSpec

\* What a walk should give is what it has gathered in the end.
LEMMA ReferenceIs ==
    ASSUME NEW s \in Seq(Elements), callback \in [Elements -> Elements], NEW o \in Operations
    PROVE  Handles!Reference(o, s) = Prefix(callback, s, o, Len(s))
  <1>1. DOMAIN s = 1 .. Len(s)
    BY LenProperties
  <1>2. Handles!Ascending({i \in DOMAIN s : callback[s[i]] # 0}) = HitsOf(callback, s, Len(s))
    <2>1. PICK A : A = {i \in DOMAIN s : callback[s[i]] # 0}
      OBVIOUS
    <2>2. A = {i \in 1 .. Len(s) : callback[s[i]] # 0}
      BY <1>1, <2>1
    <2>3. Handles!Ascending(A) = Ascending(A)
      BY HandlesAscending
    <2> QED
      BY <2>1, <2>2, <2>3 DEF HitsOf
  <1>3. CASE o = "filter"
    BY <1>2, <1>3 DEF Handles!Reference, Prefix
  <1>4. CASE o = "map"
    BY <1>1, <1>4 DEF Handles!Reference, Prefix
  <1>5. CASE o = "find"
    BY <1>2, <1>5 DEF Handles!Reference, Prefix
  <1>6. CASE o = "reduce"
    BY <1>6 DEF Handles!Reference, Prefix, Value, IsValue, Handles!Combine, Combined
  <1> QED
    BY <1>3, <1>4, <1>5, <1>6 DEF Operations

\* As long as a request runs its handles name arrays of their own, and whatever the
\* callbacks of a walk store, append or walk themselves, the walk gives what the function
\* promises as long as the elements it had are kept; of one that was cut, filter gathers
\* no more than the array had and map keeps its length (bridge/list.ts, bridge/array.ts,
\* the reset in bridge/index.ts).
THEOREM HandlesStayIntact == MCSpec => []HandlesIntact
  <1>1. (part = "handles" => HandlesInv) => HandlesIntact
    <2> SUFFICES ASSUME HandlesInv PROVE Handles!HandlesIntact
      BY DEF HandlesIntact
    <2>1. Handles!HandlesApart
      BY DEF HandlesInv, HandleTypes, HandlesDistinct, Handles!HandlesApart, Handles!IsInjective
    <2>2. Handles!WalksExact
      <3> SUFFICES ASSUME found.op # "none"
                   PROVE  /\ ~found.cut => found.is = Handles!Reference(found.op,
                                IF found.op \in {"filter", "map"} THEN found.was ELSE found.now)
                          /\ found.op = "filter" => Len(found.is) <= Len(found.was)
                          /\ found.op = "map" => Len(found.is) = Len(found.was)
        BY DEF Handles!WalksExact
      <3>1. PICK that : that = IF found.op \in {"filter", "map"} THEN found.was ELSE found.now
        OBVIOUS
      <3>2. /\ found.op \in Operations /\ that \in Seq(Elements)
            /\ callback \in [Elements -> Elements]
            /\ ~found.cut => found.is = Prefix(callback, that, found.op, Len(that))
            /\ found.op = "filter" => Len(found.is) <= Len(found.was)
            /\ found.op = "map" => Len(found.is) = Len(found.was)
        BY <3>1 DEF HandlesInv, FoundInv, HandleTypes
      <3>3. Handles!Reference(found.op, that) = Prefix(callback, that, found.op, Len(that))
        BY <3>2, ReferenceIs
      <3> QED
        BY <3>1, <3>2, <3>3
    <2> QED
      BY <2>1, <2>2 DEF Handles!HandlesIntact
  <1> QED
    BY <1>1, HandlesAlways, PTL

LEMMA HandlesTyped == ASSUME HandlesInv PROVE Handles!TypeOK
  <1>1. \A o \in 1 .. Len(objects) : objects[o] \in Seq(Handles!Elements \cup {Handles!Hole})
    BY ElementOfSeq DEF HandlesInv, HandleTypes, Cells, Elements
  <1>2. DOMAIN listStore \subseteq 1 .. MaxHandles /\ DOMAIN arrayStore \subseteq 1 .. MaxHandles
    <2>1. /\ nextList \in Nat \ {0} /\ nextArray \in Nat \ {0} /\ MaxHandles \in Nat
          /\ nextList + nextArray = Len(objects) + 2 /\ Len(objects) <= MaxHandles
          /\ Len(objects) \in Nat
      BY ApartIs, HandlesAssumption DEF HandlesInv, HandleTypes
    <2>2. nextList - 1 <= MaxHandles /\ nextArray - 1 <= MaxHandles
      BY <2>1
    <2>3. DOMAIN listStore = 1 .. nextList - 1 /\ DOMAIN arrayStore = 1 .. nextArray - 1
      BY DEF HandlesInv, HandleTypes
    <2> QED
      BY <2>1, <2>2, <2>3
  <1>3. ASSUME NEW k \in DOMAIN walks
        PROVE  LET w == walks[k]
               IN  /\ w.op \in {"filter", "map", "reduce", "find"}
                   /\ w.on \in 1 .. Len(objects) /\ w.i \in Nat \ {0} /\ w.len \in Nat
                   /\ w.arg \in Elements /\ w.out \in Seq(Elements) /\ w.was \in Seq(Elements)
    <2>1. walks \in Seq(Walks) /\ k \in 1 .. Len(walks)
      BY LenProperties DEF HandlesInv, WalkInv
    <2>2. walks[k] \in Walks
      BY <2>1, ElementOfSeq
    <2>3. walks[k].on \in 1 .. Len(objects) /\ walks[k].i >= 1
      BY <2>1 DEF HandlesInv, WalkInv, Frames, Frame
    <2> QED
      BY <2>2, <2>3 DEF Walks, Operations
  <1> QED
    BY <1>1, <1>2, <1>3 DEF HandlesInv, HandleTypes, Handles!TypeOK, Handles!Handles, Cells,
       Elements

-----------------------------------------------------------------------------
(***************************************************************************)
(* The types of all parts; those of the session channel hold also when a   *)
(* call begins while an abandoned one is under way.                        *)
(***************************************************************************)
ChannelTypes == TypeOK /\ (caller # "idle" => call \in Calls)

LEMMA CallingTypes == ASSUME ChannelTypes, StoreRequest \/ Calling PROVE ChannelTypes'
  <1>1. CASE StoreRequest
    <2>1. /\ caller = "idle" /\ call < MaxCalls /\ call' = call + 1 /\ caller' = "len"
          /\ data' = Request(call + 1)
          /\ UNCHANGED <<state, len, gotLen, result, main, current, handler, reqLen, answer,
                         applied, failures, exited>>
      BY <1>1 DEF StoreRequest, mainVars
    <2>2. call' \in Calls /\ call' \in 0 .. MaxCalls
      BY <2>1, MessageFacts DEF ChannelTypes, TypeOK
    <2>3. data' \in Contents
      BY <2>1, <2>2, MessageFacts
    <2>4. late' \in BOOLEAN
      BY <1>1 DEF StoreRequest, ChannelTypes, TypeOK
    <2>5. hurried' \subseteq Calls
      BY <1>1, <2>1, <2>2 DEF StoreRequest, ChannelTypes, TypeOK
    <2> QED
      BY <2>1, <2>2, <2>3, <2>4, <2>5 DEF ChannelTypes, TypeOK
  <1>2. CASE StoreLength
    <2>1. len' \in Contents
      BY <1>2, MessageFacts DEF StoreLength, SetLength, ChannelTypes
    <2> QED
      BY <1>2, <2>1 DEF StoreLength, mainVars, ChannelTypes, TypeOK
  <1>3. CASE StorePending
    BY <1>3 DEF StorePending, mainVars, ChannelTypes, TypeOK
  <1>4. CASE PostMessage
    <2>1. handler' \in [Calls -> {"none", "posted", "running", "finished"}]
      BY <1>4 DEF PostMessage, ChannelTypes, TypeOK
    <2> QED
      BY <1>4, <2>1 DEF PostMessage, shared, ChannelTypes, TypeOK
  <1>5. CASE Wait \/ Timeout
    BY <1>5 DEF Wait, Timeout, WaitDue, shared, mainVars, ChannelTypes, TypeOK
  <1>6. CASE GiveUp
    <2>1. result' \in [Calls -> Contents \cup {NoResult, TimedOut}] /\ state' # PENDING
      BY <1>6, MessageFacts DEF GiveUp, Abandon, ChannelTypes, TypeOK
    <2> QED
      BY <1>6, <2>1 DEF GiveUp, Abandon, mainVars, ChannelTypes, TypeOK
  <1>7. CASE LoadLength
    BY <1>7 DEF LoadLength, shared, mainVars, ChannelTypes, TypeOK
  <1>8. CASE LoadResponse
    <2>1. PICK m \in Decode(data, gotLen) : result' = [result EXCEPT ![call] = m]
      BY <1>8 DEF LoadResponse
    <2>2. m \in Contents
      BY <2>1, MessageFacts DEF Decode, ChannelTypes, TypeOK
    <2>3. result' \in [Calls -> Contents \cup {NoResult, TimedOut}]
      BY <2>1, <2>2 DEF ChannelTypes, TypeOK
    <2> QED
      BY <1>8, <2>3 DEF LoadResponse, shared, mainVars, ChannelTypes, TypeOK
  <1>9. CASE StoreIdle
    <2>1. state' # PENDING
      BY <1>9, MessageFacts DEF StoreIdle
    <2> QED
      BY <1>9, <2>1 DEF StoreIdle, mainVars, ChannelTypes, TypeOK
  <1> QED
    BY <1>1, <1>2, <1>3, <1>4, <1>5, <1>6, <1>7, <1>8, <1>9 DEF Calling

LEMMA MainTypes == ASSUME ChannelTypes, Main PROVE ChannelTypes'
  <1>1. ASSUME NEW h \in Calls, LoadRequestLength(h) \/ Reject(h) \/ WriteResponse(h)
        PROVE  ChannelTypes'
    <2>1. CASE LoadRequestLength(h)
      BY <2>1, MessageFacts DEF LoadRequestLength, shared, callerVars, ChannelTypes, TypeOK
    <2>2. CASE Reject(h)
      BY <2>2, MaxFailuresAssumption DEF Reject, shared, callerVars, ChannelTypes, TypeOK
    <2>3. CASE WriteResponse(h)
      BY <2>3, MessageFacts DEF WriteResponse, callerVars, ChannelTypes, TypeOK
    <2> QED
      BY <1>1, <2>1, <2>2, <2>3
  <1>2. CASE LoadGarbled
    BY <1>2 DEF LoadGarbled, shared, callerVars, ChannelTypes, TypeOK
  <1>3. CASE LoadRequest
    <2>1. PICK m \in Decode(data, reqLen) \ {Garbled} :
             IF m.kind = "request"
             THEN /\ applied' = [applied EXCEPT ![m.call] = applied[m.call] + 1]
                  /\ answer' = [answer EXCEPT ![current] = Response(m.call)]
             ELSE answer' = [answer EXCEPT ![current] = Refusal] /\ applied' = applied
      BY <1>3 DEF LoadRequest
    <2>2. m \in Contents
      BY <2>1 DEF Decode, ChannelTypes, TypeOK
    <2>3. m.kind = "request" => m.call \in Calls
      BY <2>2 DEF Contents, Request, Response, Refusal, Garbled
    <2>4. applied' \in [Calls -> Nat]
      BY <2>1, <2>3 DEF ChannelTypes, TypeOK
    <2>5. answer' \in [Calls -> Contents]
      <3>1. m.kind = "request" => Response(m.call) \in Contents
        BY <2>3, MessageFacts
      <3> QED
        BY <2>1, <3>1, MessageFacts DEF ChannelTypes, TypeOK
    <2>6. handler' \in [Calls -> {"none", "posted", "running", "finished"}]
      BY <1>3 DEF LoadRequest, ChannelTypes, TypeOK
    <2> QED
      BY <1>3, <2>4, <2>5, <2>6 DEF LoadRequest, shared, callerVars, ChannelTypes, TypeOK
  <1>4. CASE WriteLength
    <2>1. current \in Calls
      BY <1>4 DEF WriteLength, ChannelTypes, TypeOK
    <2> QED
      BY <1>4, <2>1, MessageFacts DEF WriteLength, callerVars, ChannelTypes, TypeOK
  <1>5. CASE WriteDone
    <2>1. handler' \in [Calls -> {"none", "posted", "running", "finished"}]
      BY <1>5 DEF WriteDone, ChannelTypes, TypeOK
    <2>2. state' # PENDING
      BY <1>5, MessageFacts DEF WriteDone
    <2> QED
      BY <1>5, <2>1, <2>2 DEF WriteDone, callerVars, ChannelTypes, TypeOK
  <1>6. CASE Notify
    BY <1>6 DEF Notify, shared, ChannelTypes, TypeOK
  <1> QED
    BY <1>1, <1>2, <1>3, <1>4, <1>5, <1>6 DEF Main

LEMMA ChannelTyped ==
    /\ Init => ChannelTypes
    /\ ChannelTypes /\ [Next]_vars => ChannelTypes'
  <1>1. Init => ChannelTypes
    <2> SUFFICES ASSUME Init PROVE ChannelTypes
      OBVIOUS
    <2>1. 0 \in 0 .. MaxCalls /\ 0 \in 0 .. MaxFailures
      BY MaxCallsAssumption, MaxFailuresAssumption
    <2>2. /\ handler \in [Calls -> {"none", "posted", "running", "finished"}]
          /\ applied \in [Calls -> Nat]
      BY DEF Init
    <2>3. /\ result \in [Calls -> Contents \cup {NoResult, TimedOut}]
          /\ answer \in [Calls -> Contents]
      BY MessageFacts DEF Init
    <2> QED
      BY <2>1, <2>2, <2>3, MessageFacts DEF Init, ChannelTypes, TypeOK
  <1>2. ASSUME ChannelTypes, UNCHANGED vars PROVE ChannelTypes'
    BY <1>2 DEF vars, shared, callerVars, mainVars, ChannelTypes, TypeOK
  <1> QED
    BY <1>1, <1>2, CallingTypes, MainTypes DEF Next

\* Every part of what a program reaches by its calls keeps its types, whichever of them
\* runs (session/*.ts, bridge/http-*.ts, bridge/mcp*.ts, bridge/list.ts, bridge/array.ts).
THEOREM SessionsTyped == MCSpec => []TypesOK
  <1> DEFINE Inv == /\ part = "channel" => ChannelTypes
                    /\ part = "store" => StoreInv
                    /\ part = "http" => HttpInv
                    /\ part = "mcp" => McpInv
                    /\ part = "handles" => HandlesInv
  <1>1. MCInit => Inv
    BY ChannelTyped, StoreInit, HttpInit, McpInit, HandlesInit DEF MCInit
  <1>2. Inv /\ [MCNext]_allVars => Inv'
    <2> SUFFICES ASSUME Inv, [MCNext]_allVars PROVE Inv'
      OBVIOUS
    <2>1. part' = part
      BY DEF MCNext, allVars, ChannelOnly, StoreOnly, HttpOnly, McpOnly, HandlesOnly
    <2>2. ASSUME part = "channel" PROVE ChannelTypes'
      <3>1. [Next]_vars
        BY <2>2 DEF MCNext, allVars, StoreOnly, HttpOnly, McpOnly, HandlesOnly
      <3> QED
        BY <2>2, <3>1, ChannelTyped
    <2>3. ASSUME part = "store" PROVE StoreInv'
      <3>1. [Store!Next]_storeVars
        BY <2>3 DEF MCNext, allVars, ChannelOnly, HttpOnly, McpOnly, HandlesOnly
      <3> QED
        BY <2>3, <3>1, StoreNext
    <2>4. ASSUME part = "http" PROVE HttpInv'
      <3>1. [Http!Next]_httpVars
        BY <2>4 DEF MCNext, allVars, StoreOnly, ChannelOnly, McpOnly, HandlesOnly
      <3> QED
        BY <2>4, <3>1, HttpNext
    <2>5. ASSUME part = "mcp" PROVE McpInv'
      <3>1. [Mcp!Next]_mcpVars
        BY <2>5 DEF MCNext, allVars, ChannelOnly, StoreOnly, HttpOnly, HandlesOnly
      <3> QED
        BY <2>5, <3>1, McpNext
    <2>6. ASSUME part = "handles" PROVE HandlesInv'
      <3>1. [Handles!Next]_handleVars
        BY <2>6 DEF MCNext, allVars, ChannelOnly, StoreOnly, HttpOnly, McpOnly
      <3> QED
        BY <2>6, <3>1, HandlesNext
    <2> QED
      BY <2>1, <2>2, <2>3, <2>4, <2>5, <2>6
  <1>3. Inv => TypesOK
    <2> SUFFICES ASSUME Inv PROVE TypesOK
      OBVIOUS
    <2>1. part = "channel" => TypeOK
      BY DEF ChannelTypes
    <2>2. part = "store" => Store!TypeOK
      BY DEF StoreInv
    <2>3. part = "http" => Http!TypeOK
      BY DEF HttpInv, HttpTypes
    <2>4. part = "mcp" => Mcp!TypeOK
      BY DEF McpInv, McpTypes
    <2>5. part = "handles" => Handles!TypeOK
      BY HandlesTyped
    <2> QED
      BY <2>1, <2>2, <2>3, <2>4, <2>5 DEF TypesOK
  <1> HIDE DEF Inv
  <1> QED
    BY <1>1, <1>2, <1>3, PTL DEF MCSpec

=============================================================================
