------------------------- MODULE Connections_proofs -------------------------
(***************************************************************************)
(* Theorems about the connections of MCServer that outlive their request:  *)
(* an event stream with any number of frames (SseStream), and the registry *)
(* of WebSockets for any sockets, rooms and bounds (WebsocketRooms).       *)
(***************************************************************************)
EXTENDS Server_proofs

-----------------------------------------------------------------------------
(***************************************************************************)
(* The inductive invariant of a stream: the frames on their way from the   *)
(* worker are the ones after those written, in order; a message that ends  *)
(* the stream is the last one, or has behind it only frames emitted after  *)
(* the handler closed; and a stream whose client has stayed was ended by   *)
(* such a message.                                                         *)
(***************************************************************************)
Message ==
    [type : {"ready", "frame", "sse_close", "sse_done", "fatal", "error"}, frame : 0 .. MaxFrames]

IsFrame(i) == messages[i].type = "frame"

FramesQueued ==
    /\ \A i \in DOMAIN messages : IsFrame(i) => messages[i].frame \in 1 .. emitted
    /\ \A i, j \in DOMAIN messages :
          i < j /\ IsFrame(i) /\ IsFrame(j) => messages[i].frame < messages[j].frame
    /\ ~streamEnded =>
          /\ \A i \in DOMAIN messages : IsFrame(i) => messages[i].frame > Len(written)
          /\ \A k \in Len(written) + 1 .. emitted :
                \E i \in DOMAIN messages : IsFrame(i) /\ messages[i].frame = k

CloseQueued ==
    /\ closing <= emitted
    /\ \A i \in DOMAIN messages : messages[i].type = "sse_close" =>
          /\ closing # Stream!NotClosed
          /\ \A j \in DOMAIN messages : j > i /\ IsFrame(j) => messages[j].frame > closing

EndQueued ==
    \A i \in DOMAIN messages : messages[i].type \in {"sse_done", "fatal", "error"} =>
        i = Len(messages) /\ thread \in {"over", "dead"}

EndedByMessage ==
    /\ timer \/ left => client = "gone"
    /\ streamEnded /\ client = "open" =>
          \/ closing # Stream!NotClosed /\ Len(written) >= closing
          \/ thread \in {"over", "dead"} /\ Len(written) = emitted

StreamInv ==
    /\ Stream!TypeOK
    /\ messages \in Seq(Message) /\ written \in Seq(1 .. MaxFrames)
    /\ \A k \in DOMAIN written : written[k] = k
    /\ FramesQueued /\ CloseQueued /\ EndQueued /\ EndedByMessage

LEMMA PostFacts ==
    ASSUME messages \in Seq(Message), NEW m \in Message, Stream!Post(m)
    PROVE  /\ Len(messages) \in Nat /\ messages' \in Seq(Message)
           /\ DOMAIN messages = 1 .. Len(messages)
           /\ DOMAIN messages' = 1 .. Len(messages) + 1
           /\ Len(messages') = Len(messages) + 1 /\ messages'[Len(messages) + 1] = m
           /\ \A i \in DOMAIN messages : messages'[i] = messages[i]
  BY AppendProperties, LenProperties DEF Stream!Post

LEMMA DeliverFacts ==
    ASSUME messages \in Seq(Message), messages # <<>>
    PROVE  /\ Len(messages) \in Nat /\ Tail(messages) \in Seq(Message)
           /\ DOMAIN messages = 1 .. Len(messages) /\ 1 \in DOMAIN messages
           /\ DOMAIN Tail(messages) = 1 .. Len(messages) - 1
           /\ Len(Tail(messages)) = Len(messages) - 1 /\ Head(messages) = messages[1]
           /\ \A i \in 1 .. Len(messages) - 1 : Tail(messages)[i] = messages[i + 1]
  BY HeadTailProperties, LenProperties, EmptySeq

\* A frame is emitted: it is the last of the queue.
LEMMA EmitStep == ASSUME StreamInv, Stream!Emit PROVE StreamInv'
  <1> DEFINE m == Stream!Frame(emitted + 1)
  <1>1. /\ thread = "running" /\ emitted < MaxFrames /\ emitted' = emitted + 1
        /\ Stream!Post(m)
        /\ UNCHANGED <<client, left, connected, streamEnded, timer, written, terminating,
                       request, thread, closing, seen>>
    BY DEF Stream!Emit, Stream!mainVars
  <1>2. /\ emitted \in 0 .. MaxFrames /\ Len(written) \in Nat /\ closing \in Int
        /\ messages \in Seq(Message) /\ closing <= emitted
    BY BoundsAssumption, LenProperties
       DEF StreamInv, Stream!TypeOK, Stream!NotClosed, CloseQueued
  <1>3. m \in Message /\ m.type = "frame" /\ m.frame = emitted + 1
    BY <1>1, <1>2, BoundsAssumption DEF Message, Stream!Frame
  <1> HIDE DEF m
  <1>4. /\ Len(messages) \in Nat /\ messages' \in Seq(Message)
        /\ DOMAIN messages = 1 .. Len(messages)
        /\ DOMAIN messages' = 1 .. Len(messages) + 1
        /\ Len(messages') = Len(messages) + 1 /\ messages'[Len(messages) + 1] = m
        /\ \A i \in DOMAIN messages : messages'[i] = messages[i]
    BY <1>1, <1>2, <1>3, PostFacts
  <1>5. /\ Stream!TypeOK'
        /\ (written \in Seq(1 .. MaxFrames) /\ \A k \in DOMAIN written : written[k] = k)'
    BY <1>1, <1>2, BoundsAssumption DEF StreamInv, Stream!TypeOK
  <1>6. FramesQueued'
    <2>1. \A i \in DOMAIN messages' : IsFrame(i)' => messages'[i].frame \in 1 .. emitted'
      BY <1>1, <1>2, <1>3, <1>4 DEF StreamInv, FramesQueued, IsFrame
    <2>2. ASSUME NEW i \in DOMAIN messages', NEW j \in DOMAIN messages', i < j,
                 IsFrame(i)', IsFrame(j)'
          PROVE  messages'[i].frame < messages'[j].frame
      <3>1. i \in DOMAIN messages /\ messages'[i] = messages[i] /\ IsFrame(i)
        BY <1>4, <2>2 DEF IsFrame
      <3>2. CASE j \in DOMAIN messages
        BY <1>4, <2>2, <3>1, <3>2 DEF StreamInv, FramesQueued, IsFrame
      <3>3. CASE j = Len(messages) + 1
        BY <1>2, <1>3, <1>4, <3>1, <3>3 DEF StreamInv, FramesQueued
      <3> QED
        BY <1>4, <3>2, <3>3
    <2>3. ASSUME ~streamEnded', NEW i \in DOMAIN messages', IsFrame(i)'
          PROVE  messages'[i].frame > Len(written')
      BY <1>1, <1>2, <1>3, <1>4, <2>3
         DEF StreamInv, FramesQueued, IsFrame, Stream!TypeOK
    <2>4. ASSUME ~streamEnded', NEW k \in Len(written') + 1 .. emitted'
          PROVE  \E i \in DOMAIN messages' : IsFrame(i)' /\ messages'[i].frame = k
      <3>1. CASE k = emitted + 1
        BY <1>3, <1>4, <3>1 DEF IsFrame
      <3>2. CASE k # emitted + 1
        <4>1. k \in Len(written) + 1 .. emitted
          BY <1>1, <1>2, <2>4, <3>2
        <4> QED
          BY <1>1, <1>4, <2>4, <4>1 DEF StreamInv, FramesQueued, IsFrame
      <3> QED
        BY <3>1, <3>2
    <2> QED
      BY <2>1, <2>2, <2>3, <2>4 DEF FramesQueued
  <1>7. CloseQueued'
    <2>1. ASSUME NEW i \in DOMAIN messages', messages'[i].type = "sse_close"
          PROVE  /\ closing' # Stream!NotClosed
                 /\ \A j \in DOMAIN messages' :
                       j > i /\ IsFrame(j)' => messages'[j].frame > closing'
      BY <1>1, <1>2, <1>3, <1>4, <2>1, SMTT(30) DEF StreamInv, CloseQueued, IsFrame
    <2> QED
      BY <1>1, <1>2, <2>1 DEF CloseQueued
  <1>8. EndQueued' /\ EndedByMessage'
    BY <1>1, <1>3, <1>4 DEF StreamInv, EndQueued, EndedByMessage
  <1> QED
    BY <1>4, <1>5, <1>6, <1>7, <1>8 DEF StreamInv

\* A signal of the worker, which ends it unless it closes the stream or is ready.
LEMMA SignalStep ==
    ASSUME StreamInv, NEW type \in {"ready", "sse_close", "sse_done", "fatal", "error"},
           Stream!Post(Stream!Signal(type)), Stream!TypeOK',
           UNCHANGED <<client, left, streamEnded, timer, written, emitted>>,
           thread \notin {"over", "dead"},
           type \in {"sse_done", "fatal", "error"} => thread' \in {"over", "dead"},
           IF type = "sse_close" THEN closing = Stream!NotClosed /\ closing' = emitted
                                 ELSE closing' = closing
    PROVE  StreamInv'
  <1> DEFINE m == Stream!Signal(type)
  <1>1. m \in Message /\ m.type = type /\ type # "frame"
    BY BoundsAssumption DEF Message, Stream!Signal
  <1>2. Stream!Post(m)
    OBVIOUS
  <1> HIDE DEF m
  <1>3. /\ Len(messages) \in Nat /\ messages' \in Seq(Message)
        /\ DOMAIN messages = 1 .. Len(messages)
        /\ DOMAIN messages' = 1 .. Len(messages) + 1
        /\ Len(messages') = Len(messages) + 1 /\ messages'[Len(messages) + 1] = m
        /\ \A i \in DOMAIN messages : messages'[i] = messages[i]
    BY <1>1, <1>2, PostFacts DEF StreamInv
  <1>4. \A i \in DOMAIN messages' : IsFrame(i)' =>
           i \in DOMAIN messages /\ IsFrame(i) /\ messages'[i] = messages[i]
    BY <1>1, <1>3 DEF IsFrame
  <1>5. FramesQueued'
    <2>1. \A i \in DOMAIN messages : IsFrame(i) => IsFrame(i)' /\ i \in DOMAIN messages'
      BY <1>3 DEF IsFrame
    <2> QED
      BY <1>3, <1>4, <2>1 DEF StreamInv, FramesQueued
  <1>6. emitted \in Nat
    BY DEF StreamInv, Stream!TypeOK
  <1>7. CloseQueued'
    <2>1. closing' <= emitted'
      BY <1>6 DEF StreamInv, CloseQueued
    <2>2. ASSUME NEW i \in DOMAIN messages', messages'[i].type = "sse_close"
          PROVE  closing' # Stream!NotClosed
      BY <1>1, <1>3, <1>6, <2>2 DEF StreamInv, CloseQueued, Stream!NotClosed
    <2>3. ASSUME NEW i \in DOMAIN messages', messages'[i].type = "sse_close",
                 NEW j \in DOMAIN messages', j > i, IsFrame(j)'
          PROVE  messages'[j].frame > closing'
      <3>1. i \in DOMAIN messages /\ j \in DOMAIN messages /\ IsFrame(j)
        BY <1>3, <1>4, <2>3
      <3>2. closing # Stream!NotClosed /\ messages[j].frame > closing
        BY <1>3, <2>3, <3>1 DEF StreamInv, CloseQueued
      <3>3. closing' = closing
        BY <3>2
      <3> QED
        BY <1>3, <3>1, <3>2, <3>3
    <2> QED
      BY <2>1, <2>2, <2>3 DEF CloseQueued
  <1>8. EndQueued'
    <2> SUFFICES ASSUME NEW i \in DOMAIN messages',
                        messages'[i].type \in {"sse_done", "fatal", "error"}
                 PROVE  i = Len(messages') /\ thread' \in {"over", "dead"}
      BY DEF EndQueued
    <2>1. i = Len(messages) + 1
      BY <1>3 DEF StreamInv, EndQueued
    <2> QED
      BY <1>1, <1>3, <2>1
  <1>9. EndedByMessage'
    BY DEF StreamInv, EndedByMessage
  <1> QED
    BY <1>3, <1>5, <1>7, <1>8, <1>9 DEF StreamInv

\* A step that neither posts nor delivers.
LEMMA QueueUnchanged ==
    ASSUME StreamInv, UNCHANGED <<messages, written, emitted, closing>>, Stream!TypeOK',
           streamEnded => streamEnded', EndedByMessage',
           thread \in {"over", "dead"} => thread' \in {"over", "dead"}
    PROVE  StreamInv'
  BY DEF StreamInv, FramesQueued, IsFrame, CloseQueued, EndQueued

LEMMA DeliverStep == ASSUME StreamInv, Stream!Deliver PROVE StreamInv'
  <1> DEFINE m == messages[1]
  <1>1. /\ messages # <<>> /\ messages' = Tail(messages)
        /\ UNCHANGED <<client, left, connected, timer, thread, emitted, closing, seen>>
    BY DEF Stream!Deliver, Stream!workerVars
  <1>2. /\ Len(messages) \in Nat /\ messages' \in Seq(Message)
        /\ DOMAIN messages = 1 .. Len(messages) /\ 1 \in DOMAIN messages
        /\ DOMAIN messages' = 1 .. Len(messages) - 1
        /\ Len(messages') = Len(messages) - 1 /\ Head(messages) = m
        /\ \A i \in DOMAIN messages' :
              i + 1 \in DOMAIN messages /\ messages'[i] = messages[i + 1]
    BY <1>1, DeliverFacts DEF StreamInv
  <1>3. m \in Message
    BY <1>2 DEF StreamInv
  <1>4. /\ emitted \in 0 .. MaxFrames /\ Len(written) \in Nat /\ closing \in Int
        /\ Len(written) <= emitted /\ closing <= emitted
    BY BoundsAssumption, LenProperties
       DEF StreamInv, Stream!TypeOK, Stream!NotClosed, CloseQueued
  <1>5. \/ /\ m.type = "ready" /\ request' = TRUE
           /\ UNCHANGED <<streamEnded, terminating, written>>
        \/ /\ m.type = "frame" /\ UNCHANGED <<request, streamEnded, terminating>>
           /\ streamEnded => written' = written
           /\ ~streamEnded => written' = Append(written, m.frame)
        \/ /\ m.type \in Stream!Ends /\ streamEnded' = TRUE /\ terminating' = TRUE
           /\ UNCHANGED <<request, written>>
    BY <1>2 DEF Stream!Deliver, Stream!EndStream, Stream!Write
  <1> HIDE DEF m
  \* What holds of the queue holds of the rest of it.
  <1>6. /\ \A i \in DOMAIN messages' : IsFrame(i)' <=> IsFrame(i + 1)
        /\ \A i \in DOMAIN messages' : IsFrame(i)' => messages'[i].frame \in 1 .. emitted
        /\ \A i, j \in DOMAIN messages' :
              i < j /\ IsFrame(i)' /\ IsFrame(j)' => messages'[i].frame < messages'[j].frame
    <2>1. \A i \in DOMAIN messages' : IsFrame(i)' <=> IsFrame(i + 1)
      BY <1>2 DEF IsFrame
    <2>2. \A i \in DOMAIN messages' : IsFrame(i)' => messages'[i].frame \in 1 .. emitted
      BY <1>2, <2>1 DEF StreamInv, FramesQueued
    <2>3. ASSUME NEW i \in DOMAIN messages', NEW j \in DOMAIN messages', i < j,
                 IsFrame(i)', IsFrame(j)'
          PROVE  messages'[i].frame < messages'[j].frame
      <3>1. /\ i + 1 \in DOMAIN messages /\ j + 1 \in DOMAIN messages /\ i + 1 < j + 1
            /\ IsFrame(i + 1) /\ IsFrame(j + 1)
        BY <1>2, <2>1, <2>3
      <3>2. messages[i + 1].frame < messages[j + 1].frame
        BY <3>1 DEF StreamInv, FramesQueued
      <3> QED
        BY <1>2, <3>2
    <2> QED
      BY <2>1, <2>2, <2>3
  <1>7. CloseQueued' /\ EndQueued'
    <2>1. CloseQueued'
      BY <1>1, <1>2, <1>6 DEF StreamInv, CloseQueued
    <2>2. EndQueued'
      BY <1>1, <1>2 DEF StreamInv, EndQueued
    <2> QED
      BY <2>1, <2>2
  <1>8. CASE m.type = "ready" \/ m.type \in Stream!Ends \/ streamEnded
    <2>1. written' = written /\ (streamEnded => streamEnded')
      BY <1>5, <1>8 DEF Stream!Ends
    <2>2. FramesQueued'
      <3>1. ASSUME ~streamEnded'
            PROVE  /\ \A i \in DOMAIN messages' : IsFrame(i)' => messages'[i].frame > Len(written)
                   /\ \A k \in Len(written) + 1 .. emitted :
                         \E i \in DOMAIN messages' : IsFrame(i)' /\ messages'[i].frame = k
        <4>1. ~streamEnded /\ ~IsFrame(1)
          BY <1>5, <1>8, <2>1, <3>1 DEF IsFrame, m
        <4>2. \A i \in DOMAIN messages : i # 1 => i - 1 \in DOMAIN messages'
                                         /\ messages'[i - 1] = messages[i]
          BY <1>2
        <4>3. ASSUME NEW k \in Len(written) + 1 .. emitted
              PROVE  \E i \in DOMAIN messages' : IsFrame(i)' /\ messages'[i].frame = k
          BY <4>1, <4>2, <1>6 DEF StreamInv, FramesQueued, IsFrame
        <4> QED
          BY <1>2, <1>6, <4>1, <4>3 DEF StreamInv, FramesQueued
      <3> QED
        BY <1>1, <1>6, <2>1, <3>1 DEF FramesQueued
    <2>3. Stream!TypeOK'
      BY <1>1, <1>5, <2>1 DEF StreamInv, Stream!TypeOK
    <2>4. EndedByMessage'
      <3>1. CASE streamEnded \/ m.type = "ready"
        <4>1. streamEnded' /\ client = "open" => streamEnded
          BY <1>5, <3>1 DEF Stream!Ends
        <4> QED
          BY <1>1, <2>1, <4>1 DEF StreamInv, EndedByMessage
      <3>2. CASE ~streamEnded /\ m.type = "sse_close"
        <4>1. /\ closing # Stream!NotClosed
              /\ \A j \in DOMAIN messages : IsFrame(j) => messages[j].frame > closing
          BY <1>2, <3>2 DEF StreamInv, CloseQueued, IsFrame, m
        <4>2. Len(written) >= closing
          <5>1. CASE Len(written) = emitted
            BY <1>4, <5>1
          <5>2. CASE Len(written) < emitted
            <6>1. PICK j \in DOMAIN messages :
                     IsFrame(j) /\ messages[j].frame = Len(written) + 1
              BY <1>4, <3>2, <5>2 DEF StreamInv, FramesQueued
            <6> QED
              BY <1>4, <4>1, <6>1
          <5> QED
            BY <1>4, <5>1, <5>2
        <4> QED
          BY <1>1, <2>1, <4>1, <4>2 DEF StreamInv, EndedByMessage
      <3>3. CASE ~streamEnded /\ m.type \in {"sse_done", "fatal", "error"}
        <4>1. Len(messages) = 1 /\ thread \in {"over", "dead"} /\ ~IsFrame(1)
          BY <1>2, <3>3 DEF StreamInv, EndQueued, IsFrame, m
        <4>2. Len(written) = emitted
          <5>1. \A j \in DOMAIN messages : ~IsFrame(j)
            BY <1>2, <4>1
          <5> QED
            BY <1>4, <3>3, <5>1 DEF StreamInv, FramesQueued
        <4> QED
          BY <1>1, <2>1, <4>1, <4>2 DEF StreamInv, EndedByMessage
      <3> QED
        BY <1>8, <3>1, <3>2, <3>3 DEF Stream!Ends
    <2> QED
      BY <1>2, <1>7, <2>1, <2>2, <2>3, <2>4 DEF StreamInv
  <1>9. CASE m.type = "frame" /\ ~streamEnded
    <2>1. written' = Append(written, m.frame) /\ UNCHANGED <<request, streamEnded, terminating>>
      BY <1>5, <1>9 DEF Stream!Ends
    <2>2. IsFrame(1) /\ m.frame \in 1 .. emitted /\ m.frame > Len(written)
      BY <1>2, <1>9 DEF StreamInv, FramesQueued, IsFrame, m
    <2>3. m.frame = Len(written) + 1
      <3>0. Len(written) + 1 \in Len(written) + 1 .. emitted
        BY <1>4, <2>2
      <3>1. PICK j \in DOMAIN messages : IsFrame(j) /\ messages[j].frame = Len(written) + 1
        BY <1>9, <3>0 DEF StreamInv, FramesQueued
      <3>2. j # 1 => m.frame < Len(written) + 1
        BY <1>2, <2>2, <3>1, SMTT(30) DEF StreamInv, FramesQueued, m
      <3> QED
        BY <1>4, <2>2, <3>1, <3>2 DEF m
    <2>4. /\ written' \in Seq(1 .. MaxFrames) /\ Len(written') = Len(written) + 1
          /\ DOMAIN written = 1 .. Len(written) /\ DOMAIN written' = 1 .. Len(written) + 1
          /\ \A k \in 1 .. Len(written) : written'[k] = written[k]
          /\ written'[Len(written) + 1] = m.frame
      <3>1. written \in Seq(1 .. MaxFrames) /\ m.frame \in 1 .. MaxFrames
        BY <1>4, <2>2, BoundsAssumption DEF StreamInv
      <3> QED
        BY <2>1, <3>1, AppendProperties, LenProperties
    <2>5. \A k \in DOMAIN written' : written'[k] = k
      BY <1>4, <2>3, <2>4 DEF StreamInv
    <2>6. FramesQueued'
      <3>1. ASSUME NEW i \in DOMAIN messages', IsFrame(i)'
            PROVE  messages'[i].frame > Len(written')
        <4>1. IsFrame(i + 1) /\ i + 1 \in DOMAIN messages /\ i + 1 > 1
          BY <1>2, <1>6, <3>1
        <4>2. messages[i + 1].frame > m.frame
          BY <1>2, <2>2, <4>1 DEF StreamInv, FramesQueued, m
        <4> QED
          BY <1>2, <2>3, <2>4, <4>2
      <3>2. ASSUME NEW k \in Len(written') + 1 .. emitted
            PROVE  \E i \in DOMAIN messages' : IsFrame(i)' /\ messages'[i].frame = k
        <4>1. PICK j \in DOMAIN messages : IsFrame(j) /\ messages[j].frame = k
          BY <1>4, <1>9, <2>4 DEF StreamInv, FramesQueued
        <4>2. j # 1 /\ j \in 1 .. Len(messages)
          BY <1>2, <1>4, <2>3, <2>4, <4>1 DEF m
        <4>3. j - 1 \in DOMAIN messages' /\ messages'[j - 1] = messages[j]
          BY <1>2, <4>2
        <4> QED
          BY <1>6, <4>1, <4>3 DEF IsFrame
      <3> QED
        BY <1>1, <1>6, <3>1, <3>2 DEF FramesQueued
    <2>7. Stream!TypeOK'
      BY <1>1, <1>4, <2>1, <2>2, <2>3, <2>4 DEF StreamInv, Stream!TypeOK
    <2>8. EndedByMessage'
      BY <1>1, <1>9, <2>1 DEF StreamInv, EndedByMessage
    <2> QED
      BY <1>2, <1>7, <2>4, <2>5, <2>6, <2>7, <2>8 DEF StreamInv
  <1> QED
    BY <1>5, <1>8, <1>9

LEMMA StreamInvStep == StreamInv /\ [Stream!Next]_streamVars => StreamInv'
  <1> SUFFICES ASSUME StreamInv, [Stream!Next]_streamVars PROVE StreamInv'
    OBVIOUS
  <1> USE DEF Stream!mainVars, Stream!workerVars
  <1>0. Stream!TypeOK /\ EndedByMessage
    BY DEF StreamInv
  <1>1. CASE Stream!Initialised
    <2>1. /\ thread = "starting" /\ Stream!TypeOK'
          /\ UNCHANGED <<client, left, streamEnded, timer, written, emitted, closing>>
          /\ \/ thread' = "idle" /\ Stream!Post(Stream!Signal("ready"))
             \/ thread' = "over" /\ Stream!Post(Stream!Signal("fatal"))
      BY <1>0, <1>1 DEF Stream!Initialised, Stream!TypeOK
    <2> QED
      BY <2>1, SignalStep
  <1>2. CASE Stream!Close
    <2>1. /\ thread = "running" /\ closing = Stream!NotClosed /\ closing' = emitted
          /\ Stream!TypeOK' /\ Stream!Post(Stream!Signal("sse_close"))
          /\ UNCHANGED <<client, left, streamEnded, timer, written, emitted>>
      BY <1>0, <1>2 DEF Stream!Close, Stream!TypeOK
    <2> QED
      BY <2>1, SignalStep
  <1>3. CASE Stream!EndHandler
    <2>1. /\ thread = "running" /\ thread' = "over" /\ Stream!TypeOK'
          /\ \E type \in {"sse_done", "fatal"} : Stream!Post(Stream!Signal(type))
          /\ UNCHANGED <<client, left, streamEnded, timer, written, emitted, closing>>
      BY <1>0, <1>3 DEF Stream!EndHandler, Stream!TypeOK
    <2> QED
      BY <2>1, SignalStep
  <1>4. CASE Stream!Die
    <2>1. /\ thread' = "dead" /\ Stream!TypeOK'
          /\ UNCHANGED <<client, left, streamEnded, timer, written, emitted, closing>>
          /\ IF terminating THEN UNCHANGED messages
             ELSE Stream!Post(Stream!Signal("error")) /\ thread \notin {"over", "dead"}
      BY <1>0, <1>4 DEF Stream!Die, Stream!TypeOK
    <2>2. EndedByMessage'
      BY <1>0, <2>1 DEF EndedByMessage
    <2> QED
      BY <2>1, <2>2, SignalStep, QueueUnchanged
  <1>5. CASE Stream!StartHandler \/ Stream!IsConnected
    <2>1. /\ UNCHANGED <<messages, written, emitted, closing, streamEnded, client, left, timer>>
          /\ thread \notin {"over", "dead"} /\ Stream!TypeOK'
      BY <1>0, <1>5 DEF Stream!StartHandler, Stream!IsConnected, Stream!TypeOK
    <2>2. EndedByMessage'
      BY <1>0, <2>1 DEF EndedByMessage
    <2> QED
      BY <2>1, <2>2, QueueUnchanged
  <1>6. CASE Stream!ClientLeft \/ Stream!ClientLeaves \/ Stream!EndAfterGrace
    <2>1. /\ UNCHANGED <<messages, written, emitted, closing, thread>>
          /\ Stream!TypeOK' /\ (streamEnded => streamEnded') /\ client' = "gone"
      BY <1>0, <1>6 DEF Stream!ClientLeft, Stream!ClientLeaves, Stream!EndAfterGrace,
         Stream!EndStream, Stream!ArmTimer, Stream!TypeOK, EndedByMessage
    <2>2. EndedByMessage'
      BY <2>1 DEF EndedByMessage
    <2> QED
      BY <2>1, <2>2, QueueUnchanged
  <1>7. CASE UNCHANGED streamVars
    BY <1>7 DEF streamVars, StreamInv, Stream!TypeOK, FramesQueued, IsFrame, CloseQueued,
       EndQueued, EndedByMessage
  <1> QED
    BY <1>1, <1>2, <1>3, <1>4, <1>5, <1>6, <1>7, EmitStep, DeliverStep
       DEF Stream!Next, Stream!Worker, Stream!Main

LEMMA StreamInvInit == Stream!Init => StreamInv
  <1> SUFFICES ASSUME Stream!Init PROVE StreamInv
    OBVIOUS
  <1>1. /\ messages \in Seq(Message) /\ written \in Seq(1 .. MaxFrames)
        /\ Len(messages) = 0 /\ Len(written) = 0
        /\ DOMAIN messages = {} /\ DOMAIN written = {}
    BY EmptySeq, LenProperties DEF Stream!Init
  <1>2. Stream!TypeOK
    <2>1. /\ emitted \in 0 .. MaxFrames /\ closing = Stream!NotClosed /\ Len(written) <= emitted
          /\ connected \in {0, 1} /\ seen \in {0, 1}
      BY <1>1, BoundsAssumption DEF Stream!Init
    <2>2. /\ left \in BOOLEAN /\ streamEnded \in BOOLEAN /\ timer \in BOOLEAN
          /\ request \in BOOLEAN /\ terminating = streamEnded
      BY Zenon DEF Stream!Init
    <2> QED
      BY <2>1, <2>2 DEF Stream!Init, Stream!TypeOK
  <1>3. FramesQueued /\ CloseQueued /\ EndQueued /\ EndedByMessage
    BY <1>1 DEF Stream!Init, Stream!NotClosed, FramesQueued, CloseQueued, EndQueued,
       EndedByMessage
  <1> QED
    BY <1>1, <1>2, <1>3 DEF StreamInv

LEMMA StreamInvComplete == StreamInv => Stream!InOrder /\ Stream!NothingLost
  <1> SUFFICES ASSUME StreamInv PROVE Stream!InOrder /\ Stream!NothingLost
    OBVIOUS
  <1> DEFINE sent == [k \in 1 .. emitted |-> k]
             n == Len(written)
  <1>1. /\ emitted \in Nat /\ n \in Nat /\ n <= emitted /\ closing <= emitted
        /\ written \in Seq(1 .. MaxFrames) /\ DOMAIN written = 1 .. n
        /\ \A k \in 1 .. n : written[k] = k
    BY LenProperties DEF StreamInv, Stream!TypeOK, CloseQueued
  <1>2. sent \in Seq(1 .. emitted) /\ Len(sent) = emitted
    BY <1>1
  <1>3. ASSUME NEW s, \A k \in 1 .. n : s[k] = k
        PROVE  /\ SubSeq(s, 1, n) \in Seq(Nat) /\ Len(SubSeq(s, 1, n)) = n
               /\ \A k \in 1 .. n : SubSeq(s, 1, n)[k] = k
    <2>1. \A k \in 1 .. n : s[k] \in Nat
      BY <1>1, <1>3
    <2>2. /\ SubSeq(s, 1, n) \in Seq(Nat)
          /\ Len(SubSeq(s, 1, n)) = IF 1 <= n THEN n - 1 + 1 ELSE 0
          /\ \A k \in 1 .. n - 1 + 1 : SubSeq(s, 1, n)[k] = s[1 + k - 1]
      BY <1>1, <2>1, SubSeqProperties
    <2>3. n - 1 + 1 = n /\ \A k \in 1 .. n : 1 + k - 1 = k
      BY <1>1
    <2> QED
      BY <1>1, <1>3, <2>2, <2>3
  <1>4. Stream!InOrder
    <2>1. \A k \in 1 .. n : sent[k] = k
      BY <1>1
    <2> HIDE DEF sent, n
    <2>2. SubSeq(written, 1, n) = SubSeq(sent, 1, n)
      BY <1>1, <1>3, <2>1, SeqEqual
    <2> QED
      BY <1>1, <1>2, <2>2 DEF Stream!InOrder, Stream!IsPrefix, sent, n
  <1>5. Stream!NothingLost
    BY <1>1 DEF StreamInv, EndedByMessage, Stream!NothingLost, Stream!TypeOK, Stream!NotClosed
  <1> QED
    BY <1>4, <1>5

\* Whatever ends an event stream, and however far its worker is ahead of the main
\* thread, the client reads the frames in order and without a gap; and a client that
\* stays reads all that the handler emitted before it closed the stream or returned.
THEOREM StreamsAreComplete == MCSpec => []FramesComplete
  <1>1. MCInit => StreamInv
    BY StreamInvInit DEF MCInit
  <1>2. StreamInv /\ [MCNext]_allVars => StreamInv'
    <2>1. [MCNext]_allVars => [Stream!Next]_streamVars
      BY DEF MCNext, allVars, PoolOnly, StreamOnly, WebsocketOnly
    <2> QED
      BY <2>1, StreamInvStep
  <1>3. StreamInv => FramesComplete
    BY StreamInvComplete DEF FramesComplete
  <1> QED
    BY <1>1, <1>2, <1>3, PTL DEF MCSpec

-----------------------------------------------------------------------------
(***************************************************************************)
(* The inductive invariant of the registry.  While no id is given out that *)
(* an old socket still has, an id stands for one live socket: every        *)
(* connection is that of the socket which has its id, and every open       *)
(* socket is connected; so what an id takes with it when its socket closes *)
(* is its own.                                                             *)
(***************************************************************************)
Closing(s) == handler = [event |-> "close", socket |-> s]
Live(s) == socket[s] \in {"open", "closing"} \/ Closing(s)

RegistryTypes ==
    /\ Websocket!TypeOK
    /\ clientId \in [Sockets -> Nat]
    /\ connections \in [DOMAIN connections -> Sockets]
    /\ rooms \in [DOMAIN rooms -> SUBSET Websocket!Ids]
    /\ joined \in [DOMAIN joined -> SUBSET Rooms]
    /\ \/ handler = Websocket!Idle \/ handler = [event |-> "job", socket |-> "none"]
       \/ \E s \in Sockets : handler \in [event : {"connect", "message", "close"}, socket : {s}]
    /\ \A s \in Sockets : Closing(s) => socket[s] = "closed"

ConnectionsOwn ==
    \A c \in DOMAIN connections :
        /\ clientId[connections[c]] = c /\ c <= counter
        /\ socket[connections[c]] = "open" \/ Closing(connections[c])

OpenConnected ==
    \A s \in Sockets : socket[s] = "open" =>
        clientId[s] \in DOMAIN connections /\ connections[clientId[s]] = s

LiveDistinct ==
    \A s, t \in Sockets : Live(s) /\ Live(t) /\ s # t => clientId[s] # clientId[t]

IdsStand == ConnectionsOwn /\ OpenConnected /\ LiveDistinct
WebsocketInv == RegistryTypes /\ (~reused => Websocket!TablesAgree /\ IdsStand)

\* A step that touches neither the registry nor the sockets.
LEMMA RegistryUnchanged ==
    ASSUME WebsocketInv, RegistryTypes', \A s \in Sockets : Closing(s)' <=> Closing(s),
           UNCHANGED <<socket, clientId, connections, rooms, joined, counter, reused>>
    PROVE  WebsocketInv'
  <1>1. Websocket!TablesAgree => Websocket!TablesAgree'
    BY DEF Websocket!TablesAgree
  <1>2. ASSUME IdsStand PROVE IdsStand'
    <2>1. \A s \in Sockets : Live(s)' <=> Live(s)
      BY DEF Live
    <2>2. ConnectionsOwn'
      BY <1>2 DEF IdsStand, ConnectionsOwn, WebsocketInv, RegistryTypes
    <2>3. OpenConnected' /\ LiveDistinct'
      BY <1>2, <2>1 DEF IdsStand, OpenConnected, LiveDistinct
    <2> QED
      BY <2>2, <2>3 DEF IdsStand
  <1> QED
    BY <1>1, <1>2 DEF WebsocketInv

\* A client is taken out of all three tables, and rooms it leaves empty may go.
LEMMA ClientForgotten ==
    ASSUME RegistryTypes, NEW c,
           connections' = Websocket!Without(connections, c),
           joined' = Websocket!Without(joined, c),
           \/ rooms' = Websocket!LeavesRooms(c)
           \/ rooms' = Websocket!NonEmpty(Websocket!LeavesRooms(c))
    PROVE  /\ DOMAIN connections' = DOMAIN connections \ {c}
           /\ \A d \in DOMAIN connections' : connections'[d] = connections[d]
           /\ DOMAIN rooms' \subseteq DOMAIN rooms
           /\ connections' \in [DOMAIN connections' -> Sockets]
           /\ rooms' \in [DOMAIN rooms' -> SUBSET Websocket!Ids]
           /\ joined' \in [DOMAIN joined' -> SUBSET Rooms]
           /\ Websocket!TablesAgree => Websocket!TablesAgree'
  <1> USE DEF Websocket!Without, Websocket!Restrict
  <1>1. /\ DOMAIN connections' = DOMAIN connections \ {c}
        /\ DOMAIN joined' = DOMAIN joined \ {c}
        /\ \A d \in DOMAIN connections' : connections'[d] = connections[d]
        /\ \A d \in DOMAIN joined' : joined'[d] = joined[d]
    OBVIOUS
  <1>2. /\ DOMAIN rooms' \subseteq DOMAIN rooms
        /\ \A r \in DOMAIN rooms' : rooms'[r] = rooms[r] \ {c}
        /\ \A r \in DOMAIN rooms \ DOMAIN rooms' : rooms[r] \ {c} = {}
    BY DEF Websocket!LeavesRooms, Websocket!NonEmpty
  <1>3. /\ connections' = [d \in DOMAIN connections' |-> connections'[d]]
        /\ joined' = [d \in DOMAIN joined' |-> joined'[d]]
        /\ rooms' = [r \in DOMAIN rooms' |-> rooms'[r]]
    BY DEF Websocket!LeavesRooms, Websocket!NonEmpty
  <1>4. /\ connections' \in [DOMAIN connections' -> Sockets]
        /\ joined' \in [DOMAIN joined' -> SUBSET Rooms]
    BY <1>1, <1>3 DEF RegistryTypes
  <1>5. rooms' \in [DOMAIN rooms' -> SUBSET Websocket!Ids]
    BY <1>2, <1>3 DEF RegistryTypes
  <1>6. ASSUME Websocket!TablesAgree PROVE Websocket!TablesAgree'
    <2>1. ASSUME NEW d \in DOMAIN joined'
          PROVE  joined'[d] = {r \in DOMAIN rooms' : d \in rooms'[r]}
      <3>1. d # c /\ joined'[d] = {r \in DOMAIN rooms : d \in rooms[r]}
        BY <1>1, <1>6, <2>1 DEF Websocket!TablesAgree
      <3> QED
        BY <1>2, <3>1
    <2>2. \A r \in DOMAIN rooms' : rooms'[r] \subseteq DOMAIN connections'
      BY <1>1, <1>2, <1>6 DEF Websocket!TablesAgree
    <2> QED
      BY <1>1, <1>6, <2>1, <2>2 DEF Websocket!TablesAgree
  <1> QED
    BY <1>1, <1>2, <1>4, <1>5, <1>6

\* A socket that has closed is forgotten, with the id that stands for it.
LEMMA ForgetStep ==
    ASSUME WebsocketInv, NEW s \in Sockets, Websocket!Evict(clientId[s]),
           UNCHANGED <<attached, routed, clientId, counter, reused>>,
           \/ handler = Websocket!Idle /\ Live(s) /\ UNCHANGED handler
              /\ socket' = [socket EXCEPT ![s] = "closed"]
           \/ Closing(s) /\ handler' = Websocket!Idle /\ UNCHANGED socket
    PROVE  WebsocketInv'
  <1>1. /\ DOMAIN connections' = DOMAIN connections \ {clientId[s]}
        /\ \A d \in DOMAIN connections' : connections'[d] = connections[d]
        /\ DOMAIN rooms' \subseteq DOMAIN rooms
        /\ connections' \in [DOMAIN connections' -> Sockets]
        /\ rooms' \in [DOMAIN rooms' -> SUBSET Websocket!Ids]
        /\ joined' \in [DOMAIN joined' -> SUBSET Rooms]
        /\ Websocket!TablesAgree => Websocket!TablesAgree'
    BY ClientForgotten DEF WebsocketInv, Websocket!Evict
  <1>2. /\ handler' = Websocket!Idle /\ Live(s) /\ \A t \in Sockets : ~Closing(t)'
        /\ \A t \in Sockets : Closing(t) => t = s
        /\ socket' \in [Sockets -> {"new", "open", "closing", "closed"}]
        /\ socket'[s] = "closed" /\ \A t \in Sockets : t # s => socket'[t] = socket[t]
    BY DEF WebsocketInv, RegistryTypes, Websocket!TypeOK, Websocket!Idle, Closing, Live
  <1>3. RegistryTypes'
    <2>1. Websocket!TypeOK'
      <3>1. \A r \in DOMAIN rooms' : rooms'[r] \subseteq Websocket!Ids
        BY <1>1
      <3> QED
        BY <1>1, <1>2, <3>1 DEF WebsocketInv, RegistryTypes, Websocket!TypeOK
    <2> QED
      BY <1>1, <1>2, <2>1 DEF WebsocketInv, RegistryTypes
  <1>4. ASSUME ~reused PROVE IdsStand'
    <2>1. IdsStand
      BY <1>4 DEF WebsocketInv
    <2>2. \A t \in Sockets : Live(t)' => Live(t) /\ t # s /\ clientId[t] # clientId[s]
      BY <1>2, <2>1 DEF IdsStand, LiveDistinct, Live
    <2>3. ConnectionsOwn'
      <3>1. ASSUME NEW d \in DOMAIN connections'
            PROVE  /\ clientId[connections'[d]] = d /\ d <= counter
                   /\ socket'[connections'[d]] = "open"
        <4>1. /\ d \in DOMAIN connections /\ d # clientId[s] /\ connections'[d] = connections[d]
              /\ connections[d] \in Sockets /\ clientId[connections[d]] = d /\ d <= counter
              /\ socket[connections[d]] = "open" \/ Closing(connections[d])
          BY <1>1, <2>1 DEF IdsStand, ConnectionsOwn
        <4> QED
          BY <1>2, <4>1
      <3> QED
        BY <3>1 DEF ConnectionsOwn
    <2>4. OpenConnected'
      BY <1>1, <1>2, <2>1, <2>2 DEF IdsStand, OpenConnected, Live
    <2>5. LiveDistinct'
      BY <2>1, <2>2 DEF IdsStand, LiveDistinct
    <2> QED
      BY <2>3, <2>4, <2>5 DEF IdsStand
  <1> QED
    BY <1>1, <1>3, <1>4 DEF WebsocketInv

\* A room or a membership changes, and no socket.
LEMMA MembersChange ==
    ASSUME WebsocketInv,
           UNCHANGED <<attached, routed, socket, clientId, connections, counter, handler, reused>>,
           rooms' \in [DOMAIN rooms' -> SUBSET Websocket!Ids], DOMAIN rooms' \subseteq Rooms,
           joined' \in [DOMAIN joined' -> SUBSET Rooms],
           Websocket!TablesAgree => Websocket!TablesAgree'
    PROVE  WebsocketInv'
  <1>1. Websocket!TypeOK'
    BY DEF WebsocketInv, RegistryTypes, Websocket!TypeOK
  <1>2. RegistryTypes'
    BY <1>1 DEF WebsocketInv, RegistryTypes, Closing
  <1>3. ASSUME IdsStand PROVE IdsStand'
    BY <1>3 DEF IdsStand, ConnectionsOwn, OpenConnected, LiveDistinct, Live, Closing
  <1> QED
    BY <1>2, <1>3 DEF WebsocketInv

LEMMA JoinStep ==
    ASSUME WebsocketInv, NEW c \in Websocket!Ids, NEW r \in Rooms,
           Websocket!_ws_room_join(c, r)
    PROVE  WebsocketInv'
  <1> DEFINE members == (IF r \in DOMAIN rooms THEN rooms[r] ELSE {}) \cup {c}
  <1>1. /\ c \in DOMAIN connections
        /\ rooms' = [q \in DOMAIN rooms \cup {r} |-> IF q = r THEN members ELSE rooms[q]]
        /\ joined' = [d \in DOMAIN joined |->
                         IF d = c THEN joined[d] \cup {r} ELSE joined[d]]
        /\ UNCHANGED <<attached, routed, socket, clientId, connections, counter, handler,
                       reused>>
    BY DEF Websocket!_ws_room_join, Websocket!With, Websocket!MayJoin
  <1>2. RegistryTypes /\ DOMAIN rooms \subseteq Rooms
    BY DEF WebsocketInv, RegistryTypes, Websocket!TypeOK
  <1>3. members \subseteq Websocket!Ids
    BY <1>2 DEF RegistryTypes
  <1>4. /\ rooms' \in [DOMAIN rooms' -> SUBSET Websocket!Ids]
        /\ DOMAIN rooms' \subseteq Rooms
    BY <1>1, <1>2, <1>3 DEF RegistryTypes
  <1>5. joined' \in [DOMAIN joined' -> SUBSET Rooms]
    BY <1>1, <1>2 DEF RegistryTypes
  <1>6. ASSUME Websocket!TablesAgree PROVE Websocket!TablesAgree'
    <2>1. ASSUME NEW d \in DOMAIN joined'
          PROVE  joined'[d] = {q \in DOMAIN rooms' : d \in rooms'[q]}
      <3>1. joined[d] = {q \in DOMAIN rooms : d \in rooms[q]}
        BY <1>1, <1>6 DEF Websocket!TablesAgree
      <3>2. CASE d = c
        BY <1>1, <3>1, <3>2
      <3>3. CASE d # c
        BY <1>1, <3>1, <3>3
      <3> QED
        BY <3>2, <3>3
    <2>2. \A q \in DOMAIN rooms' : rooms'[q] \subseteq DOMAIN connections'
      BY <1>1, <1>6 DEF Websocket!TablesAgree
    <2> QED
      BY <1>1, <1>6, <2>1, <2>2 DEF Websocket!TablesAgree
  <1> QED
    BY <1>1, <1>4, <1>5, <1>6, MembersChange

LEMMA LeaveStep ==
    ASSUME WebsocketInv, NEW c \in Websocket!Ids, NEW r \in Rooms,
           Websocket!_ws_room_leave(c, r)
    PROVE  WebsocketInv'
  <1>1. /\ r \in DOMAIN rooms
        /\ rooms' = IF rooms[r] = {c} \/ rooms[r] = {} THEN Websocket!Without(rooms, r)
                    ELSE [rooms EXCEPT ![r] = @ \ {c}]
        /\ joined' = [d \in DOMAIN joined |->
                         IF d = c THEN joined[d] \ {r} ELSE joined[d]]
        /\ UNCHANGED <<attached, routed, socket, clientId, connections, counter, handler,
                       reused>>
    BY DEF Websocket!_ws_room_leave
  <1>2. RegistryTypes /\ DOMAIN rooms \subseteq Rooms
    BY DEF WebsocketInv, RegistryTypes, Websocket!TypeOK
  <1>3. /\ DOMAIN rooms \ {r} \subseteq DOMAIN rooms' /\ DOMAIN rooms' \subseteq DOMAIN rooms
        /\ \A q \in DOMAIN rooms' : rooms'[q] = IF q = r THEN rooms[q] \ {c} ELSE rooms[q]
        /\ r \notin DOMAIN rooms' => rooms[r] \subseteq {c}
        /\ rooms' = [q \in DOMAIN rooms' |-> rooms'[q]]
    <2>1. CASE rooms[r] = {c} \/ rooms[r] = {}
      BY <1>1, <2>1 DEF Websocket!Without, Websocket!Restrict
    <2>2. CASE ~(rooms[r] = {c} \/ rooms[r] = {})
      <3>1. rooms' = [rooms EXCEPT ![r] = @ \ {c}] /\ rooms = [q \in DOMAIN rooms |-> rooms[q]]
        BY <1>1, <1>2, <2>2 DEF RegistryTypes
      <3> QED
        BY <1>1, <3>1
    <2> QED
      BY <2>1, <2>2
  <1>4. /\ rooms' \in [DOMAIN rooms' -> SUBSET Websocket!Ids]
        /\ DOMAIN rooms' \subseteq Rooms
    BY <1>2, <1>3 DEF RegistryTypes
  <1>5. joined' \in [DOMAIN joined' -> SUBSET Rooms]
    BY <1>1, <1>2 DEF RegistryTypes
  <1>6. ASSUME Websocket!TablesAgree PROVE Websocket!TablesAgree'
    <2>1. ASSUME NEW d \in DOMAIN joined'
          PROVE  joined'[d] = {q \in DOMAIN rooms' : d \in rooms'[q]}
      <3>1. joined[d] = {q \in DOMAIN rooms : d \in rooms[q]}
        BY <1>1, <1>6 DEF Websocket!TablesAgree
      <3>2. CASE d = c
        BY <1>1, <1>3, <3>1, <3>2
      <3>3. CASE d # c
        BY <1>1, <1>3, <3>1, <3>3
      <3> QED
        BY <3>2, <3>3
    <2>2. \A q \in DOMAIN rooms' : rooms'[q] \subseteq DOMAIN connections'
      BY <1>1, <1>3, <1>6 DEF Websocket!TablesAgree
    <2> QED
      BY <1>1, <1>6, <2>1, <2>2 DEF Websocket!TablesAgree
  <1> QED
    BY <1>1, <1>4, <1>5, <1>6, MembersChange

LEMMA UpgradeStep ==
    ASSUME WebsocketInv, NEW s \in Sockets, Websocket!upgradeHandler(s) PROVE WebsocketInv'
  <1> DEFINE id == counter + 1
  <1>1. /\ handler = Websocket!Idle /\ counter < MaxClients /\ socket[s] = "new"
        /\ counter' = id /\ socket' = [socket EXCEPT ![s] = "open"]
        /\ clientId' = [clientId EXCEPT ![s] = id]
        /\ connections' = [d \in DOMAIN connections \cup {id} |->
                              IF d = id THEN s ELSE connections[d]]
        /\ joined' = [d \in DOMAIN joined \cup {id} |-> IF d = id THEN {} ELSE joined[d]]
        /\ handler' = [event |-> "connect", socket |-> s]
        /\ ~reused' => ~reused /\ ~ \E t \in Sockets :
                          socket[t] \in {"open", "closing"} /\ clientId[t] = id
        /\ UNCHANGED <<attached, routed, rooms>>
    BY DEF Websocket!upgradeHandler, Websocket!With
  <1>2. RegistryTypes /\ counter \in 0 .. MaxClients /\ id \in Websocket!Ids /\ id \in Nat
    BY <1>1, BoundsAssumption
       DEF WebsocketInv, RegistryTypes, Websocket!TypeOK, Websocket!Ids
  <1>3. /\ \A t \in Sockets : socket'[t] = IF t = s THEN "open" ELSE socket[t]
        /\ \A t \in Sockets : clientId'[t] = IF t = s THEN id ELSE clientId[t]
        /\ clientId' \in [Sockets -> Nat]
        /\ socket' \in [Sockets -> {"new", "open", "closing", "closed"}]
    BY <1>1, <1>2 DEF RegistryTypes, Websocket!TypeOK
  <1>4. \A t \in Sockets : ~Closing(t) /\ ~Closing(t)'
    BY <1>1 DEF Closing, Websocket!Idle
  <1>5. RegistryTypes'
    <2>1. Websocket!TypeOK'
      BY <1>1, <1>2, <1>3 DEF RegistryTypes, Websocket!TypeOK, Websocket!Ids
    <2>2. connections' \in [DOMAIN connections' -> Sockets]
      BY <1>1, <1>2 DEF RegistryTypes
    <2>3. joined' \in [DOMAIN joined' -> SUBSET Rooms]
      BY <1>1, <1>2 DEF RegistryTypes
    <2>4. handler' \in [event : {"connect", "message", "close"}, socket : {s}]
      BY <1>1
    <2> QED
      BY <1>1, <1>2, <1>3, <1>4, <2>1, <2>2, <2>3, <2>4 DEF RegistryTypes
  <1>6. ASSUME ~reused' PROVE Websocket!TablesAgree' /\ IdsStand'
    <2>1. Websocket!TablesAgree /\ IdsStand
      BY <1>1, <1>6 DEF WebsocketInv
    <2>2. id \notin DOMAIN connections
      BY <1>2, <2>1 DEF IdsStand, ConnectionsOwn
    <2>3. \A t \in Sockets : t # s /\ Live(t)' => Live(t) /\ clientId[t] # id
      BY <1>1, <1>3, <1>4, <1>6 DEF Live
    <2>4. Websocket!TablesAgree'
      <3>1. \A d \in DOMAIN joined' : joined'[d] = {r \in DOMAIN rooms : d \in rooms[r]}
        BY <1>1, <2>1, <2>2 DEF Websocket!TablesAgree
      <3> QED
        BY <1>1, <2>1, <3>1 DEF Websocket!TablesAgree
    <2>5. ConnectionsOwn'
      <3>1. ASSUME NEW d \in DOMAIN connections'
            PROVE  /\ clientId'[connections'[d]] = d /\ d <= counter'
                   /\ socket'[connections'[d]] = "open"
        <4>1. CASE d = id
          BY <1>1, <1>2, <1>3, <4>1
        <4>2. CASE d # id
          <5>1. /\ d \in DOMAIN connections /\ connections'[d] = connections[d]
                /\ connections[d] \in Sockets /\ clientId[connections[d]] = d
                /\ d <= counter /\ d \in Nat /\ socket[connections[d]] = "open"
            BY <1>1, <1>2, <1>4, <2>1, <4>2
               DEF IdsStand, ConnectionsOwn, RegistryTypes, Websocket!TypeOK, Websocket!Ids
          <5>2. connections[d] # s /\ d <= id
            BY <1>1, <1>2, <5>1
          <5> QED
            BY <1>1, <1>3, <5>1, <5>2
        <4> QED
          BY <4>1, <4>2
      <3> QED
        BY <3>1 DEF ConnectionsOwn
    <2>6. OpenConnected'
      <3>1. ASSUME NEW t \in Sockets, socket'[t] = "open"
            PROVE  clientId'[t] \in DOMAIN connections' /\ connections'[clientId'[t]] = t
        <4>1. CASE t = s
          BY <1>1, <1>3, <4>1
        <4>2. CASE t # s
          <5>1. /\ clientId[t] \in DOMAIN connections /\ connections[clientId[t]] = t
                /\ clientId'[t] = clientId[t]
            BY <1>3, <2>1, <3>1, <4>2 DEF IdsStand, OpenConnected
          <5> QED
            BY <1>1, <2>2, <5>1
        <4> QED
          BY <4>1, <4>2
      <3> QED
        BY <3>1 DEF OpenConnected
    <2>7. LiveDistinct'
      <3>1. ASSUME NEW t \in Sockets, NEW u \in Sockets, Live(t)', Live(u)', t # u
            PROVE  clientId'[t] # clientId'[u]
        <4>1. CASE t = s
          BY <1>3, <2>3, <3>1, <4>1
        <4>2. CASE u = s
          BY <1>3, <2>3, <3>1, <4>2
        <4>3. CASE t # s /\ u # s
          BY <1>3, <2>1, <2>3, <3>1, <4>3 DEF IdsStand, LiveDistinct
        <4> QED
          BY <4>1, <4>2, <4>3
      <3> QED
        BY <3>1 DEF LiveDistinct
    <2> QED
      BY <2>4, <2>5, <2>6, <2>7 DEF IdsStand
  <1> QED
    BY <1>5, <1>6 DEF WebsocketInv

\* _ws_close() takes the client out at once; its socket closes later.
LEMMA CloseStep ==
    ASSUME WebsocketInv, NEW c \in Websocket!Ids, Websocket!_ws_close(c) PROVE WebsocketInv'
  <1> DEFINE s == connections[c]
  <1>1. /\ c \in DOMAIN connections
        /\ socket' = [socket EXCEPT ![s] = IF @ = "open" THEN "closing" ELSE @]
        /\ connections' = Websocket!Without(connections, c)
        /\ joined' = Websocket!Without(joined, c)
        /\ rooms' = Websocket!NonEmpty(Websocket!LeavesRooms(c))
        /\ UNCHANGED <<attached, routed, clientId, counter, handler, reused>>
    BY DEF Websocket!_ws_close
  <1>2. RegistryTypes /\ s \in Sockets
    BY <1>1 DEF WebsocketInv, RegistryTypes
  <1>3. /\ \A t \in Sockets : socket'[t] = IF t = s /\ socket[t] = "open" THEN "closing"
                                           ELSE socket[t]
        /\ socket' \in [Sockets -> {"new", "open", "closing", "closed"}]
    BY <1>1, <1>2 DEF RegistryTypes, Websocket!TypeOK
  <1>4. /\ DOMAIN connections' = DOMAIN connections \ {c}
        /\ \A d \in DOMAIN connections' : connections'[d] = connections[d]
        /\ DOMAIN rooms' \subseteq DOMAIN rooms
        /\ connections' \in [DOMAIN connections' -> Sockets]
        /\ rooms' \in [DOMAIN rooms' -> SUBSET Websocket!Ids]
        /\ joined' \in [DOMAIN joined' -> SUBSET Rooms]
        /\ Websocket!TablesAgree => Websocket!TablesAgree'
    BY <1>1, <1>2, ClientForgotten
  <1>5. RegistryTypes'
    <2>1. Websocket!TypeOK'
      <3>1. \A r \in DOMAIN rooms' : rooms'[r] \subseteq Websocket!Ids
        BY <1>4
      <3> QED
        BY <1>1, <1>2, <1>3, <1>4, <3>1 DEF RegistryTypes, Websocket!TypeOK
    <2> QED
      BY <1>1, <1>2, <1>3, <1>4, <2>1 DEF RegistryTypes, Closing
  <1>6. ASSUME ~reused PROVE IdsStand'
    <2>1. IdsStand
      BY <1>6 DEF WebsocketInv
    <2>2. \A t \in Sockets : (Live(t)' <=> Live(t)) /\ (Closing(t)' <=> Closing(t))
      BY <1>1, <1>3 DEF Live, Closing
    <2>3. ConnectionsOwn'
      <3>1. ASSUME NEW d \in DOMAIN connections'
            PROVE  /\ clientId[connections'[d]] = d /\ d <= counter
                   /\ socket'[connections'[d]] = "open" \/ Closing(connections[d])
        <4>1. /\ d \in DOMAIN connections /\ d # c /\ connections'[d] = connections[d]
              /\ connections[d] \in Sockets /\ clientId[connections[d]] = d /\ d <= counter
              /\ socket[connections[d]] = "open" \/ Closing(connections[d])
              /\ clientId[s] = c
          BY <1>1, <1>2, <1>4, <2>1 DEF IdsStand, ConnectionsOwn, RegistryTypes
        <4> QED
          BY <1>3, <4>1
      <3>2. \A d \in DOMAIN connections' : Closing(connections[d]) => Closing(connections[d])'
        BY <1>1, <1>4 DEF Closing
      <3> QED
        BY <1>1, <1>4, <3>1, <3>2 DEF ConnectionsOwn
    <2>4. OpenConnected'
      BY <1>1, <1>3, <1>4, <2>1 DEF IdsStand, OpenConnected
    <2>5. LiveDistinct'
      BY <1>1, <2>1, <2>2 DEF IdsStand, LiveDistinct
    <2> QED
      BY <2>3, <2>4, <2>5 DEF IdsStand
  <1> QED
    BY <1>1, <1>4, <1>5, <1>6 DEF WebsocketInv

\* The registry is emptied; as every open socket is in it, every one is closing.
LEMMA StopStep == ASSUME WebsocketInv, Websocket!stopWebsocketServer PROVE WebsocketInv'
  <1>1. /\ handler = Websocket!Idle /\ attached' \in {attached, "off"} /\ routed' = FALSE
        /\ socket' = [s \in Sockets |->
              IF socket[s] = "open" /\ s \in {connections[c] : c \in DOMAIN connections}
              THEN "closing" ELSE socket[s]]
        /\ connections' = Websocket!NoFunction /\ rooms' = Websocket!NoFunction
        /\ joined' = Websocket!NoFunction /\ counter' = 0
        /\ UNCHANGED <<clientId, handler, reused>>
    BY DEF Websocket!stopWebsocketServer
  <1>2. RegistryTypes
    BY DEF WebsocketInv
  <1>3. \A t \in Sockets : ~Closing(t) /\ ~Closing(t)'
    BY <1>1 DEF Closing, Websocket!Idle
  <1>4. DOMAIN connections' = {} /\ DOMAIN rooms' = {} /\ DOMAIN joined' = {}
    BY <1>1 DEF Websocket!NoFunction
  <1>5. /\ connections' \in [DOMAIN connections' -> Sockets]
        /\ rooms' \in [DOMAIN rooms' -> SUBSET Websocket!Ids]
        /\ joined' \in [DOMAIN joined' -> SUBSET Rooms]
    BY <1>1 DEF Websocket!NoFunction
  <1>6. Websocket!TypeOK'
    <2>1. attached' \in {"off", "importing", "on"} /\ routed' \in BOOLEAN
      BY <1>1, <1>2 DEF RegistryTypes, Websocket!TypeOK
    <2>2. socket' \in [Sockets -> {"new", "open", "closing", "closed"}]
      BY <1>1, <1>2 DEF RegistryTypes, Websocket!TypeOK
    <2>3. counter' \in 0 .. MaxClients
      BY <1>1, BoundsAssumption
    <2> QED
      BY <1>4, <2>1, <2>2, <2>3 DEF Websocket!TypeOK
  <1>7. RegistryTypes'
    BY <1>1, <1>2, <1>3, <1>5, <1>6 DEF RegistryTypes
  <1>8. ASSUME ~reused PROVE Websocket!TablesAgree' /\ IdsStand'
    <2>1. IdsStand
      BY <1>8 DEF WebsocketInv
    <2>2. \A t \in Sockets : socket'[t] # "open" /\ (Live(t)' => Live(t))
      BY <1>1, <1>3, <2>1 DEF IdsStand, OpenConnected, Live
    <2>3. ConnectionsOwn' /\ OpenConnected'
      BY <1>4, <2>2 DEF ConnectionsOwn, OpenConnected
    <2>4. LiveDistinct'
      BY <1>1, <2>1, <2>2 DEF IdsStand, LiveDistinct
    <2> QED
      BY <1>4, <2>3, <2>4 DEF IdsStand, Websocket!TablesAgree
  <1> QED
    BY <1>1, <1>7, <1>8 DEF WebsocketInv

LEMMA WebsocketInvStep == WebsocketInv /\ [Websocket!Next]_websocketVars => WebsocketInv'
  <1> SUFFICES ASSUME WebsocketInv, [Websocket!Next]_websocketVars PROVE WebsocketInv'
    OBVIOUS
  <1> USE DEF Websocket!registry, Websocket!bounds
  <1>0. RegistryTypes /\ Websocket!TypeOK
    BY DEF WebsocketInv, RegistryTypes
  <1>1. CASE Websocket!_http_ws_route \/ Websocket!attachWebsocketServer \/ Websocket!Imported
    <2>1. /\ UNCHANGED <<socket, clientId, connections, rooms, joined, counter, reused, handler>>
          /\ attached' \in {"off", "importing", "on"} /\ routed' \in BOOLEAN
      BY <1>0, <1>1 DEF Websocket!_http_ws_route, Websocket!attachWebsocketServer,
         Websocket!Imported, Websocket!TypeOK
    <2>2. \A s \in Sockets : Closing(s)' <=> Closing(s)
      BY <2>1 DEF Closing
    <2>3. RegistryTypes'
      BY <1>0, <2>1, <2>2 DEF RegistryTypes, Websocket!TypeOK
    <2> QED
      BY <2>1, <2>2, <2>3, RegistryUnchanged
  \* Another handler begins or ends, which is not that of a close.
  <1>2. ASSUME handler.event # "close", handler'.event # "close",
               \/ handler' = Websocket!Idle \/ handler' = [event |-> "job", socket |-> "none"]
               \/ \E s \in Sockets : handler' = [event |-> "message", socket |-> s],
               UNCHANGED <<attached, routed, socket, clientId, connections, rooms, joined,
                           counter, reused>>
        PROVE  WebsocketInv'
    <2>1. \A s \in Sockets : ~Closing(s)' /\ ~Closing(s)
      BY <1>2 DEF Closing
    <2>2. RegistryTypes'
      BY <1>0, <1>2, <2>1 DEF RegistryTypes, Websocket!TypeOK
    <2> QED
      BY <1>2, <2>1, <2>2, RegistryUnchanged
  <1>3. CASE Websocket!JobRuns
    BY <1>2, <1>3 DEF Websocket!JobRuns, Websocket!Idle
  <1>4. ASSUME NEW s \in Sockets, Websocket!OnMessage(s) PROVE WebsocketInv'
    BY <1>2, <1>4 DEF Websocket!OnMessage, Websocket!Idle
  <1>5. CASE Websocket!callWasmHandlerEnds
    <2>1. CASE handler.event = "close"
      <3>1. PICK s \in Sockets : handler \in [event : {"connect", "message", "close"}, socket : {s}]
        BY <1>0, <2>1 DEF RegistryTypes, Websocket!Idle
      <3>2. Closing(s) /\ handler.socket = s
        BY <2>1, <3>1 DEF Closing
      <3> QED
        BY <1>5, <2>1, <3>2, ForgetStep DEF Websocket!callWasmHandlerEnds
    <2>2. CASE handler.event # "close"
      BY <1>2, <1>5, <2>2 DEF Websocket!callWasmHandlerEnds, Websocket!Idle
    <2> QED
      BY <2>1, <2>2
  <1>6. ASSUME NEW s \in Sockets, Websocket!OnClose(s) PROVE WebsocketInv'
    <2>1. /\ handler = Websocket!Idle /\ socket[s] \in {"open", "closing"}
          /\ socket' = [socket EXCEPT ![s] = "closed"]
          /\ UNCHANGED <<attached, routed, clientId, counter, reused>>
      BY <1>6 DEF Websocket!OnClose
    <2>2. CASE attached # "on"
      BY <1>6, <2>1, <2>2, ForgetStep DEF Websocket!OnClose, Live
    <2>3. CASE attached = "on"
      <3>1. /\ handler' = [event |-> "close", socket |-> s]
            /\ UNCHANGED <<connections, rooms, joined>>
        BY <1>6, <2>3 DEF Websocket!OnClose
      <3>2. /\ Closing(s)' /\ \A t \in Sockets : ~Closing(t) /\ (Closing(t)' => t = s)
            /\ socket' \in [Sockets -> {"new", "open", "closing", "closed"}]
            /\ socket'[s] = "closed" /\ \A t \in Sockets : t # s => socket'[t] = socket[t]
        BY <1>0, <2>1, <3>1 DEF Closing, Websocket!Idle, Websocket!TypeOK
      <3>3. Websocket!TypeOK'
        BY <1>0, <2>1, <3>1, <3>2 DEF Websocket!TypeOK
      <3>4. RegistryTypes'
        <4>1. handler' \in [event : {"connect", "message", "close"}, socket : {s}]
          BY <3>1
        <4> QED
          BY <1>0, <2>1, <3>1, <3>2, <3>3, <4>1 DEF RegistryTypes
      <3>5. ASSUME ~reused PROVE Websocket!TablesAgree' /\ IdsStand'
        <4>1. Websocket!TablesAgree /\ IdsStand
          BY <3>5 DEF WebsocketInv
        <4>2. \A t \in Sockets : Live(t)' => Live(t)
          BY <2>1, <3>2 DEF Live
        <4>3. ConnectionsOwn'
          <5>1. ASSUME NEW d \in DOMAIN connections
                PROVE  /\ clientId[connections[d]] = d /\ d <= counter
                       /\ socket'[connections[d]] = "open" \/ connections[d] = s
            BY <1>0, <3>2, <4>1 DEF IdsStand, ConnectionsOwn, RegistryTypes
          <5>2. \A d \in DOMAIN connections : connections[d] = s => Closing(connections[d])'
            BY <3>1 DEF Closing
          <5> QED
            BY <2>1, <3>1, <5>1, <5>2 DEF ConnectionsOwn
        <4>4. OpenConnected' /\ LiveDistinct'
          BY <2>1, <3>1, <3>2, <4>1, <4>2 DEF IdsStand, OpenConnected, LiveDistinct
        <4> QED
          BY <3>1, <4>1, <4>3, <4>4 DEF IdsStand, Websocket!TablesAgree
      <3> QED
        BY <2>1, <3>4, <3>5 DEF WebsocketInv
    <2> QED
      BY <2>2, <2>3
  <1>7. CASE UNCHANGED websocketVars
    BY <1>7, <1>0, RegistryUnchanged DEF websocketVars, RegistryTypes, Websocket!TypeOK, Closing
  <1> QED
    BY <1>1, <1>3, <1>4, <1>5, <1>6, <1>7, UpgradeStep, CloseStep, JoinStep, LeaveStep,
       StopStep DEF Websocket!Next

LEMMA WebsocketInvInit == Websocket!Init => WebsocketInv
  <1> SUFFICES ASSUME Websocket!Init PROVE WebsocketInv
    OBVIOUS
  <1>1. DOMAIN connections = {} /\ DOMAIN rooms = {} /\ DOMAIN joined = {}
    BY DEF Websocket!Init, Websocket!NoFunction
  <1>2. \A s \in Sockets : socket[s] = "new" /\ ~Closing(s)
    BY DEF Websocket!Init, Websocket!Idle, Closing
  <1>3. Websocket!TypeOK
    <2>1. counter \in 0 .. MaxClients
      BY BoundsAssumption DEF Websocket!Init
    <2>2. attached = "off" /\ routed \in BOOLEAN
      BY Zenon DEF Websocket!Init
    <2> QED
      BY <1>1, <2>1, <2>2 DEF Websocket!Init, Websocket!TypeOK
  <1>4. RegistryTypes
    BY <1>1, <1>2, <1>3 DEF Websocket!Init, Websocket!NoFunction, RegistryTypes
  <1>5. Websocket!TablesAgree /\ IdsStand
    BY <1>1, <1>2 DEF Websocket!TablesAgree, IdsStand, ConnectionsOwn, OpenConnected,
       LiveDistinct, Live
  <1> QED
    BY <1>4, <1>5 DEF WebsocketInv

LEMMA WebsocketInvMatches == WebsocketInv => Websocket!RoomsMatchConnections
  <1> SUFFICES ASSUME WebsocketInv, ~reused
               PROVE  /\ Websocket!OpenReachable
                      /\ \A r \in Rooms : \A s \in Websocket!_ws_broadcast(r) :
                            socket[s] = "open" \/ Closing(s)
    BY DEF WebsocketInv, Websocket!RoomsMatchConnections, Closing
  <1>1. RegistryTypes /\ IdsStand
    BY DEF WebsocketInv
  <1>2. ASSUME NEW c \in DOMAIN connections
        PROVE  /\ connections[c] \in Sockets
               /\ socket[connections[c]] = "open" \/ Closing(connections[c])
    BY <1>1 DEF RegistryTypes, IdsStand, ConnectionsOwn
  <1>3. ASSUME NEW s \in Sockets, socket[s] = "open"
        PROVE  Websocket!_ws_send(clientId[s]) = {s}
    BY <1>1, <1>3 DEF IdsStand, OpenConnected, Websocket!_ws_send
  <1>4. ASSUME NEW s \in Sockets, socket[s] = "closed", handler.socket # s,
               NEW c \in DOMAIN connections
        PROVE  connections[c] # s
    BY <1>2, <1>4 DEF Closing
  <1>5. Websocket!OpenReachable
    BY <1>3, <1>4 DEF Websocket!OpenReachable
  <1>6. ASSUME NEW r \in Rooms, NEW s \in Websocket!_ws_broadcast(r)
        PROVE  socket[s] = "open" \/ Closing(s)
    BY <1>2, <1>6 DEF Websocket!_ws_broadcast, Websocket!broadcastToRoom
  <1> QED
    BY <1>5, <1>6

\* The rooms, the connections and the sockets agree whatever handlers do and in
\* whatever order sockets close, the server stops and the ws package is imported:
\* until an id is handed out that an old socket still has, a room reaches only clients
\* that joined it, and every open socket can be reached under its own id.
THEOREM RegistryIsConsistent == MCSpec => []RoomsMatchConnections
  <1>1. MCInit => WebsocketInv
    BY WebsocketInvInit DEF MCInit
  <1>2. WebsocketInv /\ [MCNext]_allVars => WebsocketInv'
    <2>1. [MCNext]_allVars => [Websocket!Next]_websocketVars
      BY DEF MCNext, allVars, PoolOnly, StreamOnly, WebsocketOnly
    <2> QED
      BY <2>1, WebsocketInvStep
  <1>3. WebsocketInv => RoomsMatchConnections
    BY WebsocketInvMatches DEF RoomsMatchConnections
  <1> QED
    BY <1>1, <1>2, <1>3, PTL DEF MCSpec

-----------------------------------------------------------------------------
\* Types of the server's parts, for any calls, frames, sockets, rooms and bounds.
THEOREM ServerTypes == MCSpec => []TypesOK
  <1> DEFINE Inv == ServerInv /\ StreamInv /\ WebsocketInv
  <1>1. MCInit => Inv
    BY ServerInvInit, StreamInvInit, WebsocketInvInit DEF MCInit
  <1>2. Inv /\ [MCNext]_allVars => Inv'
    <2>1. [MCNext]_allVars =>
             /\ [Next]_vars /\ [Stream!Next]_streamVars /\ [Websocket!Next]_websocketVars
      BY DEF MCNext, allVars, PoolOnly, StreamOnly, WebsocketOnly
    <2> QED
      BY <2>1, ServerInvStep, StreamInvStep, WebsocketInvStep
  <1>3. Inv => TypesOK
    BY DEF TypesOK, ServerInv, StreamInv, WebsocketInv, RegistryTypes
  <1> QED
    BY <1>1, <1>2, <1>3, PTL DEF MCSpec

=============================================================================
