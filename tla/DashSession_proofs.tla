------------------------- MODULE DashSession_proofs -------------------------
(***************************************************************************)
(* The invariants of module DashSession hold for every video, every        *)
(* capacity of the connection, every buffer size and every set of faults.  *)
(***************************************************************************)
EXTENDS DashSession, SequenceTheorems, TLAPS

-----------------------------------------------------------------------------
(* What the constants are.                                                 *)

(* The client's socket buffer holds at least a byte.                       *)
LEMMA CapacityIsPositive == Capacity \in Nat /\ Capacity > 0
<1>1. Capacity \in Nat /\ Capacity # 0
  BY TcpAssumption
<1> QED
  BY <1>1

(* So does the buffer that a read fills.                                   *)
LEMMA BufferIsPositive == BufferSize \in Nat /\ BufferSize > 0
<1>1. BufferSize \in Nat /\ BufferSize # 0
  BY TcpAssumption
<1> QED
  BY <1>1

(* There are segments, levels and frames to play.                          *)
LEMMA CountsArePositive ==
  /\ Qualities \in Nat /\ Qualities > 0
  /\ Segments \in Nat /\ Segments > 0
  /\ InitSegments \in Nat
  /\ FramesInSegment \in Nat
<1>1. /\ Qualities \in Nat /\ Qualities # 0
      /\ Segments \in Nat /\ Segments # 0
      /\ InitSegments \in Nat
      /\ FramesInSegment \in Nat
  BY ClientAssumption
<1> QED
  BY <1>1

(* No segment is empty at any level.                                       *)
LEMMA SizesArePositive ==
  ASSUME NEW q \in 0 .. Qualities-1, NEW i \in 0 .. Segments-1
  PROVE  Representation[q][i] \in Nat /\ Representation[q][i] > 0
<1>1. Representation[q] \in [0 .. Segments-1 -> Nat \ {0}]
  BY ClientAssumption
<1>2. Representation[q][i] \in Nat \ {0}
  BY <1>1
<1> QED
  BY <1>2

-----------------------------------------------------------------------------
(* What the helpers do.                                                    *)

(* A read takes some of what is there, and never more.                     *)
LEMMA BytesReadBound ==
  ASSUME rcvbuf \in Nat
  PROVE  /\ BytesRead \in Nat
         /\ BytesRead <= rcvbuf
         /\ rcvbuf - BytesRead \in Nat
         /\ rcvbuf > 0 => BytesRead > 0
  BY BufferIsPositive DEF BytesRead, Least

(* Close leaves neither descriptor nor unread bytes, and sends a FIN if it *)
(* closed anything.                                                        *)
LEMMA CloseEffect ==
  ASSUME NEW unread, Close(unread)
  PROVE  /\ fdOpen' = FALSE
         /\ fdRegistered' = FALSE
         /\ fdOpen => status_' = "DISCONNECT" /\ clientFin' = TRUE /\ rcvbuf' = 0 /\ serverEdge' = TRUE
         /\ ~fdOpen => UNCHANGED <<status_, clientFin, rcvbuf, serverEdge, reset>>
         /\ reset' = reset \/ (reset' = "error" /\ unread > 0)
  BY DEF Close, ClientSocketClosed

(* A request is sent, and noticed by the server, only on an open           *)
(* descriptor.                                                             *)
LEMMA SendRequestEffect ==
  ASSUME NEW bytes, SendRequest(bytes)
  PROVE  /\ fdOpen => up' = Append(up, bytes) /\ serverEdge' = TRUE
         /\ ~fdOpen => UNCHANGED <<up, serverEdge>>
  BY DEF SendRequest

(* RequestSegment resets the bytes read; it sends at once, or sets the     *)
(* alarm.                                                                  *)
LEMMA RequestSegmentEffect ==
  ASSUME index_ \in 0 .. Segments-1, request_alarm_ \in BOOLEAN, RequestSegment
  PROVE  /\ quality_' \in 0 .. Qualities-1
         /\ read_bytes_' = 0
         /\ segment_bytes_' \in Nat /\ segment_bytes_' > 0
         /\ \/ /\ index_ # 0
               /\ request_alarm_' = TRUE
               /\ UNCHANGED <<up, serverEdge, index_>>
            \/ /\ request_alarm_' = request_alarm_
               /\ index_' = index_ + 1
               /\ SendRequest(segment_bytes_')
<1>1. PICK reply \in Replies(index_) : Request(reply)
  BY DEF RequestSegment
<1>2. /\ reply.nextQuality \in 0 .. Qualities-1
      /\ reply.delayed \in BOOLEAN
      /\ reply.delayed => index_ # 0
  <2>1. CASE index_ = 0
    <3>1. reply \in [nextQuality : {0}, delayed : {FALSE}]
      BY <2>1 DEF Replies
    <3>2. reply.nextQuality = 0 /\ reply.delayed = FALSE
      BY <3>1
    <3>3. 0 \in 0 .. Qualities-1
      BY CountsArePositive
    <3> QED
      BY <3>2, <3>3
  <2>2. CASE index_ # 0
    <3>1. reply \in [nextQuality : 0 .. Qualities-1, delayed : BOOLEAN]
      BY <2>2 DEF Replies
    <3> QED
      BY <2>2, <3>1
  <2> QED
    BY <2>1, <2>2
<1>3. segment_bytes_' \in Nat /\ segment_bytes_' > 0
  BY <1>1, <1>2, SizesArePositive DEF Request
<1>4. CASE reply.delayed
  BY <1>1, <1>2, <1>3, <1>4 DEF Request
<1>5. CASE ~reply.delayed
  <2>1. DelayRequestHandle(segment_bytes_')
    BY <1>1, <1>5 DEF Request
  <2>2. SendRequest(segment_bytes_') /\ index_' = index_ + 1
    BY <2>1, CountsArePositive DEF DelayRequestHandle
  <2> QED
    BY <1>1, <1>2, <1>3, <1>5, <2>2 DEF Request
<1> QED
  BY <1>2, <1>4, <1>5

(* CheckBufferStatus starts the player or leaves it alone, empty if        *)
(* paused.                                                                 *)
LEMMA CheckBufferStatusEffect ==
  ASSUME NEW buffered \in Nat, PlayerTypeOK, CheckBufferStatus(buffered)
  PROVE  \/ player_state_' = "PLAY" /\ player_alarm_' = TRUE
         \/ /\ player_state_ = "PAUSED" => buffered = 0
            /\ UNCHANGED <<player_state_, player_alarm_>>
  BY DEF CheckBufferStatus, PlayerTypeOK

(* PlayBackHandle moves a segment from buffered to played, or pauses, or   *)
(* ends.                                                                   *)
LEMMA PlayBackHandleEffect ==
  ASSUME PlayerTypeOK, PlayBackHandle
  PROVE  /\ PlayerTypeOK'
         /\ playback_index_' + segments_in_buffer_' = playback_index_ + segments_in_buffer_
         /\ \/ /\ segments_in_buffer_' > 0
               /\ player_alarm_' = TRUE
               /\ player_state_' = player_state_
            \/ /\ segments_in_buffer_' = 0
               /\ player_alarm_' = FALSE
               /\ \/ player_state_' = "DONE" /\ playback_index_' >= Segments
                  \/ player_state_' = "PAUSED"
<1>1. \/ segments_in_buffer_' = segments_in_buffer_ /\ playback_index_' = playback_index_
      \/ /\ segments_in_buffer_ > 0
         /\ segments_in_buffer_' = segments_in_buffer_ - 1
         /\ playback_index_' = playback_index_ + 1
  <2>1. CASE SegmentPlayed
    <3>1. segments_in_buffer_ > 0
      BY <2>1 DEF SegmentPlayed
    <3> QED
      BY <2>1, <3>1 DEF PlayBackHandle, PlayerTypeOK
  <2>2. CASE ~SegmentPlayed
    BY <2>2 DEF PlayBackHandle, PlayerTypeOK
  <2> QED
    BY <2>1, <2>2
<1>2. played_frames_' \in Nat
  BY DEF PlayBackHandle, PlayerTypeOK
<1>3. /\ segments_in_buffer_' \in Nat
      /\ playback_index_' \in Nat
      /\ playback_index_' + segments_in_buffer_' = playback_index_ + segments_in_buffer_
  BY <1>1 DEF PlayerTypeOK
<1>4. /\ player_alarm_' = (segments_in_buffer_' > 0)
      /\ player_state_' = IF segments_in_buffer_' > 0 THEN player_state_
                                                      ELSE StateWhenEmpty(playback_index_')
  BY DEF PlayBackHandle
<1>5. CASE segments_in_buffer_' > 0
  <2>1. player_alarm_' = TRUE /\ player_state_' = player_state_
    BY <1>4, <1>5
  <2> QED
    BY <1>2, <1>3, <1>5, <2>1 DEF PlayerTypeOK
<1>6. CASE ~(segments_in_buffer_' > 0)
  <2>1. (segments_in_buffer_' > 0) = FALSE
    BY <1>6
  <2>2. player_alarm_' = FALSE /\ player_state_' = StateWhenEmpty(playback_index_')
    BY <1>4, <2>1
  <2>3. segments_in_buffer_' = 0
    BY <1>3, <1>6
  <2> QED
    BY <1>2, <1>3, <2>2, <2>3 DEF PlayerTypeOK, StateWhenEmpty
<1> QED
  BY <1>5, <1>6
-----------------------------------------------------------------------------
(* Types.                                                                  *)

(* The types of each part survive a step that does not touch the part.     *)
LEMMA FdUnchanged == ASSUME FdTypeOK, UNCHANGED fdVars PROVE FdTypeOK'
  BY DEF FdTypeOK, fdVars

(* The player.                                                             *)
LEMMA PlayerUnchanged == ASSUME PlayerTypeOK, UNCHANGED playerVars PROVE PlayerTypeOK'
  BY DEF PlayerTypeOK, playerVars

(* The fetching.                                                           *)
LEMMA FetchUnchanged == ASSUME FetchTypeOK, UNCHANGED fetchVars PROVE FetchTypeOK'
  BY DEF FetchTypeOK, fetchVars

(* The connection.                                                         *)
LEMMA TcpUnchanged == ASSUME TcpTypeOK, UNCHANGED tcpVars PROVE TcpTypeOK'
  BY DEF TcpTypeOK, tcpVars

(* The server.                                                             *)
LEMMA ServerUnchanged == ASSUME ServerTypeOK, UNCHANGED serverVars PROVE ServerTypeOK'
  BY DEF ServerTypeOK, serverVars

(* Closing keeps the types of the descriptor.                              *)
LEMMA ClosedFd == ASSUME FdTypeOK, NEW unread, Close(unread) PROVE FdTypeOK'
  BY CloseEffect DEF FdTypeOK

(* A segment more in the buffer keeps the types of the player.             *)
LEMMA CheckedPlayer ==
  ASSUME PlayerTypeOK, CheckBufferStatus(segments_in_buffer_ + 1),
         segments_in_buffer_' = segments_in_buffer_ + 1,
         UNCHANGED <<playback_index_, played_frames_>>
  PROVE  PlayerTypeOK'
<1>1. segments_in_buffer_ + 1 \in Nat
  BY DEF PlayerTypeOK
<1> QED
  BY <1>1, CheckBufferStatusEffect DEF PlayerTypeOK

(* RequestSegment keeps the types of the fetching.                         *)
LEMMA RequestedFetch ==
  ASSUME FetchTypeOK, index_ \in 0 .. Segments-1, RequestSegment,
         transmissionStarts' \in Nat, segment_counter_' \in Nat
  PROVE  FetchTypeOK'
<1>1. request_alarm_ \in BOOLEAN
  BY DEF FetchTypeOK
<1>2. quality_' \in 0 .. Qualities-1 /\ read_bytes_' \in Nat /\ segment_bytes_' \in Nat
  BY <1>1, RequestSegmentEffect
<1>3. index_' = index_ \/ index_' = index_ + 1
  BY <1>1, RequestSegmentEffect
<1>4. index_' \in 0 .. Segments
  BY <1>3, CountsArePositive
<1>5. request_alarm_' \in BOOLEAN
  BY <1>1, RequestSegmentEffect
<1> QED
  BY <1>2, <1>4, <1>5 DEF FetchTypeOK

(* A request sent keeps the types of the connection,                       *)
LEMMA SentTcp ==
  ASSUME TcpTypeOK, NEW bytes \in Nat, SendRequest(bytes)
  PROVE  up' \in Seq(Nat) /\ serverEdge' \in BOOLEAN
<1>1. CASE fdOpen
  BY <1>1 DEF SendRequest, TcpTypeOK
<1>2. CASE ~fdOpen
  BY <1>2 DEF SendRequest, TcpTypeOK
<1> QED
  BY <1>1, <1>2

(* also when it is RequestSegment that sends it,                           *)
LEMMA RequestedTcp ==
  ASSUME TcpTypeOK, FetchTypeOK, index_ \in 0 .. Segments-1, RequestSegment
  PROVE  up' \in Seq(Nat) /\ serverEdge' \in BOOLEAN
<1>1. request_alarm_ \in BOOLEAN
  BY DEF FetchTypeOK
<1>2. segment_bytes_' \in Nat /\ (UNCHANGED <<up, serverEdge>> \/ SendRequest(segment_bytes_'))
  BY <1>1, RequestSegmentEffect
<1>3. CASE UNCHANGED <<up, serverEdge>>
  BY <1>3 DEF TcpTypeOK
<1>4. CASE SendRequest(segment_bytes_')
  BY <1>2, <1>4, SentTcp
<1> QED
  BY <1>2, <1>3, <1>4

(* and so does Close.                                                      *)
LEMMA ClosedTcp ==
  ASSUME TcpTypeOK, NEW unread, Close(unread)
  PROVE  /\ clientFin' \in BOOLEAN /\ rcvbuf' \in Nat /\ serverEdge' \in BOOLEAN
         /\ reset' \in {"none", "error", "broken"}
<1>1. reset' = reset \/ reset' = "error"
  BY CloseEffect
<1>2. CASE fdOpen
  <2>1. clientFin' = TRUE /\ rcvbuf' = 0 /\ serverEdge' = TRUE
    BY <1>2, CloseEffect
  <2> QED
    BY <1>1, <2>1 DEF TcpTypeOK
<1>3. CASE ~fdOpen
  <2>1. UNCHANGED <<clientFin, rcvbuf, serverEdge>>
    BY <1>3, CloseEffect
  <2> QED
    BY <1>1, <2>1 DEF TcpTypeOK
<1> QED
  BY <1>2, <1>3

(* The client's steps keep the types of the client.                        *)
LEMMA ClientKeepsClientTypes ==
  ASSUME TypeOK, DescriptorInv, ClientStep \/ Interrupt
  PROVE  ClientTypeOK'
<1> USE DEF TypeOK, ClientTypeOK
<1>1. CASE ConnectInProgress
  BY <1>1, PlayerUnchanged, FetchUnchanged DEF ConnectInProgress, FdTypeOK
<1>2. CASE ConnectError
  BY <1>2, FetchUnchanged DEF ConnectError, FdTypeOK, PlayerTypeOK
<1>3. CASE ConnectFails
  BY <1>3, FdUnchanged, PlayerUnchanged, FetchUnchanged DEF ConnectFails
<1>4. CASE OnEventError
  BY <1>4, ClosedFd, FetchUnchanged DEF OnEventError, PlayerTypeOK
<1>5. CASE OnEventConnected
  <2>1. index_ \in 0 .. Segments-1
    BY <1>5, CountsArePositive DEF OnEventConnected, DescriptorInv, Fresh
  <2>2. FetchTypeOK'
    <3>1. RequestSegment /\ transmissionStarts' \in Nat /\ segment_counter_' \in Nat
      BY <1>5 DEF OnEventConnected, FetchTypeOK
    <3> QED
      BY <2>1, <3>1, RequestedFetch
  <2>3. FdTypeOK' /\ PlayerTypeOK' /\ cpc' = "alarms"
    BY <1>5 DEF OnEventConnected, FdTypeOK, PlayerTypeOK
  <2> QED
    BY <2>2, <2>3
<1>6. CASE OnEventReadable
  BY <1>6, FdUnchanged, PlayerUnchanged, FetchUnchanged DEF OnEventReadable
<1>7. CASE ReadPart
  <2>1. BytesRead \in Nat
    BY BytesReadBound DEF TcpTypeOK
  <2>2. FetchTypeOK'
    BY <1>7, <2>1 DEF ReadPart, FetchTypeOK
  <2> QED
    BY <1>7, <2>2, FdUnchanged, PlayerUnchanged DEF ReadPart
<1>8. CASE ReadSegment
  <2>1. PlayerTypeOK'
    BY <1>8, CheckedPlayer DEF ReadSegment
  <2>2. CASE AllRequested
    <3>1. FdTypeOK' /\ cpc' = "alarms"
      BY <1>8, <2>2, ClosedFd DEF ReadSegment
    <3>2. FetchTypeOK'
      BY <1>8, <2>2 DEF ReadSegment, FetchTypeOK
    <3> QED
      BY <2>1, <3>1, <3>2
  <2>3. CASE ~AllRequested
    <3>1. FdTypeOK' /\ cpc' = cpc
      BY <1>8, <2>3, FdUnchanged DEF ReadSegment
    <3>2. index_ \in 0 .. Segments-1
      BY <2>3, CountsArePositive DEF AllRequested, FetchTypeOK
    <3>3. RequestSegment
      BY <1>8, <2>3 DEF ReadSegment
    <3>4. segment_counter_' \in Nat /\ transmissionStarts' \in Nat
      BY <1>8 DEF ReadSegment, FetchTypeOK
    <3>5. FetchTypeOK'
      BY <3>2, <3>3, <3>4, RequestedFetch
    <3> QED
      BY <2>1, <3>1, <3>5
  <2> QED
    BY <2>2, <2>3
<1>9. CASE ReadWouldBlock
  BY <1>9, FdUnchanged, PlayerUnchanged, FetchUnchanged DEF ReadWouldBlock
<1>10. CASE ReadEof
  BY <1>10, PlayerUnchanged, FetchUnchanged DEF ReadEof, FdTypeOK
<1>11. ASSUME NEW player \in BOOLEAN, NEW request \in BOOLEAN, ExecuteAlarms(player, request)
       PROVE  ClientTypeOK'
  <2>1. FdTypeOK' /\ cpc' = "check"
    BY <1>11, FdUnchanged DEF ExecuteAlarms
  <2>2. PlayerTypeOK'
    BY <1>11, PlayBackHandleEffect, PlayerUnchanged DEF ExecuteAlarms
  <2>3. index_' \in 0 .. Segments
    BY <1>11, CountsArePositive DEF ExecuteAlarms, DelayRequestHandle, FetchTypeOK
  <2>4. FetchTypeOK'
    BY <1>11, <2>3 DEF ExecuteAlarms, FetchTypeOK
  <2> QED
    BY <2>1, <2>2, <2>4
<1>12. CASE Terminate \/ Interrupt
  <2>1. DeleteClient
    BY <1>12 DEF Terminate, Interrupt
  <2> QED
    BY <2>1, ClosedFd DEF DeleteClient, PlayerTypeOK, FetchTypeOK
<1>13. CASE NextTurn
  BY <1>13, FdUnchanged, PlayerUnchanged, FetchUnchanged DEF NextTurn
<1> QED
  BY <1>1, <1>2, <1>3, <1>4, <1>5, <1>6, <1>7, <1>8, <1>9, <1>10, <1>11, <1>12, <1>13
  DEF ClientStep

(* The client's steps keep the types of the connection.                    *)
LEMMA ClientKeepsTcpTypes ==
  ASSUME TypeOK, DescriptorInv, ClientStep \/ Interrupt
  PROVE  TcpTypeOK'
<1> USE DEF TypeOK
<1>1. CASE ConnectInProgress
  BY <1>1 DEF ConnectInProgress, TcpTypeOK
<1>2. CASE ConnectError
  BY <1>2 DEF ConnectError, TcpTypeOK
<1>3. CASE ConnectFails \/ ReadWouldBlock \/ ReadEof \/ NextTurn
  BY <1>3, TcpUnchanged DEF ConnectFails, ReadWouldBlock, ReadEof, NextTurn
<1>4. CASE OnEventError
  BY <1>4, ClosedTcp DEF OnEventError, TcpTypeOK
<1>5. CASE OnEventConnected
  <2>1. index_ \in 0 .. Segments-1
    BY <1>5, CountsArePositive DEF OnEventConnected, DescriptorInv, Fresh
  <2>2. up' \in Seq(Nat) /\ serverEdge' \in BOOLEAN
    BY <1>5, <2>1, RequestedTcp DEF OnEventConnected, ClientTypeOK
  <2> QED
    BY <1>5, <2>2 DEF OnEventConnected, TcpTypeOK
<1>6. CASE OnEventReadable
  BY <1>6 DEF OnEventReadable, TcpTypeOK
<1>7. CASE ReadPart
  <2>1. rcvbuf' \in Nat
    BY <1>7, BytesReadBound DEF ReadPart, TcpTypeOK
  <2> QED
    BY <1>7, <2>1 DEF ReadPart, TcpTypeOK
<1>8. CASE ReadSegment
  <2>1. CASE AllRequested
    BY <1>8, <2>1, ClosedTcp DEF ReadSegment, TcpTypeOK
  <2>2. CASE ~AllRequested
    <3>1. index_ \in 0 .. Segments-1
      BY <2>2, CountsArePositive DEF AllRequested, ClientTypeOK, FetchTypeOK
    <3>2. /\ RequestSegment /\ rcvbuf' = rcvbuf - BytesRead
          /\ clientFin' = clientFin /\ reset' = reset
      BY <1>8, <2>2 DEF ReadSegment
    <3>3. up' \in Seq(Nat) /\ serverEdge' \in BOOLEAN
      BY <3>1, <3>2, RequestedTcp DEF ClientTypeOK
    <3>4. rcvbuf' \in Nat
      BY <3>2, BytesReadBound DEF TcpTypeOK
    <3> QED
      BY <1>8, <3>2, <3>3, <3>4 DEF ReadSegment, TcpTypeOK
  <2> QED
    BY <2>1, <2>2
<1>9. ASSUME NEW player \in BOOLEAN, NEW request \in BOOLEAN, ExecuteAlarms(player, request)
      PROVE  TcpTypeOK'
  <2>1. up' \in Seq(Nat) /\ serverEdge' \in BOOLEAN
    <3>1. segment_bytes_ \in Nat
      BY DEF ClientTypeOK, FetchTypeOK
    <3>2. CASE UNCHANGED <<up, serverEdge>>
      BY <3>2 DEF TcpTypeOK
    <3>3. CASE SendRequest(segment_bytes_)
      BY <3>1, <3>3, SentTcp
    <3> QED
      BY <1>9, <3>2, <3>3 DEF ExecuteAlarms, DelayRequestHandle
  <2> QED
    BY <1>9, <2>1 DEF ExecuteAlarms, TcpTypeOK
<1>10. CASE Terminate \/ Interrupt
  <2>1. DeleteClient
    BY <1>10 DEF Terminate, Interrupt
  <2> QED
    BY <2>1, ClosedTcp DEF DeleteClient, TcpTypeOK
<1> QED
  BY <1>1, <1>2, <1>3, <1>4, <1>5, <1>6, <1>7, <1>8, <1>9, <1>10 DEF ClientStep

(* A part of an answer keeps the types of the server.                      *)
LEMMA AnsweredTypes ==
  ASSUME ServerTypeOK, request_bytes_ # <<>>, NEW sent \in Nat, Answered(sent)
  PROVE  /\ request_bytes_' \in Seq(Nat)
         /\ sent_bytes_' \in Nat
         /\ mask' \subseteq {"EPOLLIN", "EPOLLOUT", "EPOLLET"}
<1>1. CASE sent = Head(request_bytes_)
  <2>1. request_bytes_' = Tail(request_bytes_) /\ sent_bytes_' = 0
    BY <1>1 DEF Answered
  <2>2. request_bytes_' \in Seq(Nat)
    BY <2>1 DEF ServerTypeOK
  <2>3. mask' = {"EPOLLIN"} \/ mask' = mask
    BY <1>1 DEF Answered
  <2> QED
    BY <2>1, <2>2, <2>3 DEF ServerTypeOK
<1>2. CASE sent # Head(request_bytes_)
  BY <1>2 DEF Answered, ServerTypeOK
<1> QED
  BY <1>1, <1>2

(* The endpoint's steps keep the types of the endpoint and the connection. *)
LEMMA ServerKeepsTypes ==
  ASSUME TypeOK, ServerStep \/ ServerExit
  PROVE  ServerTypeOK' /\ TcpTypeOK'
<1> USE DEF TypeOK
<1>1. CASE CreateEndpoint
  BY <1>1 DEF CreateEndpoint, TcpTypeOK, ServerTypeOK
<1>2. CASE EndpointOnEvent
  BY <1>2 DEF EndpointOnEvent, TcpTypeOK, ServerTypeOK
<1>3. CASE ReadRequest
  BY <1>3 DEF ReadRequest, TcpTypeOK, ServerTypeOK
<1>4. CASE ReadEnd
  BY <1>4 DEF ReadEnd, EndpointClose, TcpTypeOK, ServerTypeOK
<1>5. CASE ReadNothing
  BY <1>5 DEF ReadNothing, ErrorReported, TcpTypeOK, ServerTypeOK
<1>6. CASE ResponceWrite
  <2>1. PICK n \in Nat : wire' = wire + n /\ Answered(sent_bytes_ + n)
    <3>1. CASE Answered(sent_bytes_) /\ UNCHANGED wire
      <4>1. wire' = wire + 0 /\ Answered(sent_bytes_ + 0)
        BY <3>1 DEF TcpTypeOK, ServerTypeOK
      <4> QED
        BY <4>1
    <3> QED
      BY <1>6, <3>1 DEF ResponceWrite
  <2>2. sent_bytes_ + n \in Nat /\ wire' \in Nat /\ request_bytes_ # <<>>
    BY <1>6, <2>1 DEF ResponceWrite, TcpTypeOK, ServerTypeOK
  <2>3. /\ request_bytes_' \in Seq(Nat)
        /\ sent_bytes_' \in Nat
        /\ mask' \subseteq {"EPOLLIN", "EPOLLOUT", "EPOLLET"}
    BY <2>1, <2>2, AnsweredTypes
  <2>4. TcpTypeOK'
    BY <1>6, <2>2 DEF ResponceWrite, TcpTypeOK
  <2>5. ServerTypeOK'
    BY <1>6, <2>3 DEF ResponceWrite, ServerTypeOK
  <2> QED
    BY <2>4, <2>5
<1>7. CASE ResponceFull \/ ResponceDone
  <2>1. ResponceReturn /\ (ErrorReported \/ UNCHANGED reset)
    BY <1>7 DEF ResponceFull, ResponceDone
  <2>2. reset' \in {"none", "error", "broken"}
    BY <2>1 DEF ErrorReported, TcpTypeOK
  <2> QED
    BY <2>1, <2>2 DEF ResponceReturn, TcpTypeOK, ServerTypeOK
<1>8. CASE ResponceBroken \/ DeleteTask
  BY <1>8, TcpUnchanged DEF ResponceBroken, DeleteTask, ServerTypeOK
<1>9. CASE ServerExit
  BY <1>9 DEF ServerExit, TcpTypeOK, ServerTypeOK
<1> QED
  BY <1>1, <1>2, <1>3, <1>4, <1>5, <1>6, <1>7, <1>8, <1>9 DEF ServerStep

(* The network keeps the types of the connection.                          *)
LEMMA NetworkKeepsTypes ==
  ASSUME TypeOK, Network
  PROVE  TcpTypeOK'
<1> USE DEF TypeOK, TcpTypeOK
<1>1. CASE Establish
  BY <1>1 DEF Establish
<1>2. CASE Refuse
  BY <1>2 DEF Refuse
<1>3. CASE Deliver
  BY <1>3 DEF Deliver
<1>4. CASE DeliverFin
  BY <1>4 DEF DeliverFin
<1> QED
  BY <1>1, <1>2, <1>3, <1>4 DEF Network

(* Every step keeps every variable within its type.                        *)
LEMMA TypeStep ==
  ASSUME TypeOK, DescriptorInv, [Next]_vars
  PROVE  TypeOK'
<1>1. CASE (ClientStep \/ Interrupt) /\ UNCHANGED serverVars
  BY <1>1, ClientKeepsClientTypes, ClientKeepsTcpTypes, ServerUnchanged DEF TypeOK
<1>2. ASSUME UNCHANGED clientVars PROVE ClientTypeOK'
  BY <1>2, FdUnchanged, PlayerUnchanged, FetchUnchanged DEF TypeOK, ClientTypeOK, clientVars
<1>3. CASE (ServerStep \/ ServerExit) /\ UNCHANGED clientVars
  BY <1>2, <1>3, ServerKeepsTypes DEF TypeOK
<1>4. CASE Network /\ UNCHANGED <<clientVars, serverVars>>
  BY <1>2, <1>4, NetworkKeepsTypes, ServerUnchanged DEF TypeOK
<1>5. CASE UNCHANGED vars
  BY <1>2, <1>5, TcpUnchanged, ServerUnchanged DEF TypeOK, vars
<1> QED
  BY <1>1, <1>3, <1>4, <1>5 DEF Next, Over

-----------------------------------------------------------------------------
(* The client's descriptor.                                                *)

(* While nothing was asked for, neither the endpoint nor the network has   *)
(* anything to do with requests or bytes.                                  *)
LEMMA FreshServer ==
  ASSUME Fresh, ServerStep \/ ServerExit, UNCHANGED clientVars
  PROVE  Fresh'
<1> USE DEF Fresh, clientVars, playerVars, fetchVars
<1>1. CASE CreateEndpoint
  BY <1>1 DEF CreateEndpoint
<1>2. CASE EndpointOnEvent
  BY <1>2 DEF EndpointOnEvent
<1>3. CASE ReadRequest
  <2>1. \E n \in 1 .. Len(up) : TRUE
    BY <1>3 DEF ReadRequest
  <2>2. Len(up) = 0
    OBVIOUS
  <2> QED
    BY <2>1, <2>2
<1>4. CASE ReadEnd \/ ReadNothing
  BY <1>4 DEF ReadEnd, ReadNothing, tcpVars
<1>5. CASE ResponceWrite \/ ResponceFull \/ ResponceBroken
  BY <1>5 DEF ResponceWrite, ResponceFull, ResponceBroken
<1>6. CASE ResponceDone \/ DeleteTask
  BY <1>6 DEF ResponceDone, ResponceReturn, DeleteTask, tcpVars
<1>7. CASE ServerExit
  BY <1>7 DEF ServerExit
<1> QED
  BY <1>1, <1>2, <1>3, <1>4, <1>5, <1>6, <1>7 DEF ServerStep

(* Nothing moves in a network in which nothing has been sent.              *)
LEMMA FreshNetwork ==
  ASSUME Fresh, Network, UNCHANGED <<clientVars, serverVars>>
  PROVE  Fresh'
<1> USE DEF Fresh, clientVars, serverVars, playerVars, fetchVars
<1>1. CASE Deliver
  <2>1. \E n \in 1 .. 0 : TRUE
    BY <1>1 DEF Deliver
  <2> QED
    BY <2>1
<1>2. CASE Establish \/ Refuse \/ DeliverFin
  BY <1>2 DEF Establish, Refuse, DeliverFin
<1> QED
  BY <1>1, <1>2 DEF Network

(* Without a connect of the client there is no connection.                 *)
LEMMA NotConnected ==
  ASSUME conn = "none", ServerStep \/ ServerExit \/ Network
  PROVE  conn' = "none"
  BY DEF ServerStep, ServerExit, CreateEndpoint, EndpointOnEvent, ReadRequest, ReadEnd,
         ReadNothing, ResponceWrite, ResponceFull, ResponceBroken, ResponceDone, ResponceReturn,
         DeleteTask, Network, Establish, Refuse, Deliver, DeliverFin, tcpVars

(* The server cannot send the client's FIN.                                *)
LEMMA ClientFinServer ==
  ASSUME ServerStep \/ ServerExit
  PROVE  clientFin' = clientFin
  BY DEF ServerStep, ServerExit, CreateEndpoint, EndpointOnEvent, ReadRequest, ReadEnd,
         ReadNothing, ResponceWrite, ResponceFull, ResponceBroken, ResponceDone, ResponceReturn,
         DeleteTask, tcpVars

(* Closing keeps the descriptor and the status in step.                    *)
LEMMA ClosedDescriptor ==
  ASSUME DescriptorInv, FdTypeOK, NEW unread, Close(unread), cpc' # "start", cpc' # "read"
  PROVE  DescriptorInv'
<1>1. fdOpen' = FALSE /\ fdRegistered' = FALSE
  BY CloseEffect
<1>2. status_' = "DISCONNECT"
  <2>1. CASE fdOpen
    BY <2>1, CloseEffect
  <2>2. CASE ~fdOpen
    BY <2>2, CloseEffect DEF DescriptorInv
  <2> QED
    BY <2>1, <2>2
<1> QED
  BY <1>1, <1>2 DEF DescriptorInv

(* A step that leaves the descriptor alone once requests may be asked for. *)
LEMMA KeptDescriptor ==
  ASSUME DescriptorInv, UNCHANGED <<fdVars, clientFin>>, status_ # "CONNECTING",
         cpc' # "start", cpc' = "read" => status_ = "CONNECTED"
  PROVE  DescriptorInv'
  BY DEF DescriptorInv, fdVars

(* So does every step of the client,                                       *)
LEMMA DescriptorClient ==
  ASSUME TypeOK, DescriptorInv, ClientStep \/ Interrupt, UNCHANGED serverVars
  PROVE  DescriptorInv'
<1> USE DEF TypeOK, ClientTypeOK
<1>1. CASE ConnectInProgress \/ ConnectError
  <2>1. Fresh'
    BY <1>1 DEF ConnectInProgress, ConnectError, DescriptorInv, Fresh, playerVars, fetchVars, serverVars
  <2>2. status_' = "CONNECTING" /\ fdOpen' = TRUE /\ fdRegistered' = TRUE /\ cpc' = "poll"
    BY <1>1 DEF ConnectInProgress, ConnectError
  <2>3. ~clientFin'
    BY <2>1 DEF Fresh
  <2> QED
    BY <2>1, <2>2, <2>3 DEF DescriptorInv
<1>2. CASE ConnectFails
  BY <1>2 DEF ConnectFails, DescriptorInv, fdVars, tcpVars
<1>3. CASE OnEventError
  BY <1>3, ClosedDescriptor DEF OnEventError
<1>4. CASE OnEventConnected
  BY <1>4 DEF OnEventConnected, DescriptorInv
<1>5. CASE OnEventReadable \/ ReadPart \/ ReadWouldBlock
  BY <1>5, KeptDescriptor DEF OnEventReadable, ReadPart, ReadWouldBlock, tcpVars, DescriptorInv
<1>6. CASE ReadSegment
  <2>1. status_ = "CONNECTED" /\ cpc = "read"
    BY <1>6 DEF ReadSegment, DescriptorInv
  <2>2. CASE AllRequested
    BY <1>6, <2>2, ClosedDescriptor DEF ReadSegment
  <2>3. CASE ~AllRequested
    BY <1>6, <2>1, <2>3, KeptDescriptor DEF ReadSegment
  <2> QED
    BY <2>2, <2>3
<1>7. CASE ReadEof
  BY <1>7 DEF ReadEof, DescriptorInv, tcpVars
<1>8. ASSUME NEW player \in BOOLEAN, NEW request \in BOOLEAN, ExecuteAlarms(player, request)
      PROVE  DescriptorInv'
  <2>1. UNCHANGED <<fdVars, clientFin>> /\ cpc' = "check"
    BY <1>8 DEF ExecuteAlarms
  <2>2. CASE status_ = "CONNECTING"
    <3>1. Fresh
      BY <2>2 DEF DescriptorInv
    <3>2. player = FALSE /\ request = FALSE
      BY <1>8, <3>1 DEF ExecuteAlarms, Fresh
    <3>3. Fresh'
      BY <1>8, <3>1, <3>2 DEF ExecuteAlarms, Fresh, playerVars, serverVars
    <3> QED
      BY <2>1, <3>3 DEF DescriptorInv, fdVars
  <2>3. CASE status_ # "CONNECTING"
    BY <2>1, <2>3, KeptDescriptor
  <2> QED
    BY <2>2, <2>3
<1>9. CASE Terminate \/ Interrupt
  BY <1>9, ClosedDescriptor DEF Terminate, Interrupt, DeleteClient
<1>10. CASE NextTurn
  <2>1. Fresh => Fresh'
    BY <1>10 DEF NextTurn, Fresh, tcpVars, playerVars, fetchVars, serverVars
  <2> QED
    BY <1>10, <2>1 DEF NextTurn, DescriptorInv, tcpVars, fdVars
<1> QED
  BY <1>1, <1>2, <1>3, <1>4, <1>5, <1>6, <1>7, <1>8, <1>9, <1>10 DEF ClientStep

(* and every step at all.                                                  *)
LEMMA DescriptorStep ==
  ASSUME TypeOK, DescriptorInv, [Next]_vars
  PROVE  DescriptorInv'
<1>1. CASE (ClientStep \/ Interrupt) /\ UNCHANGED serverVars
  BY <1>1, DescriptorClient
<1>2. CASE (ServerStep \/ ServerExit) /\ UNCHANGED clientVars
  BY <1>2, FreshServer, NotConnected, ClientFinServer DEF DescriptorInv, clientVars, fdVars
<1>3. CASE Network /\ UNCHANGED <<clientVars, serverVars>>
  <2>1. clientFin' = clientFin
    BY <1>3 DEF Network, Establish, Refuse, Deliver, DeliverFin
  <2> QED
    BY <1>3, <2>1, FreshNetwork, NotConnected DEF DescriptorInv, clientVars, fdVars
<1>4. CASE UNCHANGED vars
  BY <1>4
  DEF DescriptorInv, Fresh, vars, tcpVars, clientVars, fdVars, playerVars, fetchVars, serverVars
<1> QED
  BY <1>1, <1>2, <1>3, <1>4 DEF Next, Over

-----------------------------------------------------------------------------
(* The endpoint.                                                           *)

(* Nothing is sent, and nothing closed, without an edge for the endpoint;  *)
(* only a close resets.                                                    *)
KeepsEndpoint ==
  /\ serverFin' = serverFin
  /\ up' # up => serverEdge' = TRUE
  /\ clientFin' # clientFin => serverEdge' = TRUE
  /\ serverEdge => serverEdge'
  /\ clientFin' = TRUE \/ UNCHANGED <<clientFin, reset>>

(* What the client does to the descriptor of the endpoint.                 *)
LEMMA ClientToServer ==
  ASSUME TypeOK, ClientStep \/ Interrupt
  PROVE  KeepsEndpoint
<1> USE DEF TypeOK, ClientTypeOK
<1>1. ASSUME UNCHANGED <<up, clientFin, serverEdge, serverFin, reset>>
      PROVE  KeepsEndpoint
  BY <1>1 DEF KeepsEndpoint
<1>2. CASE ConnectInProgress \/ ConnectError \/ ConnectFails \/ OnEventReadable \/ ReadPart
           \/ ReadWouldBlock \/ ReadEof \/ NextTurn
  BY <1>1, <1>2 DEF ConnectInProgress, ConnectError, ConnectFails, OnEventReadable, ReadPart,
                    ReadWouldBlock, ReadEof, NextTurn, tcpVars
<1>3. ASSUME NEW unread, Close(unread), UNCHANGED <<up, serverFin>>
      PROVE  KeepsEndpoint
  <2>1. CASE fdOpen
    BY <1>3, <2>1, CloseEffect DEF KeepsEndpoint
  <2>2. CASE ~fdOpen
    BY <1>1, <1>3, <2>2, CloseEffect
  <2> QED
    BY <2>1, <2>2
<1>4. ASSUME NEW bytes, SendRequest(bytes), UNCHANGED <<clientFin, serverFin, reset>>
      PROVE  KeepsEndpoint
  BY <1>4, SendRequestEffect DEF FdTypeOK, KeepsEndpoint
<1>5. CASE OnEventError \/ Terminate \/ Interrupt
  BY <1>3, <1>5 DEF OnEventError, Terminate, Interrupt, DeleteClient
<1>6. ASSUME NEW bytes, DelayRequestHandle(bytes), UNCHANGED <<clientFin, serverFin, reset>>
      PROVE  KeepsEndpoint
  BY <1>1, <1>4, <1>6 DEF DelayRequestHandle
<1>7. ASSUME RequestSegment, UNCHANGED <<clientFin, serverFin, reset>>
      PROVE  KeepsEndpoint
  <2>1. PICK reply \in Replies(index_) : Request(reply)
    BY <1>7 DEF RequestSegment
  <2> QED
    BY <1>1, <1>6, <1>7, <2>1 DEF Request
<1>8. CASE OnEventConnected
  BY <1>7, <1>8 DEF OnEventConnected
<1>9. CASE ReadSegment
  BY <1>3, <1>7, <1>9 DEF ReadSegment
<1>10. ASSUME NEW player \in BOOLEAN, NEW request \in BOOLEAN, ExecuteAlarms(player, request)
       PROVE  KeepsEndpoint
  BY <1>1, <1>6, <1>10 DEF ExecuteAlarms
<1> QED
  BY <1>2, <1>5, <1>8, <1>9, <1>10 DEF ClientStep

(* A client that has no bytes unread leaves no trace of its close but FIN. *)
LEMMA ClientUnread ==
  ASSUME ClientStep \/ Interrupt, rcvbuf = 0
  PROVE  UNCHANGED <<wire, rcvbuf, reset>>
<1>1. CASE ConnectInProgress \/ ConnectError \/ ConnectFails \/ OnEventConnected \/ OnEventReadable
           \/ ReadWouldBlock \/ ReadEof \/ NextTurn
  BY <1>1 DEF ConnectInProgress, ConnectError, ConnectFails, OnEventConnected, OnEventReadable,
              ReadWouldBlock, ReadEof, NextTurn, tcpVars
<1>2. CASE OnEventError \/ Terminate \/ Interrupt
  <2>1. Close(rcvbuf) /\ UNCHANGED wire
    BY <1>2 DEF OnEventError, Terminate, Interrupt, DeleteClient
  <2>2. reset' = reset \/ rcvbuf > 0
    BY <2>1, CloseEffect
  <2>3. rcvbuf' = 0
    BY <2>1 DEF Close, ClientSocketClosed
  <2> QED
    BY <2>1, <2>2, <2>3
<1>3. CASE ReadPart \/ ReadSegment
  BY <1>3 DEF ReadPart, ReadSegment
<1>4. ASSUME NEW player \in BOOLEAN, NEW request \in BOOLEAN, ExecuteAlarms(player, request)
      PROVE  UNCHANGED <<wire, rcvbuf, reset>>
  BY <1>4 DEF ExecuteAlarms
<1> QED
  BY <1>1, <1>2, <1>3, <1>4 DEF ClientStep

(* Every step keeps the endpoint's life cycle, and no request goes         *)
(* unnoticed.                                                              *)
LEMMA EndpointStep ==
  ASSUME TypeOK, EndpointInv, RequestNoticed, [Next]_vars
  PROVE  EndpointInv' /\ RequestNoticed'
<1> USE DEF TypeOK, ServerTypeOK
<1>1. CASE (ClientStep \/ Interrupt) /\ UNCHANGED serverVars
  <2>1. EndpointInv'
    BY <1>1, ClientToServer, ClientUnread DEF KeepsEndpoint, EndpointInv, serverVars, TcpTypeOK
  <2>2. RequestNoticed'
    BY <1>1, ClientToServer DEF KeepsEndpoint, RequestNoticed, serverVars, TcpTypeOK
  <2> QED
    BY <2>1, <2>2
<1>2. CASE Network /\ UNCHANGED <<clientVars, serverVars>>
  <2>1. /\ UNCHANGED <<up, clientFin, serverEdge>> /\ (serverFin = "none" => serverFin' = "none")
        /\ clientFin = TRUE \/ UNCHANGED reset
        /\ wire = 0 => UNCHANGED <<wire, rcvbuf, reset>>
    BY <1>2 DEF TcpTypeOK, Network, Establish, Refuse, Deliver, DeliverFin
  <2> QED
    BY <1>2, <2>1 DEF EndpointInv, RequestNoticed, serverVars
<1>3. CASE CreateEndpoint
  BY <1>3 DEF CreateEndpoint, EndpointInv, RequestNoticed
<1>4. CASE EndpointOnEvent
  BY <1>4 DEF EndpointOnEvent, EndpointReadable, EndpointWritable, EndpointInv, RequestNoticed
<1>5. CASE ReadRequest
  BY <1>5 DEF ReadRequest, EndpointInv, RequestNoticed
<1>6. CASE ReadEnd
  BY <1>6 DEF ReadEnd, EndpointClose, EndpointInv, RequestNoticed
<1>7. CASE ReadNothing
  BY <1>7 DEF ReadNothing, ErrorReported, EndpointInv, RequestNoticed, TcpTypeOK
<1>8. CASE ResponceWrite
  <2>1. /\ \E sent : Answered(sent)
        /\ request_bytes_ # <<>>
        /\ spc = "responce"
        /\ UNCHANGED <<up, clientFin, serverFin, serverEdge, reset, spc, outEvent, registered, open,
                       destroyed_>>
    BY <1>8 DEF ResponceWrite
  <2>2. \/ request_bytes_' = <<>> /\ mask' = {"EPOLLIN"}
        \/ request_bytes_' # <<>> /\ mask' = mask
    BY <2>1 DEF Answered
  <2>3. EndpointInv'
    BY <2>1, <2>2 DEF EndpointInv
  <2>4. RequestNoticed'
    BY <2>1 DEF RequestNoticed
  <2> QED
    BY <2>3, <2>4
<1>9. CASE ResponceFull \/ ResponceDone
  BY <1>9 DEF ResponceFull, ResponceDone, ResponceReturn, ErrorReported, EndpointInv, RequestNoticed
<1>10. CASE ResponceBroken \/ DeleteTask
  BY <1>10 DEF ResponceBroken, DeleteTask, EndpointInv, RequestNoticed, tcpVars
<1>11. CASE ServerExit
  BY <1>11 DEF ServerExit, EndpointInv, RequestNoticed
<1>12. CASE UNCHANGED vars
  BY <1>12 DEF EndpointInv, RequestNoticed, vars, serverVars, tcpVars
<1> QED
  BY <1>1, <1>2, <1>3, <1>4, <1>5, <1>6, <1>7, <1>8, <1>9, <1>10, <1>11, <1>12
  DEF Next, Over, ServerStep

-----------------------------------------------------------------------------
(* The player.                                                             *)

Playing == PlayerInv /\ PlaysFromBuffer /\ BufferBalanced

(* What does not touch the player or the count of segments keeps what is   *)
(* said of both.                                                           *)
LEMMA PlayingKept ==
  ASSUME Playing, UNCHANGED <<playerVars, segment_counter_>>, cpc = "exited" => cpc' = "exited"
  PROVE  Playing'
  BY DEF Playing, PlayerInv, PlaysFromBuffer, BufferBalanced, playerVars

(* Every step of the client keeps what is said of the player,              *)
LEMMA PlayerClient ==
  ASSUME TypeOK, DescriptorInv, Playing, ClientStep \/ Interrupt
  PROVE  Playing'
<1> USE DEF TypeOK, ClientTypeOK
<1>1. CASE ConnectInProgress \/ ConnectFails
  BY <1>1, PlayingKept DEF ConnectInProgress, ConnectFails, fetchVars
<1>2. CASE ConnectError
  <2>1. Fresh
    BY <1>2 DEF ConnectError, DescriptorInv
  <2> QED
    BY <1>2, <2>1
    DEF ConnectError, Fresh, Playing, PlayerInv, PlaysFromBuffer, BufferBalanced, fetchVars
<1>3. CASE OnEventError
  BY <1>3 DEF OnEventError, Playing, PlayerInv, PlaysFromBuffer, BufferBalanced, fetchVars
<1>4. CASE OnEventConnected
  <2>1. Fresh
    BY <1>4 DEF OnEventConnected, DescriptorInv
  <2> QED
    BY <1>4, <2>1
    DEF OnEventConnected, Fresh, Playing, PlayerInv, PlaysFromBuffer, BufferBalanced
<1>5. CASE OnEventReadable \/ ReadWouldBlock \/ ReadEof \/ NextTurn
  BY <1>5, PlayingKept DEF OnEventReadable, ReadWouldBlock, ReadEof, NextTurn, fetchVars
<1>6. CASE ReadPart
  BY <1>6, PlayingKept DEF ReadPart
<1>7. CASE ReadSegment
  <2>1. /\ segments_in_buffer_' = segments_in_buffer_ + 1
        /\ segment_counter_' = segment_counter_ + 1
        /\ playback_index_' = playback_index_
        /\ CheckBufferStatus(segments_in_buffer_ + 1)
        /\ segments_in_buffer_ + 1 \in Nat /\ segments_in_buffer_ + 1 > 0
        /\ cpc' # "exited" /\ cpc # "exited"
    BY <1>7 DEF ReadSegment, PlayerTypeOK
  <2>2. \/ player_state_' = "PLAY" /\ player_alarm_' = TRUE
        \/ player_state_ # "PAUSED" /\ UNCHANGED <<player_state_, player_alarm_>>
    <3>1. \/ player_state_' = "PLAY" /\ player_alarm_' = TRUE
          \/ /\ player_state_ = "PAUSED" => segments_in_buffer_ + 1 = 0
             /\ UNCHANGED <<player_state_, player_alarm_>>
      BY <2>1, CheckBufferStatusEffect
    <3>2. segments_in_buffer_ + 1 # 0
      BY DEF PlayerTypeOK
    <3> QED
      BY <3>1, <3>2
  <2>3. BufferBalanced'
    BY <2>1 DEF Playing, BufferBalanced, PlayerTypeOK, FetchTypeOK
  <2>4. CASE player_state_' = "PLAY" /\ player_alarm_' = TRUE
    BY <2>1, <2>3, <2>4 DEF Playing, PlayerInv, PlaysFromBuffer
  <2>5. CASE player_state_ # "PAUSED" /\ UNCHANGED <<player_state_, player_alarm_>>
    BY <2>1, <2>3, <2>5 DEF Playing, PlayerInv, PlaysFromBuffer
  <2> QED
    BY <2>2, <2>4, <2>5
<1>8. ASSUME NEW player \in BOOLEAN, NEW request \in BOOLEAN, ExecuteAlarms(player, request)
      PROVE  Playing'
  <2>1. segment_counter_' = segment_counter_ /\ cpc # "exited" /\ (player => player_alarm_)
    BY <1>8 DEF ExecuteAlarms
  <2>2. CASE player
    <3>1. PlayBackHandle /\ player_alarm_
      BY <1>8, <2>1, <2>2 DEF ExecuteAlarms
    <3>2. BufferBalanced'
      BY <2>1, <3>1, PlayBackHandleEffect DEF Playing, BufferBalanced
    <3>3. player_state_ \in {"PLAY", "DONE"}
      BY <3>1 DEF Playing, PlayerInv
    <3>4. CASE segments_in_buffer_' > 0 /\ player_alarm_' = TRUE /\ player_state_' = player_state_
      BY <3>2, <3>3, <3>4 DEF Playing, PlayerInv, PlaysFromBuffer
    <3>5. CASE segments_in_buffer_' = 0 /\ player_alarm_' = FALSE
               /\ player_state_' \in {"DONE", "PAUSED"}
      BY <3>2, <3>5 DEF Playing, PlayerInv, PlaysFromBuffer
    <3> QED
      BY <3>1, <3>4, <3>5, PlayBackHandleEffect
  <2>3. CASE ~player
    BY <1>8, <2>1, <2>3, PlayingKept DEF ExecuteAlarms
  <2> QED
    BY <2>2, <2>3
<1>9. CASE Terminate \/ Interrupt
  BY <1>9
  DEF Terminate, Interrupt, DeleteClient, Playing, PlayerInv, PlaysFromBuffer, BufferBalanced
<1> QED
  BY <1>1, <1>2, <1>3, <1>4, <1>5, <1>6, <1>7, <1>8, <1>9 DEF ClientStep

(* and so every step at all.                                               *)
LEMMA PlayerStep ==
  ASSUME TypeOK, DescriptorInv, Playing, [Next]_vars
  PROVE  Playing'
<1>1. CASE ClientStep \/ Interrupt
  BY <1>1, PlayerClient
<1>2. CASE UNCHANGED clientVars
  BY <1>2, PlayingKept DEF clientVars, fetchVars
<1> QED
  BY <1>1, <1>2 DEF Next, Over, vars

-----------------------------------------------------------------------------
(* Requests.                                                               *)

(* One number of at least n >= 1 and another come to one at most.          *)
LEMMA AtMostOne ==
  ASSUME NEW a \in Nat, NEW b \in Nat, NEW n \in 1 .. a, a + b <= 1
  PROVE  n = 1 /\ a = 1 /\ b = 0
OBVIOUS

(* A request appended to an empty queue is the only one in it.             *)
LEMMA AppendToEmpty ==
  ASSUME NEW n \in Nat
  PROVE  Len(Append(<<>>, n)) = 1 /\ Head(Append(<<>>, n)) = n
<1>1. <<>> \in Seq(Nat) /\ Len(<<>>) = 0
  OBVIOUS
<1> QED
  BY <1>1

(* If the one of two counts is not zero, and both make at most one, it is  *)
(* one.                                                                    *)
LEMMA OnlyOne ==
  ASSUME NEW m \in Nat, NEW n \in Nat, m + n <= 1, n # 0
  PROVE  n = 1 /\ m = 0
  OBVIOUS

(* What is true of any queue of requests.                                  *)
LEMMA QueueFacts ==
  ASSUME NEW q \in Seq(Nat)
  PROVE  /\ Len(q) \in Nat
         /\ q = <<>> <=> Len(q) = 0
         /\ q # <<>> => Head(q) \in Nat
         /\ Len(q) = 1 => Tail(q) = <<>>
<1>1. Len(q) \in Nat /\ (q = <<>> <=> Len(q) = 0) /\ (q # <<>> => Head(q) \in Nat)
  OBVIOUS
<1>2. ASSUME Len(q) = 1 PROVE Tail(q) = <<>>
  <2>1. q # <<>>
    BY <1>1, <1>2
  <2>2. Tail(q) \in Seq(Nat) /\ Len(Tail(q)) = Len(q) - 1
    BY <2>1, HeadTailProperties
  <2>3. \A s \in Seq(Nat) : s # <<>> => Len(s) # 0
    BY EmptySeq
  <2>4. Len(Tail(q)) = 0
    BY <1>2, <2>2
  <2> QED
    BY <2>2, <2>3, <2>4
<1> QED
  BY <1>1, <1>2

(* What is owed is nothing exactly when no request is on its way.          *)
LEMMA OwedBound ==
  ASSUME TypeOK, QueueInv
  PROVE  /\ Owed \in Nat
         /\ Owed = 0 => up = <<>> /\ request_bytes_ = <<>>
         /\ request_bytes_ = <<>> => sent_bytes_ = 0
         /\ up = <<>> /\ request_bytes_ = <<>> => Owed = 0
<1>1. /\ FirstOf(up) \in Nat
      /\ IF up = <<>> THEN FirstOf(up) = 0 ELSE FirstOf(up) > 0
  BY DEF QueueInv, FirstOf, TypeOK, TcpTypeOK
<1>2. /\ FirstOf(request_bytes_) \in Nat /\ sent_bytes_ \in Nat
      /\ IF request_bytes_ = <<>> THEN FirstOf(request_bytes_) = 0 /\ sent_bytes_ = 0
                                  ELSE sent_bytes_ < FirstOf(request_bytes_)
  BY DEF QueueInv, FirstOf, TypeOK, ServerTypeOK
<1> QED
  BY <1>1, <1>2 DEF Owed

(* The last byte of a segment leaves nothing behind.                       *)
LEMMA SegmentComplete ==
  ASSUME TypeOK, QueueInv, FetchInv, BytesConserved, ReadSegment, fdOpen
  PROVE  /\ index_ = segment_counter_ + 1
         /\ rcvbuf - BytesRead = 0
         /\ wire = 0
         /\ up = <<>> /\ request_bytes_ = <<>> /\ sent_bytes_ = 0
<1> USE DEF TypeOK, ClientTypeOK
<1>1. /\ BytesRead \in Nat /\ BytesRead <= rcvbuf
      /\ rcvbuf \in Nat /\ rcvbuf > 0 /\ wire \in Nat /\ read_bytes_ \in Nat
      /\ read_bytes_ + BytesRead = segment_bytes_
  BY BytesReadBound DEF ReadSegment, TcpTypeOK, FetchTypeOK
<1>2. Outstanding
  BY <1>1 DEF BytesConserved
<1>3. read_bytes_ + rcvbuf + wire + Owed = segment_bytes_
  BY <1>2 DEF BytesConserved
<1>4. Owed \in Nat
  BY OwedBound
<1>5. rcvbuf - BytesRead = 0 /\ wire = 0 /\ Owed = 0
  BY <1>1, <1>3, <1>4
<1>6. index_ = segment_counter_ + 1
  BY <1>2 DEF FetchInv
<1> QED
  BY <1>5, <1>6, OwedBound

(* The client never has a second request on its way.                       *)
LEMMA QueueClient ==
  ASSUME TypeOK, DescriptorInv, QueueInv, FetchInv, BytesConserved, ClientStep \/ Interrupt,
         UNCHANGED serverVars
  PROVE  QueueInv'
<1> USE DEF TypeOK, ClientTypeOK
(* A client without an answer to wait for finds both queues empty.         *)
<1>1. ASSUME NEW bytes \in Nat, bytes > 0, SendRequest(bytes),
             fdOpen => up = <<>> /\ request_bytes_ = <<>>
      PROVE  QueueInv'
  <2>1. CASE fdOpen
    <3>1. up' = Append(<<>>, bytes)
      BY <1>1, <2>1, SendRequestEffect
    <3>2. Len(up') = 1 /\ Head(up') = bytes
      BY <3>1, AppendToEmpty
    <3>3. Len(request_bytes_') = 0 /\ request_bytes_' = <<>> /\ sent_bytes_' = sent_bytes_
      BY <1>1, <2>1 DEF serverVars
    <3>4. sent_bytes_ = 0
      BY <1>1, <2>1 DEF QueueInv
    <3> QED
      BY <1>1, <3>2, <3>3, <3>4 DEF QueueInv
  <2>2. CASE ~fdOpen
    BY <1>1, <2>2, SendRequestEffect DEF QueueInv, serverVars
  <2> QED
    BY <2>1, <2>2
<1>2. CASE up' = up
  BY <1>2 DEF QueueInv, serverVars
<1>3. CASE OnEventConnected
  <2>1. Fresh
    BY <1>3 DEF OnEventConnected, DescriptorInv
  <2>2. index_ \in 0 .. Segments-1 /\ request_alarm_ \in BOOLEAN /\ RequestSegment
    BY <1>3, <2>1, CountsArePositive DEF OnEventConnected, Fresh, FetchTypeOK
  <2>3. up' = up \/ (segment_bytes_' \in Nat /\ segment_bytes_' > 0 /\ SendRequest(segment_bytes_'))
    BY <2>2, RequestSegmentEffect
  <2> QED
    BY <1>1, <1>2, <2>1, <2>3 DEF Fresh
<1>4. CASE ReadSegment /\ ~AllRequested
  <2>1. index_ \in 0 .. Segments-1 /\ request_alarm_ \in BOOLEAN /\ RequestSegment
    BY <1>4, CountsArePositive DEF ReadSegment, AllRequested, FetchTypeOK
  <2>2. up' = up \/ (segment_bytes_' \in Nat /\ segment_bytes_' > 0 /\ SendRequest(segment_bytes_'))
    BY <2>1, RequestSegmentEffect
  <2>3. fdOpen => up = <<>> /\ request_bytes_ = <<>>
    BY <1>4, SegmentComplete
  <2> QED
    BY <1>1, <1>2, <2>2, <2>3
<1>5. ASSUME NEW player \in BOOLEAN, NEW request \in BOOLEAN, ExecuteAlarms(player, request)
      PROVE  QueueInv'
  <2>1. CASE request
    <3>1. up' = up \/ SendRequest(segment_bytes_)
      BY <1>5, <2>1 DEF ExecuteAlarms, DelayRequestHandle
    <3>2. fdOpen => up = <<>> /\ request_bytes_ = <<>> /\ segment_bytes_ > 0
      BY <1>5, <2>1 DEF ExecuteAlarms, FetchInv, BytesConserved
    <3>3. CASE fdOpen
      BY <1>1, <1>2, <3>1, <3>2, <3>3 DEF FetchTypeOK
    <3>4. CASE ~fdOpen
      BY <1>2, <3>1, <3>4, SendRequestEffect
    <3> QED
      BY <3>3, <3>4
  <2>2. CASE ~request
    BY <1>2, <1>5, <2>2 DEF ExecuteAlarms
  <2> QED
    BY <2>1, <2>2
<1>6. CASE \/ ConnectInProgress \/ ConnectError \/ ConnectFails \/ OnEventError \/ OnEventReadable
           \/ ReadPart \/ ReadWouldBlock \/ ReadEof \/ Terminate \/ Interrupt \/ NextTurn
  BY <1>2, <1>6
  DEF ConnectInProgress, ConnectError, ConnectFails, OnEventError, OnEventReadable, ReadPart,
      ReadWouldBlock, ReadEof, Terminate, Interrupt, DeleteClient, NextTurn, tcpVars
<1>7. CASE ReadSegment /\ AllRequested
  BY <1>2, <1>7 DEF ReadSegment
<1> QED
  BY <1>3, <1>4, <1>5, <1>6, <1>7 DEF ClientStep

(* The endpoint's steps neither make nor lose a byte.                      *)
LEMMA ServerConserves ==
  ASSUME TypeOK, QueueInv, ServerStep \/ ServerExit
  PROVE  /\ QueueInv'
         /\ rcvbuf' = rcvbuf
         /\ wire' + Owed' = wire + Owed
         /\ up = <<>> /\ request_bytes_ = <<>> =>
              up' = <<>> /\ request_bytes_' = <<>> /\ wire' = wire
<1>0. /\ up \in Seq(Nat) /\ wire \in Nat /\ rcvbuf \in Nat
      /\ request_bytes_ \in Seq(Nat) /\ sent_bytes_ \in Nat
      /\ Len(up) \in Nat /\ Len(request_bytes_) \in Nat
  BY QueueFacts DEF TypeOK, TcpTypeOK, ServerTypeOK
<1>1. ASSUME UNCHANGED <<up, wire, rcvbuf, request_bytes_, sent_bytes_>>
      PROVE  /\ QueueInv'
             /\ rcvbuf' = rcvbuf
             /\ wire' + Owed' = wire + Owed
             /\ up = <<>> /\ request_bytes_ = <<>> =>
                  up' = <<>> /\ request_bytes_' = <<>> /\ wire' = wire
  BY <1>1 DEF QueueInv, Owed, FirstOf
<1>2. CASE \/ CreateEndpoint \/ EndpointOnEvent \/ ReadEnd \/ ReadNothing \/ ResponceFull
           \/ ResponceBroken \/ ResponceDone \/ DeleteTask \/ ServerExit
  BY <1>1, <1>2
  DEF CreateEndpoint, EndpointOnEvent, ReadEnd, ReadNothing, ResponceFull, ResponceBroken, ResponceDone,
      ResponceReturn, DeleteTask, ServerExit, tcpVars
<1>3. CASE ReadRequest
  <2>1. PICK n \in 1 .. Len(up) : up' = SubSeq(up, n + 1, Len(up))
    BY <1>3 DEF ReadRequest
  <2>0. Len(up) + Len(request_bytes_) <= 1
    BY <1>0 DEF QueueInv
  <2>2. n = 1 /\ Len(up) = 1 /\ Len(request_bytes_) = 0
    <3>1. Len(up) \in Nat /\ Len(request_bytes_) \in Nat /\ n \in 1 .. Len(up)
      BY <1>0, <2>1
    <3> QED
      BY <2>0, <3>1, AtMostOne, Zenon
  <2>3. request_bytes_ = <<>> /\ up # <<>> /\ sent_bytes_ = 0 /\ Head(up) \in Nat /\ Head(up) > 0
    BY <1>0, <2>2, QueueFacts DEF QueueInv
  <2>4. up' = <<>> /\ Len(up') = 0
    BY <1>0, <2>1, <2>2
  <2>5. request_bytes_' = Append(<<>>, Head(up)) /\ sent_bytes_' = 0 /\ wire' = wire /\ rcvbuf' = rcvbuf
    BY <1>3, <2>3 DEF ReadRequest
  <2>6. Len(request_bytes_') = 1 /\ Head(request_bytes_') = Head(up) /\ request_bytes_' # <<>>
    BY <2>3, <2>5, AppendToEmpty
  <2>7. QueueInv'
    BY <2>3, <2>4, <2>5, <2>6 DEF QueueInv
  <2>8. Owed = Head(up) /\ Owed' = Head(up)
    BY <2>3, <2>4, <2>5, <2>6 DEF Owed, FirstOf
  <2> QED
    BY <2>3, <2>5, <2>7, <2>8
<1>4. CASE ResponceWrite
  <2>1. request_bytes_ # <<>> /\ rcvbuf' = rcvbuf /\ up' = up
    BY <1>4 DEF ResponceWrite
  <2>2. /\ sent_bytes_ < Head(request_bytes_)
        /\ Head(request_bytes_) \in Nat
        /\ Tail(request_bytes_) = <<>>
        /\ up = <<>> /\ Len(request_bytes_) = 1
    <3>1. Len(request_bytes_) # 0 /\ Head(request_bytes_) \in Nat
      BY <1>0, <2>1, QueueFacts
    <3>2. Len(up) + Len(request_bytes_) <= 1
      BY DEF QueueInv
    <3>3. Len(request_bytes_) = 1 /\ Len(up) = 0
      <4>1. Len(request_bytes_) \in Nat /\ Len(request_bytes_) # 0 /\ Len(up) \in Nat
        BY <1>0, <3>1
      <4> QED
        BY <3>2, <4>1, OnlyOne
    <3>4. sent_bytes_ < Head(request_bytes_)
      BY <2>1 DEF QueueInv
    <3> QED
      BY <1>0, <3>1, <3>3, <3>4, QueueFacts
  <2>3. ResponceLeft \in Nat /\ ResponceLeft # 0
    BY <1>0, <2>2 DEF ResponceLeft
  <2>4. PICK n \in Nat : n > 0 /\ n <= ResponceLeft /\ wire' = wire + n /\ Answered(sent_bytes_ + n)
    <3>1. PICK n \in 1 .. Least(Least(BufferSize, ResponceLeft), Free) :
            wire' = wire + n /\ Answered(sent_bytes_ + n)
      BY <1>4, <2>3 DEF ResponceWrite
    <3>2. Free \in Int
      BY <1>0, CapacityIsPositive DEF Free
    <3>3. n \in Nat /\ n > 0 /\ n <= ResponceLeft
      BY <2>3, <3>1, <3>2, BufferIsPositive DEF Least
    <3> QED
      BY <3>1, <3>3
  <2>5. Owed = Head(request_bytes_) - sent_bytes_
    <3>1. FirstOf(up) = 0 /\ FirstOf(request_bytes_) = Head(request_bytes_)
      BY <2>1, <2>2 DEF FirstOf
    <3> QED
      BY <1>0, <2>2, <3>1 DEF Owed
  <2>6. CASE sent_bytes_ + n = Head(request_bytes_)
    <3>1. request_bytes_' = <<>> /\ Len(request_bytes_') = 0 /\ sent_bytes_' = 0
      <4>1. request_bytes_' = Tail(request_bytes_) /\ sent_bytes_' = 0
        BY <2>4, <2>6 DEF Answered
      <4> QED
        BY <2>2, <4>1
    <3>2. QueueInv'
      BY <2>1, <2>2, <3>1 DEF QueueInv
    <3>3. Owed' = 0
      BY <2>1, <2>2, <3>1 DEF Owed, FirstOf
    <3> QED
      BY <1>0, <2>1, <2>2, <2>4, <2>5, <2>6, <3>2, <3>3
  <2>7. CASE sent_bytes_ + n # Head(request_bytes_)
    <3>1. request_bytes_' = request_bytes_ /\ sent_bytes_' = sent_bytes_ + n
      BY <2>4, <2>7 DEF Answered
    <3>2. sent_bytes_' < Head(request_bytes_)
      BY <1>0, <2>2, <2>4, <2>7, <3>1 DEF ResponceLeft
    <3>3. QueueInv'
      BY <2>1, <2>2, <3>1, <3>2 DEF QueueInv
    <3>4. Owed' = Head(request_bytes_) - sent_bytes_ - n
      <4>1. FirstOf(up)' = 0 /\ FirstOf(request_bytes_)' = Head(request_bytes_)
        BY <2>1, <2>2, <3>1 DEF FirstOf
      <4> QED
        BY <1>0, <2>2, <2>4, <3>1, <4>1 DEF Owed
    <3> QED
      BY <1>0, <2>1, <2>2, <2>4, <2>5, <3>3, <3>4
  <2> QED
    BY <2>6, <2>7
<1> QED
  BY <1>2, <1>3, <1>4 DEF ServerStep


(* Nor does any other step put one there.                                  *)
LEMMA QueueStep ==
  ASSUME TypeOK, DescriptorInv, QueueInv, FetchInv, BytesConserved, [Next]_vars
  PROVE  QueueInv'
<1>1. CASE (ClientStep \/ Interrupt) /\ UNCHANGED serverVars
  BY <1>1, QueueClient
<1>2. CASE ServerStep \/ ServerExit
  BY <1>2, ServerConserves
<1>3. CASE Network /\ UNCHANGED serverVars
  BY <1>3 DEF Network, Establish, Refuse, Deliver, DeliverFin, QueueInv, serverVars
<1>4. CASE UNCHANGED vars
  BY <1>4 DEF QueueInv, vars, tcpVars, serverVars
<1> QED
  BY <1>1, <1>2, <1>3, <1>4 DEF Next, Over

-----------------------------------------------------------------------------
(* Bytes and samples.                                                      *)

Counted == FetchInv /\ BytesConserved

(* A step that touches nothing that is counted.                            *)
LEMMA CountedKept ==
  ASSUME Counted,
         UNCHANGED <<index_, segment_counter_, read_bytes_, segment_bytes_, transmissionStarts,
                     request_alarm_, up, wire, rcvbuf, request_bytes_, sent_bytes_>>,
         fdOpen' => fdOpen
  PROVE  Counted'
  BY DEF Counted, FetchInv, BytesConserved, Outstanding, Owed, FirstOf

(* A client without a connection: only the number of segments counts.      *)
LEMMA CountedClosed ==
  ASSUME ~fdOpen', segment_counter_' <= index_'
  PROVE  Counted'
  BY DEF Counted, FetchInv, BytesConserved

(* All counts agree before anything has been sent.                         *)
LEMMA CountedFresh ==
  ASSUME Fresh'
  PROVE  Counted'
<1>1. index_' = 0 /\ segment_counter_' = 0 /\ read_bytes_' = 0 /\ transmissionStarts' = 0
  BY DEF Fresh
<1>2. FetchInv'
  BY <1>1 DEF Fresh, FetchInv, Outstanding
<1>3. BytesConserved'
  BY <1>1 DEF Fresh, BytesConserved, Outstanding
<1> QED
  BY <1>2, <1>3 DEF Counted

(* A sum with one term is that term.                                       *)
LEMMA OnlyTerm ==
  ASSUME NEW n \in Nat
  PROVE  0 + 0 + 0 + n = n
  OBVIOUS

(* Asking for a segment when nothing of the last one is left.              *)
LEMMA CountedRequest ==
  ASSUME TypeOK, RequestSegment, UNCHANGED <<serverVars, wire>>,
         fdOpen, ~request_alarm_, index_ \in 0 .. Segments-1,
         up = <<>>, request_bytes_ = <<>>, sent_bytes_ = 0, wire = 0, rcvbuf' = 0,
         segment_counter_' = index_, transmissionStarts' = index_
  PROVE  Counted'
<1>1. /\ read_bytes_' = 0
      /\ segment_bytes_' \in Nat /\ segment_bytes_' > 0
      /\ \/ /\ request_alarm_' = TRUE
            /\ UNCHANGED <<up, serverEdge, index_>>
         \/ /\ request_alarm_' = request_alarm_
            /\ index_' = index_ + 1
            /\ SendRequest(segment_bytes_')
  BY RequestSegmentEffect DEF TypeOK, ClientTypeOK, FetchTypeOK
<1>2. request_bytes_' = <<>> /\ sent_bytes_' = 0 /\ wire' = 0
  BY DEF serverVars
<1>3. FirstOf(request_bytes_)' = 0
  BY <1>2 DEF FirstOf
<1>4. index_ \in Nat /\ index_ < Segments
  BY CountsArePositive
<1>5. CASE request_alarm_' = TRUE /\ UNCHANGED <<up, serverEdge, index_>>
  <2>1. ~Outstanding'
    BY <1>5 DEF Outstanding
  <2>2. FetchInv'
    BY <1>1, <1>4, <1>5, <2>1 DEF FetchInv
  <2>3. BytesConserved'
    BY <1>1, <1>2, <1>5, <2>1 DEF BytesConserved
  <2> QED
    BY <2>2, <2>3 DEF Counted
<1>6. CASE request_alarm_' = request_alarm_ /\ index_' = index_ + 1 /\ SendRequest(segment_bytes_')
  <2>1. index_' # segment_counter_' /\ index_' = segment_counter_' + 1
    BY <1>4, <1>6
  <2>2. Outstanding'
    BY <2>1 DEF Outstanding
  <2>3. up' = Append(<<>>, segment_bytes_')
    BY <1>6, SendRequestEffect
  <2>4. FirstOf(up)' = segment_bytes_'
    <3>1. Len(up') = 1 /\ Head(up') = segment_bytes_'
      BY <1>1, <2>3, AppendToEmpty
    <3>2. up' # <<>>
      BY <3>1, Len(<<>>) = 0
    <3> QED
      BY <3>1, <3>2 DEF FirstOf
  <2>5. Owed' = segment_bytes_'
    BY <1>1, <1>2, <1>3, <2>4 DEF Owed
  <2>6. FetchInv'
    BY <1>1, <1>4, <1>6, <2>1, <2>2 DEF FetchInv
  <2>7. BytesConserved'
    <3>1. read_bytes_' = 0 /\ wire' = 0 /\ segment_bytes_' \in Nat
      BY <1>1, <1>2
    <3>2. 0 + 0 + 0 + segment_bytes_' = segment_bytes_'
      BY <3>1, OnlyTerm
    <3>3. read_bytes_' + rcvbuf' + wire' + Owed' = segment_bytes_'
      BY <2>5, <3>1, <3>2, Zenon
    <3> QED
      BY <2>2, <3>3 DEF BytesConserved
  <2> QED
    BY <2>6, <2>7 DEF Counted
<1> QED
  BY <1>1, <1>5, <1>6

(* The segment that was waited for is complete.                            *)
LEMMA SegmentSamples ==
  ASSUME TypeOK, DescriptorInv, QueueInv, Counted, ReadSegment
  PROVE  /\ fdOpen
         /\ segment_counter_' = index_
         /\ transmissionStarts' = index_
         /\ ~request_alarm_
<1> USE DEF TypeOK, ClientTypeOK, FetchTypeOK
<1>1. fdOpen
  BY DEF ReadSegment, DescriptorInv
<1>2. index_ = segment_counter_ + 1
  BY <1>1, SegmentComplete DEF Counted
<1>3. Outstanding
  BY <1>2 DEF Outstanding
<1>4. ~request_alarm_
  BY <1>1, <1>3 DEF Counted, FetchInv
<1>5. transmissionStarts = segment_counter_ + (IF read_bytes_ = 0 THEN 0 ELSE 1)
  BY <1>1 DEF Counted, FetchInv
<1>6. transmissionStarts' = segment_counter_ + 1 /\ segment_counter_' = segment_counter_ + 1
  BY <1>5 DEF ReadSegment
<1> QED
  BY <1>1, <1>2, <1>4, <1>6

(* Every step of the client keeps the counts,                              *)
LEMMA CountedClient ==
  ASSUME TypeOK, DescriptorInv, QueueInv, Counted, ClientStep \/ Interrupt, UNCHANGED serverVars
  PROVE  Counted'
<1> USE DEF TypeOK, ClientTypeOK
<1>0. index_ \in Nat /\ segment_counter_ \in Nat /\ segment_counter_ <= index_
  BY CountsArePositive DEF FetchTypeOK, Counted, FetchInv
<1>1. CASE ConnectInProgress \/ ConnectError
  <2>1. Fresh
    BY <1>1 DEF ConnectInProgress, ConnectError, DescriptorInv
  <2>2. Fresh'
    BY <1>1, <2>1
    DEF ConnectInProgress, ConnectError, Fresh, fetchVars, playerVars, serverVars
  <2> QED
    BY <2>2, CountedFresh
<1>2. CASE OnEventError
  BY <1>0, <1>2, CloseEffect, CountedClosed DEF OnEventError, fetchVars
<1>3. CASE OnEventConnected
  <2>1. Fresh /\ fdOpen /\ RequestSegment /\ UNCHANGED wire
    BY <1>3 DEF OnEventConnected, DescriptorInv
  <2>2. /\ index_ = 0 /\ segment_counter_' = 0 /\ transmissionStarts' = 0 /\ rcvbuf' = 0
        /\ ~request_alarm_ /\ up = <<>> /\ request_bytes_ = <<>> /\ wire = 0
    BY <1>3, <2>1 DEF OnEventConnected, Fresh
  <2>3. sent_bytes_ = 0 /\ index_ \in 0 .. Segments-1
    BY <2>2, CountsArePositive DEF QueueInv
  <2> QED
    BY <2>1, <2>2, <2>3, CountedRequest
<1>4. CASE ReadPart
  <2>1. fdOpen
    BY <1>4 DEF ReadPart, DescriptorInv
  <2>2. /\ BytesRead \in Nat /\ BytesRead > 0 /\ BytesRead <= rcvbuf
        /\ rcvbuf \in Nat /\ rcvbuf > 0 /\ wire \in Nat /\ read_bytes_ \in Nat
        /\ segment_bytes_ \in Nat /\ transmissionStarts \in Nat
        /\ read_bytes_ + BytesRead # segment_bytes_
        /\ read_bytes_' = read_bytes_ + BytesRead
        /\ rcvbuf' = rcvbuf - BytesRead
    BY <1>4, BytesReadBound DEF ReadPart, TcpTypeOK, FetchTypeOK
  <2>3. UNCHANGED <<index_, segment_counter_, segment_bytes_, request_alarm_, up, wire,
                    request_bytes_, sent_bytes_, fdOpen>>
    BY <1>4 DEF ReadPart, fdVars, serverVars
  <2>4. Outstanding
    BY <2>1, <2>2 DEF Counted, BytesConserved
  <2>5. read_bytes_ + rcvbuf + wire + Owed = segment_bytes_
    BY <2>1, <2>4 DEF Counted, BytesConserved
  <2>6. Owed \in Nat /\ Owed' = Owed
    BY <2>3, OwedBound DEF Owed, FirstOf
  <2>7. read_bytes_' < segment_bytes_ /\ read_bytes_' > 0
    BY <2>2, <2>5, <2>6
  <2>8. transmissionStarts' = segment_counter_ + 1
    <3>1. transmissionStarts = segment_counter_ + (IF read_bytes_ = 0 THEN 0 ELSE 1)
      BY <2>1 DEF Counted, FetchInv
    <3> QED
      BY <1>0, <1>4, <3>1 DEF ReadPart
  <2>9. Outstanding' /\ index_ = segment_counter_ + 1 /\ ~request_alarm_'
    BY <2>1, <2>3, <2>4 DEF Outstanding, Counted, FetchInv
  <2>10. FetchInv'
    BY <1>0, <2>3, <2>7, <2>8, <2>9 DEF FetchInv
  <2>11. read_bytes_' + rcvbuf' + wire' + Owed' = segment_bytes_'
    BY <2>2, <2>3, <2>5, <2>6
  <2> QED
    BY <2>9, <2>10, <2>11 DEF Counted, BytesConserved
<1>5. CASE ReadSegment
  <2>1. /\ fdOpen /\ segment_counter_' = index_ /\ transmissionStarts' = index_
        /\ ~request_alarm_
    BY <1>5, SegmentSamples
  <2>2. CASE AllRequested
    <3>1. Close(rcvbuf - BytesRead) /\ index_' = index_
      BY <1>5, <2>2 DEF ReadSegment
    <3>2. ~fdOpen'
      BY <3>1, CloseEffect
    <3> QED
      BY <1>0, <2>1, <3>1, <3>2, CountedClosed
  <2>3. CASE ~AllRequested
    <3>1. /\ rcvbuf - BytesRead = 0 /\ wire = 0
          /\ up = <<>> /\ request_bytes_ = <<>> /\ sent_bytes_ = 0
      BY <1>5, <2>1, SegmentComplete DEF Counted
    <3>2. RequestSegment /\ rcvbuf' = rcvbuf - BytesRead /\ UNCHANGED wire
      BY <1>5, <2>3 DEF ReadSegment
    <3>3. index_ \in 0 .. Segments-1
      BY <2>3, CountsArePositive DEF AllRequested, FetchTypeOK
    <3> QED
      BY <2>1, <3>1, <3>2, <3>3, CountedRequest
  <2> QED
    BY <2>2, <2>3
<1>6. CASE ConnectFails \/ OnEventReadable \/ ReadWouldBlock \/ ReadEof \/ NextTurn
  BY <1>6, CountedKept
  DEF ConnectFails, OnEventReadable, ReadWouldBlock, ReadEof, NextTurn, tcpVars, fdVars,
      fetchVars, serverVars
<1>7. ASSUME NEW player \in BOOLEAN, NEW request \in BOOLEAN, ExecuteAlarms(player, request)
      PROVE  Counted'
  <2>1. /\ UNCHANGED <<wire, rcvbuf, fdOpen, segment_bytes_, read_bytes_, transmissionStarts,
                       segment_counter_, request_bytes_, sent_bytes_>>
    BY <1>7 DEF ExecuteAlarms, fdVars, serverVars
  <2>2. CASE ~request
    <3>1. UNCHANGED <<request_alarm_, up, index_>>
      BY <1>7, <2>2 DEF ExecuteAlarms
    <3> QED
      BY <2>1, <3>1, CountedKept
  <2>3. CASE request
    <3>1. request_alarm_ /\ request_alarm_' = FALSE /\ DelayRequestHandle(segment_bytes_)
      BY <1>7, <2>3 DEF ExecuteAlarms
    <3>2. CASE fdOpen
      <4>1. /\ ~Outstanding /\ index_ < Segments /\ segment_bytes_ > 0
            /\ transmissionStarts = segment_counter_ + (IF read_bytes_ = 0 THEN 0 ELSE 1)
        BY <3>1, <3>2 DEF Counted, FetchInv
      <4>2. /\ read_bytes_ = 0 /\ rcvbuf = 0 /\ wire = 0 /\ up = <<>> /\ request_bytes_ = <<>>
            /\ sent_bytes_ = 0
        BY <3>2, <4>1 DEF Counted, BytesConserved, QueueInv
      <4>3. index_' = index_ + 1 /\ SendRequest(segment_bytes_)
        BY <3>1, <4>1 DEF DelayRequestHandle
      <4>4. up' = Append(<<>>, segment_bytes_)
        BY <3>2, <4>2, <4>3, SendRequestEffect
      <4>5. FirstOf(up)' = segment_bytes_ /\ FirstOf(request_bytes_)' = 0
        <5>1. segment_bytes_ \in Nat
          BY DEF FetchTypeOK
        <5>2. Len(up') = 1 /\ Head(up') = segment_bytes_
          BY <4>4, <5>1, AppendToEmpty
        <5>3. up' # <<>>
          BY <5>2, Len(<<>>) = 0
        <5> QED
          BY <2>1, <4>2, <5>2, <5>3 DEF FirstOf
      <4>6. index_ = segment_counter_
        BY <4>1 DEF Outstanding
      <4>7. Outstanding' /\ index_' = segment_counter_' + 1
        BY <1>0, <2>1, <4>3, <4>6 DEF Outstanding
      <4>8. segment_bytes_ \in Nat
        BY DEF FetchTypeOK
      <4>9. Owed' = segment_bytes_
        BY <2>1, <4>2, <4>5, <4>8 DEF Owed
      <4>10. FetchInv'
        <5>1. /\ segment_counter_' <= index_'
              /\ read_bytes_' < segment_bytes_' /\ read_bytes_' = 0
              /\ transmissionStarts' = segment_counter_' + 0
          BY <1>0, <2>1, <4>1, <4>2, <4>7, <4>8
        <5> QED
          BY <3>1, <4>7, <5>1 DEF FetchInv
      <4>11. BytesConserved'
        BY <2>1, <4>2, <4>7, <4>8, <4>9 DEF BytesConserved
      <4> QED
        BY <4>10, <4>11 DEF Counted
    <3>3. CASE ~fdOpen
      <4>1. index_' = index_ \/ index_' = index_ + 1
        BY <3>1 DEF DelayRequestHandle
      <4>2. segment_counter_' <= index_'
        BY <1>0, <2>1, <4>1
      <4> QED
        BY <2>1, <3>3, <4>2, CountedClosed
    <3> QED
      BY <3>2, <3>3
  <2> QED
    BY <2>2, <2>3
<1>8. CASE Terminate \/ Interrupt
  BY <1>0, <1>8, CloseEffect, CountedClosed DEF Terminate, Interrupt, DeleteClient
<1> QED
  BY <1>1, <1>2, <1>3, <1>4, <1>5, <1>6, <1>7, <1>8 DEF ClientStep

(* What the server owes is a number.                                       *)
LEMMA OwedIsNat == TypeOK /\ QueueInv => Owed \in Nat
  BY OwedBound

(* every step of the server keeps them,                                    *)
LEMMA CountedServer ==
  ASSUME TypeOK, QueueInv, Counted, ServerStep \/ ServerExit, UNCHANGED clientVars
  PROVE  Counted'
<1>1. UNCHANGED <<index_, segment_counter_, read_bytes_, segment_bytes_, transmissionStarts,
                  request_alarm_, fdOpen>>
  BY DEF clientVars, fdVars, fetchVars
<1>2. FetchInv' /\ Outstanding' = Outstanding
  BY <1>1 DEF Counted, FetchInv, Outstanding
<1>3. /\ rcvbuf' = rcvbuf
      /\ wire' + Owed' = wire + Owed
      /\ QueueInv'
      /\ up = <<>> /\ request_bytes_ = <<>> => up' = <<>> /\ request_bytes_' = <<>> /\ wire' = wire
  BY ServerConserves
<1>4. TypeOK'
  BY ServerKeepsTypes, <1>1 DEF TypeOK, ClientTypeOK, FdTypeOK, PlayerTypeOK, FetchTypeOK,
    clientVars, fdVars, playerVars, fetchVars
<1>5. CASE fdOpen /\ Outstanding
  <2>1. read_bytes_ + rcvbuf + wire + Owed = segment_bytes_
    BY <1>5 DEF Counted, BytesConserved
  <2>2. /\ read_bytes_ \in Nat /\ rcvbuf \in Nat /\ wire \in Nat /\ Owed \in Nat
        /\ wire' \in Nat /\ Owed' \in Nat
    <3>1. Owed \in Nat
      BY OwedBound
    <3>2. Owed' \in Nat
      <4>1. (TypeOK /\ QueueInv => Owed \in Nat)'
        BY OwedIsNat, PTL
      <4> QED
        BY <1>3, <1>4, <4>1
    <3>3. wire' \in Nat
      BY <1>4 DEF TypeOK, TcpTypeOK
    <3>4. rcvbuf \in Nat /\ wire \in Nat
      BY DEF TypeOK, TcpTypeOK
    <3>5. read_bytes_ \in Nat
      BY DEF TypeOK, ClientTypeOK, FetchTypeOK
    <3> QED
      BY <3>1, <3>2, <3>3, <3>4, <3>5
  <2>3. read_bytes_' + rcvbuf' + wire' + Owed' = segment_bytes_'
    <3>1. read_bytes_' = read_bytes_ /\ segment_bytes_' = segment_bytes_
      BY <1>1
    <3>2. rcvbuf' = rcvbuf /\ wire' + Owed' = wire + Owed
      BY <1>3
    <3>3. read_bytes_ + rcvbuf + (wire' + Owed') = read_bytes_ + rcvbuf + (wire + Owed)
      BY <3>2
    <3>4. read_bytes_ + rcvbuf + (wire + Owed) = read_bytes_ + rcvbuf + wire + Owed
      BY ONLY <2>2
    <3>5. read_bytes_ + rcvbuf + (wire' + Owed') = read_bytes_ + rcvbuf + wire' + Owed'
      BY ONLY <2>2
    <3> QED
      BY <2>1, <3>1, <3>2, <3>3, <3>4, <3>5
  <2>4. Outstanding'
    BY <1>2, <1>5
  <2> QED
    BY <1>2, <2>3, <2>4 DEF Counted, BytesConserved
<1>6. CASE fdOpen /\ ~Outstanding
  <2>1. read_bytes_ = 0 /\ rcvbuf = 0 /\ wire = 0 /\ up = <<>> /\ request_bytes_ = <<>>
    BY <1>6 DEF Counted, BytesConserved
  <2> QED
    BY <1>1, <1>2, <1>3, <1>6, <2>1 DEF Counted, BytesConserved
<1>7. CASE ~fdOpen
  BY <1>1, <1>2, <1>7 DEF Counted, BytesConserved
<1> QED
  BY <1>5, <1>6, <1>7

(* Bytes that arrive are no longer under way.                              *)
LEMMA CountedNetwork ==
  ASSUME TypeOK, DescriptorInv, QueueInv, Counted, Network, UNCHANGED <<clientVars, serverVars>>
  PROVE  Counted'
<1>1. UNCHANGED <<index_, segment_counter_, read_bytes_, segment_bytes_, transmissionStarts,
                  request_alarm_, fdOpen, request_bytes_, sent_bytes_>>
  BY DEF clientVars, fdVars, fetchVars, serverVars
<1>2. CASE Establish \/ Refuse \/ DeliverFin
  BY <1>1, <1>2, CountedKept DEF Establish, Refuse, DeliverFin
<1>3. CASE Deliver
  <2>1. up' = up
    BY <1>3 DEF Deliver
  <2>2. FetchInv' /\ Outstanding' = Outstanding /\ Owed' = Owed
    BY <1>1, <2>1 DEF Counted, FetchInv, Outstanding, Owed, FirstOf
  <2>3. /\ wire \in Nat /\ rcvbuf \in Nat /\ Owed \in Nat
        /\ read_bytes_ \in Nat
    BY OwedBound DEF TypeOK, TcpTypeOK, ClientTypeOK, FetchTypeOK
  <2>4. CASE fdOpen
    <3>1. PICK n \in 1 .. wire : wire' = wire - n /\ rcvbuf' = rcvbuf + n
      BY <1>3, <2>4 DEF Deliver, DescriptorInv
    <3>2. Outstanding
      <4>1. wire # 0
        BY <2>3, <3>1
      <4> QED
        BY <2>4, <4>1 DEF Counted, BytesConserved
    <3>3. read_bytes_ + rcvbuf + wire + Owed = segment_bytes_
      BY <2>4, <3>2 DEF Counted, BytesConserved
    <3>4. read_bytes_' + rcvbuf' + wire' + Owed' = segment_bytes_'
      BY <1>1, <2>2, <2>3, <3>1, <3>3
    <3>5. Outstanding'
      BY <2>2, <3>2
    <3> QED
      BY <2>2, <3>4, <3>5 DEF Counted, BytesConserved
  <2>5. CASE ~fdOpen
    BY <1>1, <2>2, <2>5 DEF Counted, BytesConserved
  <2> QED
    BY <2>4, <2>5
<1> QED
  BY <1>2, <1>3 DEF Network

(* and so every step at all.                                               *)
LEMMA CountedStep ==
  ASSUME TypeOK, DescriptorInv, QueueInv, Counted, [Next]_vars
  PROVE  Counted'
<1>1. CASE (ClientStep \/ Interrupt) /\ UNCHANGED serverVars
  BY <1>1, CountedClient
<1>2. CASE (ServerStep \/ ServerExit) /\ UNCHANGED clientVars
  BY <1>2, CountedServer
<1>3. CASE Network /\ UNCHANGED <<clientVars, serverVars>>
  BY <1>3, CountedNetwork
<1>4. CASE UNCHANGED vars
  BY <1>4, CountedKept DEF vars, tcpVars, clientVars, fdVars, fetchVars, serverVars
<1> QED
  BY <1>1, <1>2, <1>3, <1>4 DEF Next, Over

-----------------------------------------------------------------------------
(* Events.                                                                 *)

(* Every step keeps the client aware of what it has to read.               *)
LEMMA DataNoticedStep ==
  ASSUME TypeOK, DescriptorInv, DataNoticed, [Next]_vars
  PROVE  DataNoticed'
<1>1. CASE ConnectInProgress \/ ConnectError
  BY <1>1 DEF ConnectInProgress, ConnectError, DescriptorInv, Fresh, DataNoticed
<1>2. CASE OnEventError \/ Terminate \/ Interrupt
  BY <1>2, CloseEffect DEF OnEventError, Terminate, Interrupt, DeleteClient, DataNoticed
<1>3. CASE OnEventConnected
  <2>1. rcvbuf' = 0
    BY <1>3 DEF OnEventConnected, DescriptorInv, Fresh
  <2> QED
    BY <2>1 DEF DataNoticed
<1>4. CASE OnEventReadable \/ ReadPart \/ ReadEof
  <2>1. cpc' = "read"
    BY <1>4 DEF OnEventReadable, ReadPart, ReadEof
  <2> QED
    BY <2>1 DEF DataNoticed
<1>12. CASE ReadWouldBlock
  <2>1. rcvbuf' = 0
    BY <1>12 DEF ReadWouldBlock, tcpVars
  <2> QED
    BY <2>1 DEF DataNoticed
<1>5. CASE ReadSegment
  <2>1. cpc' = "read" \/ Close(rcvbuf - BytesRead)
    BY <1>5 DEF ReadSegment
  <2> QED
    BY <2>1, CloseEffect DEF DataNoticed
<1>6. ASSUME UNCHANGED <<fdRegistered, rcvbuf, cpc>>, clientEdge => clientEdge'
      PROVE  DataNoticed'
  BY <1>6 DEF DataNoticed
<1>7. ASSUME UNCHANGED <<fdRegistered, rcvbuf, clientEdge>>, cpc # "read"
      PROVE  DataNoticed'
  BY <1>7 DEF DataNoticed
<1>8. CASE ConnectFails \/ NextTurn \/ \E player, request \in BOOLEAN : ExecuteAlarms(player, request)
  BY <1>7, <1>8 DEF ConnectFails, NextTurn, ExecuteAlarms, tcpVars, fdVars
<1>9. CASE (ServerStep \/ ServerExit) /\ UNCHANGED clientVars
  <2>1. CASE ServerStep
    <3>1. rcvbuf' = rcvbuf /\ clientEdge' = clientEdge
      BY <2>1
      DEF ServerStep, CreateEndpoint, EndpointOnEvent, ReadRequest, ReadEnd, ReadNothing,
          ResponceWrite, ResponceFull, ResponceBroken, ResponceDone, ResponceReturn, DeleteTask,
          tcpVars
    <3> QED
      BY <1>6, <1>9, <3>1 DEF clientVars, fdVars
  <2>2. CASE ServerExit
    <3>1. rcvbuf' = rcvbuf /\ clientEdge' = (clientEdge \/ conn = "syn")
      BY <2>2 DEF ServerExit
    <3>2. clientEdge => clientEdge'
      BY <3>1
    <3> QED
      BY <1>6, <1>9, <3>1, <3>2 DEF clientVars, fdVars
  <2> QED
    BY <1>9, <2>1, <2>2
<1>10. CASE Network /\ UNCHANGED clientVars
  <2>1. clientEdge'
    BY <1>10 DEF Network, Establish, Refuse, Deliver, DeliverFin
  <2> QED
    BY <2>1 DEF DataNoticed
<1>11. CASE UNCHANGED vars
  BY <1>6, <1>11 DEF vars, tcpVars, clientVars, fdVars
<1> QED
  BY <1>1, <1>2, <1>3, <1>4, <1>5, <1>8, <1>9, <1>10, <1>11, <1>12 DEF Next, ClientStep, Over

-----------------------------------------------------------------------------
(* The end of the video.                                                   *)

(* A connection that is lost stays lost.                                   *)
LEMMA HangUpStays ==
  ASSUME TypeOK, DescriptorInv, EndpointInv, HangUp, [Next]_vars
  PROVE  HangUp'
<1>1. CASE ClientStep \/ Interrupt
  <2>1. conn' = conn \/ cpc = "start"
    BY <1>1
    DEF ClientStep, ConnectInProgress, ConnectError, ConnectFails, OnEventError,
        OnEventConnected, OnEventReadable, ReadPart, ReadSegment, ReadWouldBlock, ReadEof,
        ExecuteAlarms, Terminate, Interrupt, DeleteClient, NextTurn, tcpVars
  <2>2. serverFin' = serverFin
    BY <1>1, ClientToServer DEF KeepsEndpoint
  <2>3. cpc = "start" => conn # "refused"
    BY DEF DescriptorInv
  <2> QED
    BY <2>1, <2>2, <2>3 DEF HangUp
<1>2. CASE ServerStep \/ ServerExit
  <2>1. serverFin = "arrived" => ~open /\ spc # "none"
    BY DEF EndpointInv
  <2>2. conn = "refused" => conn' = "refused"
    BY <1>2
    DEF ServerStep, ServerExit, CreateEndpoint, EndpointOnEvent, ReadRequest, ReadEnd,
        ReadNothing, ResponceWrite, ResponceFull, ResponceBroken, ResponceDone, ResponceReturn,
        DeleteTask, tcpVars
  <2>3. serverFin = "arrived" => serverFin' = "arrived"
    BY <1>2, <2>1
    DEF ServerStep, ServerExit, CreateEndpoint, EndpointOnEvent, ReadRequest, ReadEnd,
        EndpointClose, ReadNothing, ResponceWrite, ResponceFull, ResponceBroken, ResponceDone,
        ResponceReturn, DeleteTask, tcpVars
  <2> QED
    BY <2>2, <2>3 DEF HangUp
<1>3. CASE Network
  BY <1>3 DEF Network, Establish, Refuse, Deliver, DeliverFin, HangUp
<1>4. CASE UNCHANGED vars
  BY <1>4 DEF vars, tcpVars, HangUp
<1> QED
  BY <1>1, <1>2, <1>3, <1>4 DEF Next, Over

(* A term is no more than its sum.                                         *)
LEMMA LeastTerm ==
  ASSUME NEW m \in Nat, NEW n \in Nat
  PROVE  m <= m + n
  OBVIOUS

(* The player is done only when everything has been played.                *)
LEMMA DoneStep ==
  ASSUME TypeOK, DescriptorInv, EndpointInv, FetchInv, Playing, DoneMeansPlayed,
         TypeOK', FetchInv', Playing', [Next]_vars
  PROVE  DoneMeansPlayed'
<1>1. CASE HangUp
  BY <1>1, HangUpStays DEF DoneMeansPlayed
<1>2. ASSUME ~HangUp, player_state_' = "DONE", player_state_ = "DONE", UNCHANGED playback_index_
      PROVE  DoneMeansPlayed'
  BY <1>2 DEF DoneMeansPlayed
<1>3. CASE ~HangUp /\ UNCHANGED playerVars
  BY <1>2, <1>3 DEF playerVars, DoneMeansPlayed
<1>4. CASE ConnectError \/ OnEventConnected
  BY <1>4 DEF ConnectError, OnEventConnected, DoneMeansPlayed
<1>5. CASE OnEventError
  BY <1>1, <1>5 DEF OnEventError
<1>6. CASE ReadSegment /\ ~HangUp
  <2>1. CheckBufferStatus(segments_in_buffer_ + 1) /\ UNCHANGED playback_index_
    BY <1>6 DEF ReadSegment
  <2>2. player_state_' = "DONE" => player_state_ = "DONE"
    BY <2>1 DEF CheckBufferStatus
  <2> QED
    BY <1>2, <1>6, <2>1, <2>2 DEF DoneMeansPlayed
<1>7. ASSUME NEW player \in BOOLEAN, NEW request \in BOOLEAN, ExecuteAlarms(player, request), ~HangUp
      PROVE  DoneMeansPlayed'
  <2>1. CASE ~player
    BY <1>3, <1>7, <2>1 DEF ExecuteAlarms
  <2>2. CASE player
    <3>1. PlayBackHandle /\ player_alarm_
      BY <1>7, <2>2 DEF ExecuteAlarms
    <3>2. /\ playback_index_ \in Nat /\ segments_in_buffer_ \in Nat /\ playback_index_' \in Nat
          /\ segments_in_buffer_' \in Nat /\ segment_counter_ \in Nat /\ index_ \in Nat
          /\ segment_counter_' \in Nat /\ index_' \in Nat /\ index_ <= Segments /\ index_' <= Segments
      BY CountsArePositive DEF TypeOK, ClientTypeOK, PlayerTypeOK, FetchTypeOK
    <3>3. /\ playback_index_ + segments_in_buffer_ = segment_counter_
          /\ segments_in_buffer_ > 0
          /\ playback_index_' + segments_in_buffer_' = segment_counter_'
          /\ segment_counter_ <= index_ /\ segment_counter_' <= index_'
      BY <3>1 DEF Playing, BufferBalanced, PlaysFromBuffer, FetchInv
    <3>4. playback_index_ # Segments
      BY <3>2, <3>3, CountsArePositive
    <3>5. player_state_ # "DONE"
      BY <1>7, <3>4 DEF DoneMeansPlayed
    <3>6. player_state_' = "DONE" => playback_index_' >= Segments
      <4>1. \/ player_state_' = player_state_
            \/ player_state_' = "DONE" /\ playback_index_' >= Segments
            \/ player_state_' = "PAUSED"
        BY <3>1, PlayBackHandleEffect DEF TypeOK, ClientTypeOK
      <4> QED
        BY <3>5, <4>1
    <3>7. playback_index_' <= Segments
      <4>1. playback_index_' <= segment_counter_'
        <5>1. playback_index_' + segments_in_buffer_' = segment_counter_'
          BY <3>3
        <5>2. playback_index_' \in Nat /\ segments_in_buffer_' \in Nat
          BY <3>2
        <5> QED
          BY <5>1, <5>2, LeastTerm
      <4> QED
        BY <3>2, <3>3, <4>1, CountsArePositive
    <3>8. player_state_' = "DONE" => playback_index_' = Segments
      BY <3>2, <3>6, <3>7, CountsArePositive
    <3> QED
      BY <3>8 DEF DoneMeansPlayed
  <2> QED
    BY <2>1, <2>2
<1>8. CASE (Terminate \/ Interrupt) /\ ~HangUp
  BY <1>2, <1>8 DEF Terminate, Interrupt, DeleteClient, DoneMeansPlayed
<1>9. CASE \/ ConnectInProgress \/ ConnectFails \/ OnEventReadable \/ ReadPart \/ ReadWouldBlock
           \/ ReadEof \/ NextTurn
  BY <1>1, <1>3, <1>9
  DEF ConnectInProgress, ConnectFails, OnEventReadable, ReadPart, ReadWouldBlock, ReadEof, NextTurn
<1>10. CASE UNCHANGED clientVars
  BY <1>1, <1>3, <1>10 DEF clientVars
<1> QED
  BY <1>1, <1>4, <1>5, <1>6, <1>7, <1>8, <1>9, <1>10 DEF Next, ClientStep, Over, vars

-----------------------------------------------------------------------------
(* The inductive invariant, and the theorems.                              *)

(* The inductive invariant holds initially ...                             *)
LEMMA InitInv ==
  ASSUME Init
  PROVE  Inv
<1> USE DEF Init, TcpInit, ClientInit, ServerInit
<1>0. <<>> \in Seq(Nat)
  BY EmptySeq
<1>1. TcpTypeOK
  <2>1. up \in Seq(Nat)
    BY <1>0, Zenon
  <2> QED
    BY <2>1, Zenon DEF TcpTypeOK
<1>2. ServerTypeOK
  <2>1. request_bytes_ \in Seq(Nat)
    BY <1>0, Zenon
  <2>2. mask \subseteq {"EPOLLIN", "EPOLLOUT", "EPOLLET"}
    OBVIOUS
  <2> QED
    BY <2>1, <2>2, Zenon DEF ServerTypeOK
<1>3. ClientTypeOK
  <2>1. FdTypeOK
    BY DEF FdTypeOK
  <2>2. PlayerTypeOK
    BY Zenon DEF PlayerTypeOK
  <2>3. quality_ \in 0 .. Qualities-1 /\ index_ \in 0 .. Segments
    BY CountsArePositive
  <2>4. FetchTypeOK
    BY <2>3, Zenon DEF FetchTypeOK
  <2> QED
    BY <2>1, <2>2, <2>4 DEF ClientTypeOK
<1>4. Fresh
  BY DEF Fresh
<1>5. DescriptorInv
  BY <1>4 DEF DescriptorInv
<1>9. EndpointInv
  BY DEF EndpointInv
<1>10. PlayerInv
  BY DEF PlayerInv
<1>6. QueueInv
  <2>1. Len(up) = 0 /\ Len(request_bytes_) = 0
    OBVIOUS
  <2> QED
    BY <2>1 DEF QueueInv
<1>7. FetchInv /\ BytesConserved
  <2>1. segment_counter_ <= index_
    BY <1>4 DEF Fresh
  <2>2. ~fdOpen
    OBVIOUS
  <2> QED
    BY <2>1, <2>2, Zenon DEF FetchInv, BytesConserved
<1>8. DataNoticed /\ DoneMeansPlayed /\ RequestNoticed
  BY DEF DataNoticed, DoneMeansPlayed, RequestNoticed
<1>11. BufferBalanced
  BY DEF BufferBalanced
<1>12. PlaysFromBuffer
  BY DEF PlaysFromBuffer
<1> QED
  BY <1>1, <1>2, <1>3, <1>5, <1>6, <1>7, <1>8, <1>9, <1>10, <1>11, <1>12 DEF Inv, TypeOK

(* ... and every step keeps it.                                            *)
LEMMA NextInv ==
  ASSUME Inv, [Next]_vars
  PROVE  Inv'
<1> USE DEF Inv
<1>1. TypeOK'
  BY TypeStep
<1>2. DescriptorInv'
  BY DescriptorStep
<1>3. QueueInv'
  BY QueueStep
<1>4. FetchInv' /\ BytesConserved'
  BY CountedStep DEF Counted
<1>5. PlayerInv' /\ BufferBalanced' /\ PlaysFromBuffer'
  BY PlayerStep DEF Playing
<1>6. EndpointInv' /\ RequestNoticed'
  BY EndpointStep
<1>7. DataNoticed'
  BY DataNoticedStep
<1>8. DoneMeansPlayed'
  BY <1>1, <1>4, <1>5, DoneStep DEF Playing
<1> QED
  BY <1>1, <1>2, <1>3, <1>4, <1>5, <1>6, <1>7, <1>8

(* The inductive invariant holds in every state the session reaches: in    *)
(* the initial ones (Init), and across every step of the client, the       *)
(* endpoint and the network (Next).                                        *)
THEOREM Invariance == Spec => []Inv
<1>1. Init => Inv
  BY InitInv
<1>2. Inv /\ [Next]_vars => Inv'
  BY NextInv
<1> QED
  BY <1>1, <1>2, PTL DEF Spec

(* Type correctness: in particular index_ never exceeds the number of      *)
(* segments, so that RequestSegment and DelayRequestHandle index the video *)
(* within its bounds.                                                      *)
THEOREM TypeCorrect == Spec => []TypeOK
<1>1. Inv => TypeOK
  BY DEF Inv
<1> QED
  BY <1>1, Invariance, PTL

(* There is never more than one request on its way or being answered,      *)
(* although the server would parse only the first of several.              *)
THEOREM NoPipelining == Spec => []OneRequest
<1>1. Inv => OneRequest
  BY DEF Inv, QueueInv, OneRequest
<1> QED
  BY <1>1, Invariance, PTL

(* Every byte of the segment that was asked for is read, buffered, under   *)
(* way or still to be written: the equality by which OnReadEvent finds the *)
(* end of a segment cannot be overshot.                                    *)
THEOREM Conservation == Spec => []BytesConserved
<1>1. Inv => BytesConserved
  BY DEF Inv
<1> QED
  BY <1>1, Invariance, PTL

(* Data that arrived is being read or has an edge to come.                 *)
THEOREM NoDataOverlooked == Spec => []DataNoticed
<1>1. Inv => DataNoticed
  BY DEF Inv
<1> QED
  BY <1>1, Invariance, PTL

(* A delayed request was not sent, and there is a segment to ask for.      *)
THEOREM DelayIsExclusive == Spec => []DelayedNotSent
<1>1. Inv => DelayedNotSent
  BY DEF Inv, FetchInv, DelayedNotSent
<1> QED
  BY <1>1, Invariance, PTL

(* A segment that was received is in the buffer or has been played.        *)
THEOREM BufferIsBalanced == Spec => []BufferBalanced
<1>1. Inv => BufferBalanced
  BY DEF Inv
<1> QED
  BY <1>1, Invariance, PTL

(* The playback alarm agrees with the player's state and the buffer.       *)
THEOREM PlayerIsConsistent == Spec => [](AlarmIffPlaying /\ PlaysFromBuffer)
<1>1. Inv => PlaysFromBuffer
  BY DEF Inv
<1>2. Inv => AlarmIffPlaying
  BY DEF Inv, PlayerInv, AlarmIffPlaying
<1> QED
  BY <1>1, <1>2, Invariance, PTL

(* A client that is DONE has played the whole video or lost its server.    *)
THEOREM DoneIsJustified == Spec => []DoneMeansPlayed
<1>1. Inv => DoneMeansPlayed
  BY DEF Inv
<1> QED
  BY <1>1, Invariance, PTL

(* The endpoint waits for EPOLLOUT exactly while it owes a response, and   *)
(* what reached it while it is edge-triggered has an event to come.        *)
THEOREM EndpointListens == Spec => [](WritableWanted /\ RequestNoticed)
<1>1. Inv => RequestNoticed
  BY DEF Inv
<1>2. Inv => WritableWanted
  BY DEF Inv, EndpointInv, WritableWanted
<1> QED
  BY <1>1, <1>2, Invariance, PTL

(* An endpoint that is deleted is closed and unknown to the epoll server.  *)
THEOREM DeletionIsSafe == Spec => []DeletedIsUnreachable
<1>1. Inv => DeletedIsUnreachable
  BY DEF Inv, EndpointInv, DeletedIsUnreachable
<1> QED
  BY <1>1, Invariance, PTL

(* The throughput samples are whole whenever the algorithm is consulted.   *)
THEOREM SamplesAreAligned == Spec => SamplesAligned
<1> DEFINE Aligned == segment_counter_' # segment_counter_
                        => /\ segment_counter_' = index_
                           /\ transmissionStarts' = segment_counter_'
<1>1. ASSUME Inv, [Next]_vars
      PROVE  Aligned
  <2>1. CASE ReadSegment
    BY <1>1, <2>1, SegmentSamples DEF Inv, Counted
  <2>2. CASE UNCHANGED segment_counter_
    BY <2>2
  <2>3. CASE ClientStep \/ Interrupt
    BY <2>1, <2>2, <2>3
    DEF ClientStep, ConnectInProgress, ConnectError, ConnectFails, OnEventError,
        OnEventConnected, OnEventReadable, ReadPart, ReadWouldBlock, ReadEof, ExecuteAlarms,
        Terminate, Interrupt, DeleteClient, NextTurn, fetchVars
  <2>4. CASE UNCHANGED clientVars
    BY <2>2, <2>4 DEF clientVars, fetchVars
  <2> QED
    BY <1>1, <2>3, <2>4 DEF Next, Over, vars
<1>2. Inv /\ [Next]_vars => [Aligned]_vars
  BY <1>1
<1> QED
  BY <1>2, Invariance, PTL DEF Spec, SamplesAligned

(* A client that is neither deleted nor hung up on keeps its connection    *)
(* until it has every segment of the video.                                *)
THEOREM KeepsConnection == Spec => ClosedAfterLastSegment
<1> DEFINE Kept == fdOpen /\ ~fdOpen' => \/ segment_counter_' = Segments
                                         \/ HangUp
                                         \/ cpc' = "exited"
<1>1. ASSUME Inv, [Next]_vars
      PROVE  Kept
  <2>1. CASE ReadSegment
    <3>1. CASE AllRequested
      <4>1. segment_counter_' = index_
        BY <1>1, <2>1, SegmentSamples DEF Inv, Counted
      <4> QED
        BY <3>1, <4>1 DEF AllRequested
    <3>2. CASE ~AllRequested
      BY <2>1, <3>2 DEF ReadSegment, fdVars
    <3> QED
      BY <3>1, <3>2
  <2>2. CASE UNCHANGED fdOpen
    BY <2>2
  <2>3. CASE ClientStep \/ Interrupt
    BY <2>1, <2>2, <2>3
    DEF ClientStep, ConnectInProgress, ConnectError, ConnectFails, OnEventError,
        OnEventConnected, OnEventReadable, ReadPart, ReadWouldBlock, ReadEof, ExecuteAlarms,
        Terminate, Interrupt, DeleteClient, NextTurn, fdVars
  <2>4. CASE UNCHANGED clientVars
    BY <2>2, <2>4 DEF clientVars, fdVars
  <2> QED
    BY <1>1, <2>3, <2>4 DEF Next, Over, vars
<1>2. Inv /\ [Next]_vars => [Kept]_vars
  BY <1>1
<1> QED
  BY <1>2, Invariance, PTL DEF Spec, ClosedAfterLastSegment

(* Once the whole video has arrived, and nothing is left behind, nothing   *)
(* is asked for or written any more.                                       *)
LEMMA NothingComes ==
  ASSUME Inv, segment_counter_ = Segments, WholeVideoLeavesNothing, [Next]_vars
  PROVE  /\ up' = <<>> /\ request_bytes_' = <<>>
         /\ wire' = 0 /\ rcvbuf' = 0 /\ reset' = "none"
<1>1. up = <<>> /\ request_bytes_ = <<>> /\ wire = 0 /\ rcvbuf = 0 /\ reset = "none"
  BY DEF WholeVideoLeavesNothing
<1>2. index_ = Segments /\ ~(index_ < Segments) /\ Segments > 0
  BY CountsArePositive DEF Inv, TypeOK, ClientTypeOK, FetchTypeOK, FetchInv
<1>3. CASE (ClientStep \/ Interrupt) /\ UNCHANGED serverVars
  <2>1. UNCHANGED <<wire, rcvbuf, reset>>
    BY <1>1, <1>3, ClientUnread
  <2>2. ~OnEventConnected
    BY <1>2 DEF OnEventConnected, Inv, DescriptorInv, Fresh
  <2>3. ~ReadPart /\ ~ReadSegment
    BY <1>1 DEF ReadPart, ReadSegment
  <2>4. ASSUME NEW player \in BOOLEAN, NEW request \in BOOLEAN, ExecuteAlarms(player, request)
        PROVE  UNCHANGED up
    <3>1. DelayRequestHandle(segment_bytes_) => UNCHANGED up
      BY <1>2 DEF DelayRequestHandle
    <3> QED
      BY <2>4, <3>1 DEF ExecuteAlarms
  <2>5. UNCHANGED up
    BY <1>3, <2>2, <2>3, <2>4
    DEF ClientStep, ConnectInProgress, ConnectError, ConnectFails, OnEventError, OnEventReadable,
        ReadWouldBlock, ReadEof, Terminate, Interrupt, DeleteClient, NextTurn, tcpVars
  <2> QED
    BY <1>1, <1>3, <2>1, <2>5 DEF serverVars
<1>4. CASE ServerStep \/ ServerExit
  <2>1. Len(up) = 0
    BY <1>1
  <2>2. ~ReadRequest
    BY <2>1 DEF ReadRequest
  <2>3. CASE ServerExit
    <3>1. up' = up /\ request_bytes_' = request_bytes_
      BY <2>3, Zenon DEF ServerExit
    <3>2. wire' = wire /\ rcvbuf' = rcvbuf /\ reset' = reset
      BY <2>3, Zenon DEF ServerExit
    <3> QED
      BY <1>1, <3>1, <3>2
  <2>4. CASE CreateEndpoint \/ EndpointOnEvent \/ ReadEnd
    BY <1>1, <2>4 DEF CreateEndpoint, EndpointOnEvent, ReadEnd
  <2>5. CASE ReadNothing
    BY <1>1, <2>5 DEF ReadNothing, ErrorReported
  <2>6. CASE ResponceWrite \/ ResponceFull \/ ResponceBroken
    BY <1>1, <2>6 DEF ResponceWrite, ResponceFull, ResponceBroken
  <2>7. CASE ResponceDone \/ DeleteTask
    BY <1>1, <2>7 DEF ResponceDone, ResponceReturn, DeleteTask, tcpVars
  <2> QED
    BY <1>4, <2>2, <2>3, <2>4, <2>5, <2>6, <2>7 DEF ServerStep
<1>5. CASE Network /\ UNCHANGED <<clientVars, serverVars>>
  BY <1>1, <1>5 DEF Network, Establish, Refuse, Deliver, DeliverFin, serverVars
<1>6. CASE UNCHANGED vars
  BY <1>1, <1>6 DEF vars, tcpVars, serverVars
<1> QED
  BY <1>3, <1>4, <1>5, <1>6 DEF Next, Over

(* A client that has received the whole video leaves nothing behind: its   *)
(* close makes no RST, and the endpoint's write no SIGPIPE.                *)
THEOREM ViewersLeaveNothing == Spec => []WholeVideoLeavesNothing
<1>1. Init => WholeVideoLeavesNothing
  BY CountsArePositive DEF Init, ClientInit, WholeVideoLeavesNothing
<1>2. Inv /\ WholeVideoLeavesNothing /\ [Next]_vars => WholeVideoLeavesNothing'
  <2> SUFFICES ASSUME Inv, WholeVideoLeavesNothing, [Next]_vars, segment_counter_' = Segments
               PROVE  /\ up' = <<>> /\ request_bytes_' = <<>>
                      /\ wire' = 0 /\ rcvbuf' = 0 /\ reset' = "none"
    BY DEF WholeVideoLeavesNothing
  <2>1. CASE segment_counter_ = Segments
    BY <2>1, NothingComes
  <2>2. CASE ReadSegment /\ UNCHANGED serverVars
    <3>1. fdOpen
      BY <2>2 DEF ReadSegment, Inv, DescriptorInv
    <3>2. /\ index_ = segment_counter_ + 1
          /\ rcvbuf - BytesRead = 0 /\ wire = 0 /\ up = <<>> /\ request_bytes_ = <<>>
      BY <2>2, <3>1, SegmentComplete DEF Inv
    <3>3. AllRequested
      BY <2>2, <3>2 DEF ReadSegment, AllRequested
    <3>4. Close(0) /\ UNCHANGED <<up, wire>>
      BY <2>2, <3>2, <3>3 DEF ReadSegment
    <3>5. reset = "none"
      BY <3>1 DEF Inv, DescriptorInv, EndpointInv
    <3>6. rcvbuf' = 0 /\ reset' = "none"
      BY <3>1, <3>4, <3>5 DEF Close, ClientSocketClosed
    <3> QED
      BY <2>2, <3>2, <3>4, <3>6 DEF serverVars
  <2>3. CASE segment_counter_ # Segments /\ ~ReadSegment
    <3>1. CASE ClientStep \/ Interrupt
      BY <2>3, <3>1
      DEF fetchVars, ClientStep, ConnectInProgress, ConnectError, ConnectFails,
          OnEventError, OnEventConnected, OnEventReadable, ReadPart, ReadWouldBlock, ReadEof,
          ExecuteAlarms, Terminate, Interrupt, DeleteClient, NextTurn
    <3>2. CASE UNCHANGED clientVars
      BY <2>3, <3>2 DEF clientVars, fetchVars
    <3> QED
      BY <3>1, <3>2 DEF Next, Over, vars
  <2>4. ReadSegment => UNCHANGED serverVars
    BY DEF Next, Over, vars, clientVars, fetchVars, ReadSegment, Inv, TypeOK, ClientTypeOK, FetchTypeOK
  <2> QED
    BY <2>1, <2>2, <2>3, <2>4
<1> QED
  BY <1>1, <1>2, Invariance, PTL DEF Spec
=============================================================================
