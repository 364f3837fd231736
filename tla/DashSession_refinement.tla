----------------------- MODULE DashSession_refinement -----------------------
(***************************************************************************)
(* As long as the server does not go away, a session implements the stream *)
(* of module Streaming, for every video and every set of other faults.     *)
(***************************************************************************)
EXTENDS DashSession_proofs

-----------------------------------------------------------------------------
(* Why the player's state says how far the client is.                      *)

(* The state of the player goes with that of the connection, the playback  *)
(* alarm is set only while it plays, and only a client that is gone is     *)
(* ever sent a FIN.                                                        *)
StreamInv ==
  /\ cpc = "start" => player_state_ = "NOT_STARTED"
  /\ status_ = "CONNECTING" => player_state_ \in {"NOT_STARTED", "INIT_BUFFERING"}
  /\ status_ = "CONNECTED" =>
       /\ player_state_ \in {"INIT_BUFFERING", "PLAY", "PAUSED"}
       /\ conn = "established"
       /\ segment_counter_ < Segments
  /\ player_alarm_ => player_state_ = "PLAY"
  /\ player_state_ \in {"NOT_STARTED", "INIT_BUFFERING"} => playback_index_ = 0
  /\ serverFin # "none" => clientFin

(* Every segment is received before the video is over.                     *)
LEMMA ReceivedBound ==
  ASSUME Inv
  PROVE  segment_counter_ \in Nat /\ segment_counter_ <= Segments
<1>1. segment_counter_ \in Nat /\ index_ \in 0 .. Segments /\ segment_counter_ <= index_
  BY DEF Inv, TypeOK, ClientTypeOK, FetchTypeOK, FetchInv
<1> QED
  BY <1>1, CountsArePositive

(* A client whose connection is hung up on has asked for nothing yet.      *)
LEMMA HungUpBefore ==
  ASSUME Inv, StreamInv, OnEventError
  PROVE  /\ player_state_ \in {"NOT_STARTED", "INIT_BUFFERING"}
         /\ segment_counter_ = 0 /\ ~player_alarm_ /\ playback_index_ = 0
<1>1. fdOpen /\ ~clientFin /\ status_ # "DISCONNECT"
  BY DEF Inv, DescriptorInv, OnEventError, Event
<1>2. conn = "refused"
  BY <1>1 DEF StreamInv, OnEventError, HangUp
<1>3. status_ = "CONNECTING"
  BY <1>1, <1>2 DEF StreamInv, Inv, TypeOK, ClientTypeOK, FdTypeOK
<1> QED
  BY <1>3 DEF StreamInv, Inv, DescriptorInv, Fresh

(* What the last byte of a segment does to the player.                     *)
LEMMA SegmentReceived ==
  ASSUME Inv, StreamInv, ReadSegment
  PROVE  /\ player_state_ \in {"INIT_BUFFERING", "PLAY", "PAUSED"}
         /\ conn = "established"
         /\ segment_counter_ < Segments
         /\ segment_counter_' = segment_counter_ + 1
         /\ playback_index_' = playback_index_
         /\ player_state_' = IF player_state_ = "INIT_BUFFERING" /\ segment_counter_ + 1 < InitSegments
                             THEN player_state_ ELSE "PLAY"
         /\ player_alarm_' => player_state_' = "PLAY"
<1>1. status_ = "CONNECTED"
  BY DEF ReadSegment, Inv, DescriptorInv
<1>2. /\ player_state_ \in {"INIT_BUFFERING", "PLAY", "PAUSED"}
      /\ conn = "established"
      /\ segment_counter_ < Segments
      /\ player_state_ = "INIT_BUFFERING" => playback_index_ = 0
      /\ player_alarm_ => player_state_ = "PLAY"
  BY <1>1 DEF StreamInv
<1>3. /\ segments_in_buffer_ \in Nat /\ segment_counter_ \in Nat /\ playback_index_ \in Nat
      /\ playback_index_ + segments_in_buffer_ = segment_counter_
  BY DEF Inv, TypeOK, ClientTypeOK, PlayerTypeOK, FetchTypeOK, BufferBalanced
<1>4. /\ segment_counter_' = segment_counter_ + 1
      /\ playback_index_' = playback_index_
      /\ CheckBufferStatus(segments_in_buffer_ + 1)
  BY DEF ReadSegment
<1>5. CASE player_state_ = "INIT_BUFFERING"
  <2>1. segments_in_buffer_ = segment_counter_
    BY <1>2, <1>3, <1>5
  <2>2. segment_counter_ + 1 >= InitSegments <=> ~(segment_counter_ + 1 < InitSegments)
    BY <1>3, CountsArePositive
  <2> QED
    BY <1>2, <1>4, <1>5, <2>1, <2>2, Zenon DEF CheckBufferStatus
<1>6. CASE player_state_ = "PAUSED"
  <2>1. segments_in_buffer_ + 1 > 0
    BY <1>3
  <2> QED
    BY <1>2, <1>4, <1>6, <2>1 DEF CheckBufferStatus
<1>7. CASE player_state_ = "PLAY"
  BY <1>2, <1>4, <1>7 DEF CheckBufferStatus
<1> QED
  BY <1>2, <1>5, <1>6, <1>7

(* What playing a frame does to the player.                                *)
LEMMA FramePlayed ==
  ASSUME Inv, StreamInv, player_alarm_, PlayBackHandle
  PROVE  /\ player_state_ = "PLAY"
         /\ player_alarm_' => player_state_' = "PLAY"
         /\ \/ UNCHANGED <<player_state_, playback_index_>>
            \/ /\ playback_index_' = playback_index_ + 1
               /\ player_state_' = IF playback_index_ + 1 < segment_counter_ THEN "PLAY"
                                   ELSE IF segment_counter_ = Segments THEN "DONE" ELSE "PAUSED"
         /\ player_state_' \in {"PLAY", "PAUSED"} \/ segment_counter_ = Segments
<1>1. player_state_ = "PLAY" /\ segments_in_buffer_ > 0
  BY DEF StreamInv, Inv, PlaysFromBuffer
<1>2. /\ segments_in_buffer_ \in Nat /\ playback_index_ \in Nat
      /\ segment_counter_ \in Nat /\ segment_counter_ <= Segments /\ Segments \in Nat
      /\ playback_index_ + segments_in_buffer_ = segment_counter_
  BY ReceivedBound, CountsArePositive DEF Inv, TypeOK, ClientTypeOK, PlayerTypeOK, BufferBalanced
<1>3. CASE ~SegmentPlayed
  <2>1. segments_in_buffer_' = segments_in_buffer_ /\ playback_index_' = playback_index_
    BY <1>2, <1>3 DEF PlayBackHandle
  <2>2. player_state_' = player_state_
    BY <1>1, <2>1 DEF PlayBackHandle
  <2> QED
    BY <1>1, <2>1, <2>2
<1>4. CASE SegmentPlayed
  <2>1. /\ segments_in_buffer_' = segments_in_buffer_ - 1
        /\ playback_index_' = playback_index_ + 1
        /\ player_alarm_' = (segments_in_buffer_' > 0)
        /\ player_state_' = IF segments_in_buffer_' > 0 THEN player_state_
                                                        ELSE StateWhenEmpty(playback_index_')
    BY <1>4 DEF PlayBackHandle
  <2>2. segments_in_buffer_' > 0 <=> playback_index_ + 1 < segment_counter_
    BY <1>1, <1>2, <2>1
  <2>3. CASE playback_index_ + 1 < segment_counter_
    BY <1>1, <2>1, <2>2, <2>3, Zenon
  <2>4. CASE ~(playback_index_ + 1 < segment_counter_)
    <3>1. playback_index_ + 1 >= Segments <=> segment_counter_ = Segments
      BY <1>1, <1>2, <2>4
    <3>2. player_state_' = IF segment_counter_ = Segments THEN "DONE" ELSE "PAUSED"
      BY <2>1, <2>2, <2>4, <3>1, Zenon DEF StateWhenEmpty
    <3> QED
      BY <1>1, <2>1, <2>2, <2>4, <3>2, Zenon
  <2> QED
    BY <2>3, <2>4
<1> QED
  BY <1>3, <1>4

-----------------------------------------------------------------------------
(* Every step is one of the stream, or none.                               *)

(* The variables of the stream.                                            *)
Streamed == <<player_state_, segment_counter_, playback_index_>>

(* A step of module Streaming, or a stutter.                               *)
StreamStep == [Stream!Next]_(Stream!streamVars)

(* No step of the stream is taken when its variables do not change.        *)
LEMMA Stutter == UNCHANGED Streamed => StreamStep
  BY DEF StreamStep, Streamed, Stream!streamVars

(* A step that leaves the player, the counter and the connection alone     *)
(* keeps the invariant.                                                    *)
LEMMA StreamKept ==
  ASSUME StreamInv, cpc' # "start" \/ cpc' = cpc,
         UNCHANGED <<player_state_, segment_counter_, playback_index_, player_alarm_,
                     status_, conn, serverFin, clientFin>>
  PROVE  StreamInv' /\ StreamStep
  BY Stutter DEF StreamInv, Streamed

(* So does one that closes the client's descriptor.                        *)
LEMMA StreamClosed ==
  ASSUME Inv, NEW unread, Close(unread), cpc' # "start", serverFin' = serverFin,
         StreamInv,
         player_alarm_' => player_state_' = "PLAY",
         player_state_' \in {"NOT_STARTED", "INIT_BUFFERING"} => playback_index_' = 0
  PROVE  StreamInv'
<1>1. status_' = "DISCONNECT" /\ (clientFin => clientFin')
  <2>1. CASE fdOpen
    BY <2>1, CloseEffect
  <2>2. CASE ~fdOpen
    BY <2>2, CloseEffect DEF Inv, DescriptorInv
  <2> QED
    BY <2>1, <2>2
<1> QED
  BY <1>1 DEF StreamInv

(* A step of the client.                                                   *)
LEMMA StreamClient ==
  ASSUME Inv, StreamInv, ClientStep \/ Interrupt
  PROVE  StreamInv' /\ StreamStep
<1>1. CASE ConnectInProgress
  <2>1. /\ UNCHANGED Streamed
        /\ player_state_ = "NOT_STARTED" /\ player_alarm_' = player_alarm_
        /\ status_' = "CONNECTING" /\ cpc' = "poll"
        /\ UNCHANGED <<serverFin, clientFin>>
    BY <1>1 DEF ConnectInProgress, StreamInv, Streamed, playerVars, fetchVars
  <2> QED
    BY <2>1, Stutter DEF StreamInv, Streamed
<1>2. CASE ConnectError
  <2>1. /\ player_state_ = "NOT_STARTED" /\ player_state_' = "INIT_BUFFERING"
        /\ UNCHANGED <<segment_counter_, playback_index_, player_alarm_, serverFin, clientFin>>
        /\ status_' = "CONNECTING" /\ cpc' = "poll"
    BY <1>2 DEF ConnectError, StreamInv, fetchVars
  <2>2. Stream!Open
    BY <2>1 DEF Stream!Open
  <2>3. StreamStep
    BY <2>2 DEF StreamStep, Stream!Next
  <2>4. playback_index_ = 0 /\ ~player_alarm_
    BY <2>1 DEF StreamInv
  <2> QED
    BY <2>1, <2>3, <2>4 DEF StreamInv
<1>3. CASE ConnectFails \/ OnEventReadable \/ ReadPart \/ ReadWouldBlock \/ ReadEof \/ NextTurn
  <2>1. /\ cpc' # "start"
        /\ UNCHANGED <<player_state_, segment_counter_, playback_index_, player_alarm_,
                       status_, conn, serverFin, clientFin>>
    BY <1>3 DEF ConnectFails, OnEventReadable, ReadPart, ReadWouldBlock, ReadEof, NextTurn,
                tcpVars, playerVars, fetchVars, fdVars, Inv, DescriptorInv
  <2> QED
    BY <2>1, StreamKept
<1>4. CASE OnEventError
  <2>1. /\ player_state_ \in {"NOT_STARTED", "INIT_BUFFERING"}
        /\ segment_counter_ = 0 /\ ~player_alarm_
    BY <1>4, HungUpBefore
  <2>2. /\ Close(rcvbuf) /\ cpc' = "alarms" /\ player_state_' = "DONE"
        /\ UNCHANGED <<segment_counter_, playback_index_, player_alarm_, serverFin>>
    BY <1>4 DEF OnEventError, fetchVars
  <2>3. Stream!Fail
    BY <2>1, <2>2 DEF Stream!Fail
  <2>4. StreamStep
    BY <2>3 DEF StreamStep, Stream!Next
  <2> QED
    BY <2>1, <2>2, <2>4, StreamClosed
<1>5. CASE OnEventConnected
  <2>1. /\ status_ = "CONNECTING" /\ Fresh /\ fdOpen
        /\ player_state_ \in {"NOT_STARTED", "INIT_BUFFERING"}
    BY <1>5 DEF OnEventConnected, Inv, DescriptorInv, StreamInv
  <2>2. conn = "established"
    BY <1>5, <2>1 DEF OnEventConnected, Event, Fresh
  <2>3. /\ status_' = "CONNECTED" /\ player_state_' = "INIT_BUFFERING" /\ cpc' = "alarms"
        /\ UNCHANGED <<segment_counter_, playback_index_, player_alarm_, conn, serverFin, clientFin>>
    BY <1>5 DEF OnEventConnected
  <2>4. segment_counter_ = 0 /\ playback_index_ = 0 /\ ~player_alarm_ /\ 0 < Segments
    BY <2>1, CountsArePositive DEF Fresh
  <2>5. StreamStep
    <3>1. CASE player_state_ = "NOT_STARTED"
      <4>1. Stream!Open
        BY <2>3, <3>1 DEF Stream!Open
      <4> QED
        BY <4>1 DEF StreamStep, Stream!Next
    <3>2. CASE player_state_ = "INIT_BUFFERING"
      BY <2>3, <3>2, Stutter DEF Streamed
    <3> QED
      BY <2>1, <3>1, <3>2
  <2> QED
    BY <2>2, <2>3, <2>4, <2>5 DEF StreamInv
<1>6. CASE ReadSegment
  <2>1. /\ player_state_ \in {"INIT_BUFFERING", "PLAY", "PAUSED"}
        /\ conn = "established"
        /\ segment_counter_ < Segments
        /\ segment_counter_' = segment_counter_ + 1
        /\ playback_index_' = playback_index_
        /\ player_state_' = IF player_state_ = "INIT_BUFFERING" /\ segment_counter_ + 1 < InitSegments
                            THEN player_state_ ELSE "PLAY"
        /\ player_alarm_' => player_state_' = "PLAY"
    BY <1>6, SegmentReceived
  <2>2. Stream!Receive
    BY <2>1, Zenon DEF Stream!Receive
  <2>3. StreamStep
    BY <2>2 DEF StreamStep, Stream!Next
  <2>4. /\ cpc = "read" /\ status_ = "CONNECTED" /\ conn' = conn /\ serverFin' = serverFin
        /\ segment_counter_' = index_
    BY <1>6, SegmentSamples DEF ReadSegment, Inv, DescriptorInv, Counted
  <2>5. player_state_' \in {"NOT_STARTED", "INIT_BUFFERING"} => playback_index_' = 0
    BY <2>1 DEF StreamInv
  <2>6. CASE AllRequested
    <3>1. Close(rcvbuf - BytesRead) /\ cpc' = "alarms"
      BY <1>6, <2>6 DEF ReadSegment
    <3> QED
      BY <2>1, <2>3, <2>4, <2>5, <3>1, StreamClosed
  <2>7. CASE ~AllRequested
    <3>1. cpc' = cpc /\ status_' = status_ /\ clientFin' = clientFin
      BY <1>6, <2>7 DEF ReadSegment, fdVars
    <3>2. index_ < Segments
      <4>1. index_ \in 0 .. Segments /\ index_ # Segments
        BY <2>7 DEF AllRequested, Inv, TypeOK, ClientTypeOK, FetchTypeOK
      <4> QED
        BY <4>1, CountsArePositive
    <3>3. player_state_' \in {"INIT_BUFFERING", "PLAY", "PAUSED"}
      BY <2>1
    <3>4. segment_counter_' < Segments
      BY <2>4, <3>2
    <3> QED
      BY <2>1, <2>3, <2>4, <2>5, <3>1, <3>3, <3>4 DEF StreamInv
  <2> QED
    BY <2>6, <2>7
<1>7. ASSUME NEW player \in BOOLEAN, NEW request \in BOOLEAN, ExecuteAlarms(player, request)
      PROVE  StreamInv' /\ StreamStep
  <2>1. /\ cpc' = "check"
        /\ UNCHANGED <<segment_counter_, conn, serverFin, clientFin, status_>>
    BY <1>7 DEF ExecuteAlarms, fdVars
  <2>2. CASE ~player
    <3>1. UNCHANGED playerVars
      BY <1>7, <2>2 DEF ExecuteAlarms
    <3> QED
      BY <2>1, <3>1, StreamKept DEF playerVars
  <2>3. CASE player
    <3>1. /\ player_state_ = "PLAY"
          /\ player_alarm_' => player_state_' = "PLAY"
          /\ \/ UNCHANGED <<player_state_, playback_index_>>
             \/ /\ playback_index_' = playback_index_ + 1
                /\ player_state_' = IF playback_index_ + 1 < segment_counter_ THEN "PLAY"
                                    ELSE IF segment_counter_ = Segments THEN "DONE" ELSE "PAUSED"
          /\ player_state_' \in {"PLAY", "PAUSED"} \/ segment_counter_ = Segments
      BY <1>7, <2>3, FramePlayed DEF ExecuteAlarms
    <3>2. StreamStep
      <4>1. CASE UNCHANGED <<player_state_, playback_index_>>
        BY <2>1, <4>1, Stutter DEF Streamed
      <4>2. CASE ~UNCHANGED <<player_state_, playback_index_>>
        <5>1. Stream!Play
          BY <2>1, <3>1, <4>2, Zenon DEF Stream!Play
        <5> QED
          BY <5>1 DEF StreamStep, Stream!Next
      <4> QED
        BY <4>1, <4>2
    <3>3. player_state_' \in {"PLAY", "PAUSED", "DONE"}
      BY <3>1
    <3>4. ~(Segments < Segments)
      BY CountsArePositive
    <3>5. status_ = "CONNECTED" => player_state_' \in {"PLAY", "PAUSED"}
      BY <3>1, <3>4 DEF StreamInv
    <3>6. status_ # "CONNECTING"
      BY <3>1 DEF StreamInv
    <3> QED
      BY <2>1, <3>1, <3>2, <3>3, <3>5, <3>6 DEF StreamInv
  <2> QED
    BY <2>2, <2>3
<1>8. CASE Terminate \/ Interrupt
  <2>1. /\ Close(rcvbuf) /\ cpc' = "exited" /\ player_alarm_' = FALSE
        /\ UNCHANGED Streamed /\ serverFin' = serverFin
    BY <1>8 DEF Terminate, Interrupt, DeleteClient, Streamed
  <2>2. player_state_' \in {"NOT_STARTED", "INIT_BUFFERING"} => playback_index_' = 0
    BY <2>1 DEF StreamInv, Streamed
  <2> QED
    BY <2>1, <2>2, StreamClosed, Stutter
<1> QED
  BY <1>1, <1>2, <1>3, <1>4, <1>5, <1>6, <1>7, <1>8 DEF ClientStep

(* A step of the endpoint that is not its server's exit.                   *)
LEMMA StreamServer ==
  ASSUME Inv, StreamInv, ServerStep, UNCHANGED clientVars
  PROVE  StreamInv' /\ StreamStep
<1>1. UNCHANGED Streamed /\ UNCHANGED <<cpc, status_, player_alarm_>>
  BY DEF clientVars, playerVars, fetchVars, fdVars, Streamed
<1>2. UNCHANGED <<conn, clientFin>>
  BY DEF ServerStep, CreateEndpoint, EndpointOnEvent, ReadRequest, ReadEnd, ReadNothing,
         ResponceWrite, ResponceFull, ResponceBroken, ResponceDone, ResponceReturn, DeleteTask,
         tcpVars
<1>3. serverFin' = serverFin \/ clientFin
  BY DEF ServerStep, CreateEndpoint, EndpointOnEvent, ReadRequest, ReadEnd, ReadNothing,
         ResponceWrite, ResponceFull, ResponceBroken, ResponceDone, ResponceReturn, DeleteTask,
         tcpVars
<1> QED
  BY <1>1, <1>2, <1>3, Stutter DEF StreamInv, Streamed

(* A step of the network.                                                  *)
LEMMA StreamNetwork ==
  ASSUME Inv, StreamInv, Network, UNCHANGED clientVars
  PROVE  StreamInv' /\ StreamStep
<1>1. UNCHANGED Streamed /\ UNCHANGED <<cpc, status_, player_alarm_>>
  BY DEF clientVars, playerVars, fetchVars, fdVars, Streamed
<1>2. clientFin' = clientFin /\ (conn = "established" => conn' = conn)
  BY DEF Network, Establish, Refuse, Deliver, DeliverFin
<1>3. serverFin = "none" => serverFin' = "none"
  BY DEF Network, Establish, Refuse, Deliver, DeliverFin
<1> QED
  BY <1>1, <1>2, <1>3, Stutter DEF StreamInv, Streamed

(* As long as the server does not go away, the client's sockets, alarms    *)
(* and handlers implement module Streaming: AsynConnect or OnConnected     *)
(* opens the stream, the last byte of a segment receives, the last frame   *)
(* of a segment plays, a refused connection fails, and no other handler    *)
(* changes what the viewer sees.                                           *)
THEOREM SessionImplementsStreaming ==
  ASSUME "server exit" \notin Faults
  PROVE  Spec => ImplementsStreaming
<1>1. Init => StreamInv /\ Stream!Init
  BY DEF Init, TcpInit, ClientInit, StreamInv, Stream!Init
<1>2. Inv /\ StreamInv /\ [Next]_vars => StreamInv' /\ StreamStep
  <2> SUFFICES ASSUME Inv, StreamInv, [Next]_vars
               PROVE  StreamInv' /\ StreamStep
    OBVIOUS
  <2>1. CASE ClientStep \/ Interrupt
    BY <2>1, StreamClient
  <2>2. CASE ServerStep /\ UNCHANGED clientVars
    BY <2>2, StreamServer
  <2>3. ~ServerExit
    BY DEF ServerExit
  <2>4. CASE Network /\ UNCHANGED clientVars
    BY <2>4, StreamNetwork
  <2>5. CASE UNCHANGED vars
    BY <2>5, StreamKept DEF vars, tcpVars, clientVars, playerVars, fetchVars, fdVars
  <2> QED
    BY <2>1, <2>2, <2>3, <2>4, <2>5 DEF Next, Over
<1> QED
  BY <1>1, <1>2, Invariance, PTL DEF Spec, ImplementsStreaming, Stream!Spec, StreamStep

(* Only a server that goes away makes a client that is DONE go on: without *)
(* one the loop of dash_client_test.cc finds IsTerminated, whatever else   *)
(* fails and however PlayBackHandle and OnEvent share a turn.              *)
THEOREM DoneStaysDone ==
  ASSUME "server exit" \notin Faults
  PROVE  Spec => DoneIsFinal
<1>1. [Stream!Next]_(Stream!streamVars) => [ player_state_ = "DONE" => player_state_' = "DONE" ]_vars
  BY DEF Stream!Next, Stream!Open, Stream!Receive, Stream!Play, Stream!Fail, Stream!streamVars
<1> QED
  BY <1>1, SessionImplementsStreaming, PTL DEF ImplementsStreaming, Stream!Spec, DoneIsFinal
=============================================================================
