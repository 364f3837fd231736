------------------------ MODULE DashSession_progress ------------------------
(***************************************************************************)
(* As long as the server does not go away, a session never gets stuck: the *)
(* next segment is always on its way, and when neither program nor network *)
(* has anything left to do the session is over.  That is what remains of   *)
(* RequestAnswered and SessionEnds without fairness, for every video,      *)
(* capacity, buffer and set of other faults.                               *)
(***************************************************************************)
EXTENDS DashSession_refinement

-----------------------------------------------------------------------------
(* Why somebody can go on.                                                 *)

(* An open descriptor is registered and has a connection to wait for, the  *)
(* edge of which has not been taken; a connected client that waits for no  *)
(* answer has delayed its request.                                         *)
ReachInv ==
  /\ fdOpen => fdRegistered /\ conn # "none"
  /\ conn # "none" => fdOpen \/ clientFin
  /\ cpc = "exited" => ~fdOpen
  /\ status_ = "CONNECTING" /\ conn \in {"established", "refused"} => clientEdge
  /\ status_ = "CONNECTED" /\ ~Outstanding => request_alarm_

(* No turn begins with a client that is DONE; one that has closed has all  *)
(* segments; and a player waits only for segments that are still to come.  *)
StageInv ==
  /\ cpc = "poll" => player_state_ # "DONE"
  /\ status_ = "DISCONNECT" /\ cpc \notin {"start", "exited"}
       => segment_counter_ = Segments \/ player_state_ = "DONE"
  /\ player_state_ = "PAUSED" => playback_index_ < Segments
  /\ player_state_ = "INIT_BUFFERING" => segment_counter_ = 0 \/ segment_counter_ < InitSegments
  /\ player_state_ = "NOT_STARTED" => status_ = "CONNECTING" \/ cpc \in {"start", "exited"}

(* An endpoint listens for requests until it is to be deleted, or its      *)
(* server has ended: neither is so before the client has closed.           *)
ServingInv ==
  spc # "none" =>
    /\ "EPOLLIN" \in mask
    /\ registered \/ destroyed_ \/ spc = "exited"
    /\ ~clientFin => registered /\ ~destroyed_

ProgressInv == ReachInv /\ StageInv /\ ServingInv

-----------------------------------------------------------------------------
(* The steps of the client.                                                *)

(* The client's FIN is never taken back.                                   *)
LEMMA ClientFinStays ==
  ASSUME Inv, ClientStep \/ Interrupt, clientFin
  PROVE  clientFin'
  BY CloseEffect
  DEF ClientStep, Interrupt, ConnectInProgress, ConnectError, ConnectFails, OnEventError,
      OnEventConnected, OnEventReadable, ReadPart, ReadSegment, ReadWouldBlock, ReadEof,
      ExecuteAlarms, Terminate, DeleteClient, NextTurn, tcpVars, Close, ClientSocketClosed

(* What the client does changes the endpoint only through that FIN.        *)
LEMMA ServingClient ==
  ASSUME Inv, ServingInv, ClientStep \/ Interrupt, UNCHANGED serverVars
  PROVE  ServingInv'
<1>1. clientFin => clientFin'
  BY ClientFinStays
<1> QED
  BY <1>1 DEF ServingInv, serverVars

(* A step that leaves the connection, the counters and the player alone.   *)
LEMMA ProgressKept ==
  ASSUME ReachInv, StageInv,
         UNCHANGED <<fdOpen, fdRegistered, status_, conn, clientFin, index_, segment_counter_,
                     request_alarm_, player_state_, playback_index_>>,
         cpc' \notin {"exited", "start"}, cpc # "exited",
         cpc = "start" => cpc' = cpc,
         cpc' = "poll" => player_state_ # "DONE",
         clientEdge' = clientEdge \/ status_ # "CONNECTING"
  PROVE  ReachInv' /\ StageInv'
  BY DEF ReachInv, StageInv, Outstanding

(* A step that closes the descriptor.                                      *)
LEMMA ReachClosed ==
  ASSUME Inv, ReachInv, NEW unread, Close(unread), conn' = conn
  PROVE  ReachInv' /\ status_' = "DISCONNECT"
<1>1. status_' = "DISCONNECT" /\ ~fdOpen' /\ (fdOpen \/ clientFin => clientFin')
  <2>1. CASE fdOpen
    BY <2>1, CloseEffect
  <2>2. CASE ~fdOpen
    BY <2>2, CloseEffect DEF Inv, DescriptorInv
  <2> QED
    BY <2>1, <2>2
<1> QED
  BY <1>1 DEF ReachInv

(* Connecting.                                                             *)
LEMMA ProgressConnect ==
  ASSUME Inv, StreamInv, ReachInv, StageInv,
         ConnectInProgress \/ ConnectError \/ ConnectFails \/ OnEventError \/ OnEventConnected
  PROVE  ReachInv' /\ StageInv'
<1>1. CASE ConnectInProgress
  <2>1. /\ player_state_ = "NOT_STARTED" /\ player_state_' = player_state_
        /\ conn' = "syn" /\ status_' = "CONNECTING" /\ cpc' = "poll"
        /\ fdOpen' = TRUE /\ fdRegistered' = TRUE
    BY <1>1 DEF ConnectInProgress, StreamInv, playerVars
  <2> QED
    BY <2>1 DEF ReachInv, StageInv
<1>2. CASE ConnectError
  <2>1. /\ segment_counter_ = 0 /\ segment_counter_' = 0
        /\ conn' = "refused" /\ status_' = "CONNECTING" /\ cpc' = "poll"
        /\ fdOpen' = TRUE /\ fdRegistered' = TRUE /\ clientEdge' = TRUE
        /\ player_state_' = "INIT_BUFFERING"
    BY <1>2 DEF ConnectError, Inv, DescriptorInv, Fresh, fetchVars
  <2> QED
    BY <2>1 DEF ReachInv, StageInv
<1>3. CASE ConnectFails
  <2>1. /\ ~fdOpen /\ status_ = "DISCONNECT" /\ conn = "none" /\ cpc' = "exited"
        /\ player_state_ = "NOT_STARTED"
    BY <1>3 DEF ConnectFails, Inv, DescriptorInv, StreamInv
  <2>2. UNCHANGED <<tcpVars, fdVars, playerVars, fetchVars>>
    BY <1>3 DEF ConnectFails
  <2> QED
    BY <2>1, <2>2 DEF ReachInv, StageInv, tcpVars, fdVars, playerVars
<1>4. CASE OnEventError
  <2>1. Close(rcvbuf) /\ conn' = conn /\ cpc' = "alarms" /\ player_state_' = "DONE"
    BY <1>4 DEF OnEventError
  <2>2. ReachInv'
    BY <2>1, ReachClosed
  <2> QED
    BY <2>1, <2>2 DEF StageInv
<1>5. CASE OnEventConnected
  <2>1. Fresh /\ fdOpen
    BY <1>5 DEF OnEventConnected, Inv, DescriptorInv
  <2>2. /\ status_' = "CONNECTED" /\ player_state_' = "INIT_BUFFERING" /\ cpc' = "alarms"
        /\ UNCHANGED <<fdOpen, fdRegistered, conn, segment_counter_>>
    BY <1>5 DEF OnEventConnected
  <2>3. index_ = 0 /\ segment_counter_ = 0 /\ request_alarm_ = FALSE /\ index_ \in 0 .. Segments - 1
    BY <2>1, CountsArePositive DEF Fresh, Inv, TypeOK, ClientTypeOK, FetchTypeOK
  <2>4. index_' = 1
    <3>1. RequestSegment /\ request_alarm_ \in BOOLEAN
      BY <1>5 DEF OnEventConnected, Inv, TypeOK, ClientTypeOK, FetchTypeOK
    <3>2. index_ # 0 \/ index_' = index_ + 1
      BY <2>3, <3>1, RequestSegmentEffect
    <3> QED
      BY <2>3, <3>2
  <2>5. Outstanding'
    BY <2>2, <2>3, <2>4 DEF Outstanding
  <2> QED
    BY <2>1, <2>2, <2>3, <2>5 DEF ReachInv, StageInv
<1> QED
  BY <1>1, <1>2, <1>3, <1>4, <1>5

(* Reading: after a segment the next one is asked for, or put off, or the  *)
(* client has them all.                                                    *)
LEMMA ProgressReadSegment ==
  ASSUME Inv, StreamInv, ReachInv, StageInv, ReadSegment
  PROVE  ReachInv' /\ StageInv'
<1>1. /\ player_state_ \in {"INIT_BUFFERING", "PLAY", "PAUSED"}
      /\ segment_counter_ < Segments
      /\ segment_counter_' = segment_counter_ + 1
      /\ player_state_' = IF player_state_ = "INIT_BUFFERING" /\ segment_counter_ + 1 < InitSegments
                          THEN player_state_ ELSE "PLAY"
  BY SegmentReceived
<1>2. fdOpen /\ segment_counter_' = index_ /\ ~request_alarm_ /\ cpc = "read" /\ status_ = "CONNECTED"
      /\ conn' = conn
  BY SegmentSamples DEF Inv, Counted, ReadSegment, DescriptorInv
<1>3. /\ player_state_' \in {"INIT_BUFFERING", "PLAY"}
      /\ player_state_' = "INIT_BUFFERING" => segment_counter_' < InitSegments
  BY <1>1
<1>4. CASE AllRequested
  <2>1. Close(rcvbuf - BytesRead) /\ cpc' = "alarms" /\ segment_counter_' = Segments
    BY <1>2, <1>4 DEF ReadSegment, AllRequested
  <2>2. ReachInv'
    BY <1>2, <2>1, ReachClosed
  <2> QED
    BY <1>3, <2>1, <2>2 DEF StageInv
<1>5. CASE ~AllRequested
  <2>1. RequestSegment /\ UNCHANGED <<clientFin, status_, fdOpen, fdRegistered, cpc>>
    BY <1>5 DEF ReadSegment, fdVars
  <2>2. index_ \in 0 .. Segments /\ index_ # Segments /\ request_alarm_ \in BOOLEAN
    BY <1>5 DEF AllRequested, Inv, TypeOK, ClientTypeOK, FetchTypeOK
  <2>3. index_ \in 0 .. Segments - 1
    BY <2>2, CountsArePositive
  <2>4. request_alarm_' = TRUE \/ index_' = index_ + 1
    BY <2>1, <2>2, <2>3, RequestSegmentEffect
  <2>5. request_alarm_' \/ Outstanding'
    BY <1>2, <2>3, <2>4 DEF Outstanding
  <2>6. ReachInv'
    BY <1>2, <2>1, <2>5 DEF ReachInv
  <2> QED
    BY <1>2, <1>3, <2>1, <2>6 DEF StageInv
<1> QED
  BY <1>4, <1>5

(* Arithmetic: a part of less than all is less than all.                   *)
LEMMA PartIsLess ==
  ASSUME NEW part \in Nat, NEW rest \in Nat, NEW some \in Nat, NEW all \in Nat,
         part + rest = some, some <= all, some # all
  PROVE  part < all
  OBVIOUS

(* The alarms of a turn: a delayed request is sent, and a frame played.    *)
LEMMA ProgressAlarms ==
  ASSUME Inv, Inv', StreamInv, ReachInv, StageInv,
         NEW player \in BOOLEAN, NEW request \in BOOLEAN, ExecuteAlarms(player, request)
  PROVE  ReachInv' /\ StageInv'
<1>1. /\ cpc' = "check" /\ cpc # "exited" /\ cpc # "start"
      /\ UNCHANGED <<conn, clientFin, clientEdge, status_, fdOpen, fdRegistered, segment_counter_>>
  BY DEF ExecuteAlarms, fdVars
<1>2. ReachInv'
  <2>1. CASE ~request
    BY <1>1, <2>1 DEF ExecuteAlarms, ReachInv, Outstanding
  <2>2. CASE request
    <3>1. CASE status_ = "CONNECTED"
      <4>1. fdOpen /\ request_alarm_
        BY <2>2, <3>1 DEF ExecuteAlarms, Inv, DescriptorInv
      <4>2. index_ = segment_counter_ /\ index_ < Segments
        BY <4>1 DEF Inv, FetchInv, Outstanding
      <4>3. index_' = index_ + 1
        BY <2>2, <4>2 DEF ExecuteAlarms, DelayRequestHandle
      <4>4. index_ \in Nat
        BY DEF Inv, TypeOK, ClientTypeOK, FetchTypeOK
      <4>5. Outstanding'
        BY <1>1, <4>2, <4>3, <4>4 DEF Outstanding
      <4> QED
        BY <1>1, <4>5 DEF ReachInv
    <3>2. CASE status_ # "CONNECTED"
      BY <1>1, <3>2 DEF ReachInv
    <3> QED
      BY <3>1, <3>2
  <2> QED
    BY <2>1, <2>2
<1>3. CASE ~player
  <2>1. UNCHANGED <<player_state_, playback_index_>>
    BY <1>3 DEF ExecuteAlarms, playerVars
  <2> QED
    BY <1>1, <1>2, <2>1 DEF StageInv
<1>4. CASE player
  <2>1. /\ player_state_ = "PLAY"
        /\ \/ UNCHANGED <<player_state_, playback_index_>>
           \/ /\ playback_index_' = playback_index_ + 1
              /\ player_state_' = IF playback_index_ + 1 < segment_counter_ THEN "PLAY"
                                  ELSE IF segment_counter_ = Segments THEN "DONE" ELSE "PAUSED"
    BY <1>4, FramePlayed DEF ExecuteAlarms
  <2>2. player_state_' \in {"PLAY", "DONE", "PAUSED"}
    BY <2>1
  <2>3. player_state_' = "PAUSED" => playback_index_' < Segments
    <3> SUFFICES ASSUME player_state_' = "PAUSED" PROVE playback_index_' < Segments
      OBVIOUS
    <3>1. segment_counter_ # Segments /\ segment_counter_ <= Segments /\ segment_counter_ \in Nat
      BY <2>1, ReceivedBound
    <3>2. /\ playback_index_' \in Nat /\ segments_in_buffer_' \in Nat
          /\ playback_index_' + segments_in_buffer_' = segment_counter_
      BY <1>1 DEF Inv, TypeOK, ClientTypeOK, PlayerTypeOK, BufferBalanced
    <3>3. Segments \in Nat
      BY CountsArePositive
    <3> QED
      BY <3>1, <3>2, <3>3, PartIsLess, Zenon
  <2>4. status_ = "DISCONNECT" => segment_counter_ = Segments
    BY <1>1, <2>1 DEF StageInv
  <2> QED
    BY <1>1, <1>2, <2>2, <2>3, <2>4 DEF StageInv
<1> QED
  BY <1>3, <1>4

(* Every step of the client.                                               *)
LEMMA ProgressClient ==
  ASSUME Inv, Inv', StreamInv, ReachInv, StageInv, ClientStep \/ Interrupt
  PROVE  ReachInv' /\ StageInv'
<1>1. CASE ConnectInProgress \/ ConnectError \/ ConnectFails \/ OnEventError \/ OnEventConnected
  BY <1>1, ProgressConnect
<1>2. CASE OnEventReadable \/ ReadPart \/ ReadWouldBlock \/ NextTurn
  <2>1. /\ UNCHANGED <<fdOpen, fdRegistered, status_, conn, clientFin, index_, segment_counter_,
                       request_alarm_, player_state_, playback_index_>>
        /\ cpc' \notin {"exited", "start"} /\ cpc \notin {"exited", "start"}
        /\ cpc' = "poll" => player_state_ # "DONE"
        /\ clientEdge' = clientEdge \/ status_ # "CONNECTING"
    BY <1>2 DEF OnEventReadable, ReadPart, ReadWouldBlock, NextTurn, tcpVars, fdVars, playerVars, fetchVars
  <2> QED
    BY <2>1, ProgressKept
<1>3. ~ReadEof
  BY DEF ReadEof, StreamInv, Inv, DescriptorInv
<1>4. CASE ReadSegment
  BY <1>4, ProgressReadSegment
<1>5. ASSUME NEW player \in BOOLEAN, NEW request \in BOOLEAN, ExecuteAlarms(player, request)
      PROVE  ReachInv' /\ StageInv'
  BY <1>5, ProgressAlarms
<1>6. CASE Terminate \/ Interrupt
  <2>1. /\ Close(rcvbuf) /\ cpc' = "exited" /\ conn' = conn
        /\ UNCHANGED <<player_state_, playback_index_, segment_counter_>>
    BY <1>6 DEF Terminate, Interrupt, DeleteClient
  <2>2. ReachInv'
    BY <2>1, ReachClosed
  <2> QED
    BY <2>1, <2>2 DEF StageInv
<1> QED
  BY <1>1, <1>2, <1>3, <1>4, <1>5, <1>6 DEF ClientStep

-----------------------------------------------------------------------------
(* The steps of the endpoint and of the network.                           *)

(* They change nothing of the client, only what it has to notice.          *)
LEMMA ProgressOthers ==
  ASSUME ReachInv, StageInv, UNCHANGED clientVars, clientFin' = clientFin,
         \/ conn' = conn /\ (clientEdge => clientEdge')
         \/ conn # "none" /\ conn' # "none" /\ clientEdge'
  PROVE  ReachInv' /\ StageInv'
<1>1. UNCHANGED <<cpc, status_, fdOpen, fdRegistered, player_state_, playback_index_, index_,
                  segment_counter_, request_alarm_>>
  BY DEF clientVars, fdVars, playerVars, fetchVars
<1>2. UNCHANGED Outstanding
  BY <1>1 DEF Outstanding
<1> QED
  BY <1>1, <1>2 DEF ReachInv, StageInv

(* The endpoint gives up EPOLLIN never, and its registration only for good. *)
LEMMA ProgressServer ==
  ASSUME Inv, ReachInv, StageInv, ServingInv, ServerStep, UNCHANGED clientVars
  PROVE  ReachInv' /\ StageInv' /\ ServingInv'
<1>1. UNCHANGED <<conn, clientFin, clientEdge>>
  BY DEF ServerStep, CreateEndpoint, EndpointOnEvent, ReadRequest, ReadEnd, ReadNothing,
         ResponceWrite, ResponceFull, ResponceBroken, ResponceDone, ResponceReturn, DeleteTask,
         tcpVars
<1>2. ReachInv' /\ StageInv'
  BY <1>1, ProgressOthers
<1>3. ServingInv'
  <2>1. CASE CreateEndpoint
    <3>1. ~destroyed_ /\ destroyed_' = destroyed_ /\ registered' = TRUE /\ mask' = {"EPOLLIN", "EPOLLET"}
      BY <2>1 DEF CreateEndpoint, Inv, EndpointInv
    <3> QED
      BY <3>1 DEF ServingInv
  <2>2. CASE ReadRequest
    BY <1>1, <2>2 DEF ReadRequest, ServingInv
  <2>3. CASE ReadEnd
    BY <1>1, <2>3 DEF ReadEnd, ServingInv
  <2>4. CASE EndpointOnEvent \/ ReadNothing \/ ResponceFull \/ ResponceDone \/ DeleteTask
    <3>1. spc \notin {"none", "exited"} /\ UNCHANGED <<mask, registered, destroyed_>>
      BY <2>4 DEF EndpointOnEvent, ReadNothing, ResponceFull, ResponceDone, ResponceReturn, DeleteTask
    <3> QED
      BY <1>1, <3>1 DEF ServingInv
  <2>5. CASE ResponceWrite
    <3>1. spc \notin {"none", "exited"} /\ UNCHANGED <<registered, destroyed_>>
      BY <2>5 DEF ResponceWrite
    <3>2. mask' = mask \/ mask' = {"EPOLLIN"}
      BY <2>5 DEF ResponceWrite, Answered
    <3> QED
      BY <1>1, <3>1, <3>2 DEF ServingInv
  <2>6. CASE ResponceBroken
    <3>1. spc = "responce" /\ reset = "broken" /\ spc' = "exited" /\ mask' = mask
      BY <2>6 DEF ResponceBroken
    <3>2. clientFin
      BY <3>1 DEF Inv, EndpointInv
    <3> QED
      BY <1>1, <3>1, <3>2 DEF ServingInv
  <2> QED
    BY <2>1, <2>2, <2>3, <2>4, <2>5, <2>6 DEF ServerStep
<1> QED
  BY <1>2, <1>3

(* The network raises an edge with whatever it brings.                     *)
LEMMA ProgressNetwork ==
  ASSUME ReachInv, StageInv, ServingInv, Network, UNCHANGED <<clientVars, serverVars>>
  PROVE  ReachInv' /\ StageInv' /\ ServingInv'
<1>1. /\ clientFin' = clientFin
      /\ \/ conn' = conn /\ (clientEdge => clientEdge')
         \/ conn # "none" /\ conn' # "none" /\ clientEdge'
  BY DEF Network, Establish, Refuse, Deliver, DeliverFin
<1>2. ReachInv' /\ StageInv'
  BY <1>1, ProgressOthers
<1> QED
  BY <1>1, <1>2 DEF ServingInv, serverVars

-----------------------------------------------------------------------------
(* The invariants hold.                                                    *)

(* They hold before AsynConnect,                                           *)
LEMMA InitProgress == Init => StreamInv /\ ProgressInv
<1> SUFFICES ASSUME Init PROVE StreamInv /\ ProgressInv
  OBVIOUS
<1>1. StreamInv
  BY DEF Init, TcpInit, ClientInit, StreamInv
<1>2. ReachInv /\ StageInv /\ ServingInv
  BY DEF Init, TcpInit, ClientInit, ServerInit, ReachInv, StageInv, ServingInv
<1> QED
  BY <1>1, <1>2 DEF ProgressInv

(* and after every step but the exit of the server.                        *)
LEMMA NextProgress ==
  ASSUME "server exit" \notin Faults, Inv, Inv', StreamInv, ProgressInv, [Next]_vars
  PROVE  StreamInv' /\ ProgressInv'
<1> USE DEF ProgressInv
<1>1. CASE (ClientStep \/ Interrupt) /\ UNCHANGED serverVars
  BY <1>1, StreamClient, ProgressClient, ServingClient
<1>2. CASE ServerStep /\ UNCHANGED clientVars
  BY <1>2, StreamServer, ProgressServer
<1>3. ~ServerExit
  BY DEF ServerExit
<1>4. CASE Network /\ UNCHANGED <<clientVars, serverVars>>
  <2>1. UNCHANGED clientVars
    BY <1>4
  <2> QED
    BY <1>4, <2>1, StreamNetwork, ProgressNetwork
<1>5. CASE UNCHANGED vars
  <2>1. UNCHANGED <<tcpVars, cpc, fdVars, playerVars, fetchVars, serverVars>>
    BY <1>5 DEF vars, clientVars
  <2>2. StreamInv'
    BY <2>1, StreamKept DEF tcpVars, fdVars, playerVars, fetchVars
  <2>3. ReachInv' /\ StageInv'
    BY <2>1 DEF ReachInv, StageInv, Outstanding, tcpVars, fdVars, playerVars, fetchVars
  <2>4. ServingInv'
    BY <2>1 DEF ServingInv, tcpVars, serverVars
  <2> QED
    BY <2>2, <2>3, <2>4
<1> QED
  BY <1>1, <1>2, <1>3, <1>4, <1>5 DEF Next, Over

(* So they hold throughout every session whose server does not go away.    *)
THEOREM ProgressInvariance ==
  ASSUME "server exit" \notin Faults
  PROVE  Spec => [](Inv /\ StreamInv /\ ProgressInv)
<1>1. Inv /\ Inv' /\ StreamInv /\ ProgressInv /\ [Next]_vars => StreamInv' /\ ProgressInv'
  BY NextProgress
<1> QED
  BY <1>1, InitProgress, Invariance, PTL DEF Spec

-----------------------------------------------------------------------------
(* What it means for those who wait.                                       *)

(* An endpoint that has a request, or its client's FIN, is not forgotten.  *)
LEMMA EndpointGoesOn ==
  ASSUME Inv, ProgressInv, conn = "established", ~ServerReady
  PROVE  /\ spc = "deleted" \/ spc = "exited" \/ (up = <<>> /\ ~clientFin)
         /\ request_bytes_ # <<>> => spc = "deleted" \/ spc = "exited" \/ ~(Free > 0)
<1>1. spc \in {"idle", "deleted", "exited"}
  BY DEF ServerReady, Inv, TypeOK, ServerTypeOK
<1>2. CASE spc = "idle"
  <2>1. registered /\ "EPOLLIN" \in mask /\ ~EndpointReadable /\ ~EndpointWritable
    BY <1>2 DEF ServerReady, ProgressInv, ServingInv
  <2>2. ~(up # <<>> \/ clientFin)
    BY <1>2, <2>1 DEF EndpointReadable, Inv, RequestNoticed
  <2>3. request_bytes_ # <<>> => ~(Free > 0)
    BY <2>1 DEF EndpointWritable, Inv, EndpointInv
  <2> QED
    BY <2>2, <2>3
<1> QED
  BY <1>1, <1>2

(* Arithmetic: what is not yet read is somewhere.                          *)
LEMMA SomeLeft ==
  ASSUME NEW read \in Nat, NEW got \in Nat, NEW under \in Nat, NEW owed \in Nat, NEW all \in Nat,
         read + got + under + owed = all, read < all
  PROVE  got > 0 \/ under > 0 \/ owed > 0
  OBVIOUS

(* A connection that is full is full of something.                         *)
LEMMA FullOfSome ==
  ASSUME Inv
  PROVE  Free > 0 \/ wire > 0 \/ rcvbuf > 0
<1>1. wire \in Nat /\ rcvbuf \in Nat /\ Capacity \in Nat /\ Capacity > 0
  BY CapacityIsPositive DEF Inv, TypeOK, TcpTypeOK
<1>2. Capacity - wire - rcvbuf > 0 \/ wire > 0 \/ rcvbuf > 0
  BY <1>1
<1> QED
  BY <1>2, Zenon DEF Free

(* Of an answer that is not complete some bytes are somewhere.             *)
LEMMA BytesAreSomewhere ==
  ASSUME Inv, fdOpen, Outstanding
  PROVE  rcvbuf > 0 \/ wire > 0 \/ Owed > 0
<1>1. /\ read_bytes_ + rcvbuf + wire + Owed = segment_bytes_ /\ read_bytes_ < segment_bytes_
      /\ read_bytes_ \in Nat /\ rcvbuf \in Nat /\ wire \in Nat /\ segment_bytes_ \in Nat
  BY DEF Inv, BytesConserved, FetchInv, TypeOK, TcpTypeOK, ClientTypeOK, FetchTypeOK
<1>2. Owed \in Nat
  BY OwedIsNat DEF Inv
<1> QED
  BY <1>1, <1>2, SomeLeft

(* And what the endpoint owes it was asked for.                            *)
LEMMA OwedIsRequested ==
  ASSUME QueueInv, Owed > 0
  PROVE  request_bytes_ # <<>> \/ up # <<>>
<1> SUFFICES ASSUME request_bytes_ = <<>>, up = <<>> PROVE FALSE
  OBVIOUS
<1>1. FirstOf(up) = 0 /\ FirstOf(request_bytes_) = 0 /\ sent_bytes_ = 0
  BY DEF FirstOf, QueueInv
<1>2. ~(0 + 0 - 0 > 0)
  OBVIOUS
<1> QED
  BY <1>1, <1>2, Zenon DEF Owed

(* What is all is not less than all,                                      *)
LEMMA NotLessAndAll ==
  ASSUME NEW part \in Nat, NEW all \in Nat, part + 0 = all
  PROVE  ~(part < all)
  OBVIOUS

(* and neither none nor less than a few that are no more than it.         *)
LEMMA NotNoneNorFew ==
  ASSUME NEW some \in Nat, NEW few \in Nat, some > 0, few <= some
  PROVE  ~(some = 0 \/ some < few)
  OBVIOUS

(* The client's next segment is always on its way: delayed, being read,    *)
(* about to be read, in the network, or with an endpoint that will have an *)
(* event.                                                                  *)
THEOREM NextSegmentComes ==
  ASSUME "server exit" \notin Faults
  PROVE  Spec => []FetchGoesOn
<1>1. Inv /\ StreamInv /\ ProgressInv => FetchGoesOn
  <2> SUFFICES ASSUME Inv, StreamInv, ProgressInv, status_ = "CONNECTED", ~request_alarm_,
                      ~(wire > 0), ~ServerReady
               PROVE  rcvbuf > 0 /\ (cpc = "read" \/ (fdRegistered /\ clientEdge))
    BY DEF FetchGoesOn
  <2>0. ~(wire > 0)
    OBVIOUS
  <2>1. fdOpen /\ fdRegistered /\ Outstanding /\ conn = "established" /\ ~clientFin
    BY DEF Inv, DescriptorInv, StreamInv, ProgressInv, ReachInv
  <2>2. rcvbuf > 0
    <3>1. rcvbuf > 0 \/ wire > 0 \/ Owed > 0
      BY <2>1, BytesAreSomewhere
    <3>2. Owed > 0 => request_bytes_ # <<>> \/ up # <<>>
      BY OwedIsRequested DEF Inv
    <3>3. spc # "deleted" /\ spc # "exited"
      BY <2>1 DEF ProgressInv, ServingInv, Inv, EndpointInv
    <3>4. up = <<>> /\ (request_bytes_ # <<>> => ~(Free > 0))
      BY <2>1, <3>3, EndpointGoesOn
    <3>5. Free > 0 \/ wire > 0 \/ rcvbuf > 0
      BY FullOfSome
    <3> QED
      BY <2>0, <3>1, <3>2, <3>4, <3>5, Zenon
  <2>3. cpc = "read" \/ clientEdge
    BY <2>1, <2>2 DEF Inv, DataNoticed
  <2> QED
    BY <2>1, <2>2, <2>3
<1> QED
  BY <1>1, ProgressInvariance, PTL

(* No session gets stuck in which the video is at least as long as what is *)
(* buffered before playing: a client that waits in epoll_wait will have an *)
(* event or an alarm, or somebody else will do something; and when nobody  *)
(* can, the client has left its loop and the endpoint is deleted.          *)
THEOREM SessionNeverStuck ==
  ASSUME "server exit" \notin Faults, InitSegments <= Segments
  PROVE  Spec => []NeverStuck
<1>1. Inv /\ StreamInv /\ ProgressInv /\ FetchGoesOn => NeverStuck
  <2> SUFFICES ASSUME Inv, StreamInv, ProgressInv, FetchGoesOn,
                      ~ClientReady, ~ServerReady, ~NetworkReady
               PROVE  cpc = "exited" /\ (conn \in {"none", "refused"} \/ spc \in {"deleted", "exited"})
    BY DEF NeverStuck
  <2>1. conn \in {"none", "established", "refused"} /\ ~(wire > 0)
    BY DEF NetworkReady, Inv, TypeOK, TcpTypeOK
  <2>2. cpc \in {"poll", "exited"}
    BY DEF ClientReady, Inv, TypeOK, ClientTypeOK
  <2>3. cpc # "poll"
    <3> SUFFICES ASSUME cpc = "poll" PROVE FALSE
      OBVIOUS
    <3>1. ~Event /\ ~player_alarm_ /\ ~request_alarm_ /\ player_state_ # "DONE"
      BY DEF ClientReady, ProgressInv, StageInv
    <3>2. status_ # "CONNECTING"
      <4> SUFFICES ASSUME status_ = "CONNECTING" PROVE FALSE
        OBVIOUS
      <4>1. fdRegistered /\ conn # "none"
        BY DEF Inv, DescriptorInv, ProgressInv, ReachInv
      <4>2. clientEdge
        BY <2>1, <4>1 DEF ProgressInv, ReachInv
      <4> QED
        BY <2>1, <3>1, <4>1, <4>2 DEF Event, HangUp
    <3>3. status_ # "CONNECTED"
      BY <2>1, <3>1 DEF FetchGoesOn, Event
    <3>4. status_ = "DISCONNECT"
      BY <3>2, <3>3 DEF Inv, TypeOK, ClientTypeOK, FdTypeOK
    <3>5. segment_counter_ = Segments
      BY <3>1, <3>4 DEF ProgressInv, StageInv
    <3>6. player_state_ # "PLAY"
      BY <3>1 DEF Inv, PlayerInv
    <3>7. player_state_ # "PAUSED"
      <4> SUFFICES ASSUME player_state_ = "PAUSED" PROVE FALSE
        OBVIOUS
      <4>1. segments_in_buffer_ = 0 /\ playback_index_ < Segments
        BY DEF Inv, PlaysFromBuffer, ProgressInv, StageInv
      <4>2. playback_index_ + segments_in_buffer_ = Segments /\ playback_index_ \in Nat
        BY <3>5 DEF Inv, BufferBalanced, TypeOK, ClientTypeOK, PlayerTypeOK
      <4> QED
        BY <4>1, <4>2, CountsArePositive, NotLessAndAll, Zenon
    <3>8. player_state_ # "INIT_BUFFERING"
      BY <3>5, CountsArePositive, NotNoneNorFew, Zenon DEF ProgressInv, StageInv
    <3>9. player_state_ # "NOT_STARTED"
      BY <3>2 DEF ProgressInv, StageInv
    <3> QED
      BY <3>1, <3>6, <3>7, <3>8, <3>9 DEF Inv, TypeOK, ClientTypeOK, PlayerTypeOK
  <2>4. cpc = "exited"
    BY <2>2, <2>3
  <2>5. CASE conn = "established"
    <3>1. clientFin
      BY <2>4, <2>5 DEF ProgressInv, ReachInv
    <3> QED
      BY <2>4, <2>5, <3>1, EndpointGoesOn
  <2> QED
    BY <2>1, <2>4, <2>5
<1> QED
  BY <1>1, ProgressInvariance, NextSegmentComes, PTL
=============================================================================
