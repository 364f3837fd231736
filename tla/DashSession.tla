---------------------------- MODULE DashSession ----------------------------
(***************************************************************************)
(* One streaming session: a DashClient, the DashServerEndpoint that serves *)
(* it and the TCP connection between them, each taking its steps in any    *)
(* order.                                                                  *)
(***************************************************************************)
EXTENDS DashClient, DashServer

vars == <<tcpVars, clientVars, serverVars>>

Init == TcpInit /\ ClientInit /\ ServerInit

(* The session is over: the client is gone, and so is the endpoint.        *)
Over ==
  /\ cpc = "exited"
  /\ conn \in {"none", "refused"} \/ spc \in {"deleted", "exited"}
  /\ UNCHANGED vars

Next ==
  \/ ClientStep /\ UNCHANGED serverVars
  \/ Interrupt /\ UNCHANGED serverVars
  \/ ServerStep /\ UNCHANGED clientVars
  \/ ServerExit /\ UNCHANGED clientVars
  \/ Network /\ UNCHANGED <<clientVars, serverVars>>
  \/ Over

(* Each side is a program the operating system keeps running, an alarm     *)
(* that is set comes due, and the network delivers.  Failures need not     *)
(* happen.                                                                 *)
Fairness ==
  /\ WF_vars(ClientStep /\ UNCHANGED serverVars)
  /\ WF_vars(ServerStep /\ UNCHANGED clientVars)
  /\ WF_vars(Network /\ UNCHANGED <<clientVars, serverVars>>)

Spec == Init /\ [][Next]_vars
FairSpec == Spec /\ Fairness

TypeOK == TcpTypeOK /\ ClientTypeOK /\ ServerTypeOK

-----------------------------------------------------------------------------
(* Requests and bytes.                                                     *)

FirstOf(queue) == IF queue = <<>> THEN 0 ELSE Head(queue)

(* A request was sent whose response is not complete.                      *)
Outstanding == index_ # segment_counter_

(* Bytes the server has yet to write.                                      *)
Owed == FirstOf(up) + FirstOf(request_bytes_) - sent_bytes_

(* There is never more than one request on its way or being answered.      *)
(* OnReadEvent of the server parses one request per read and drops what    *)
(* else the read returned, so the session depends on the client asking for *)
(* a segment only after the last byte of the one before.                   *)
OneRequest == Len(up) + Len(request_bytes_) <= 1

(* Every byte of the current segment is in exactly one place: read by the  *)
(* client, in its receive buffer, under way or yet to be written; between  *)
(* two segments there is none.  OnReadEvent of the client recognises the   *)
(* end of a segment by equality, so one byte too many would never be       *)
(* noticed, and one byte too few would stop the session for good.          *)
BytesConserved ==
  fdOpen =>
    IF Outstanding
    THEN read_bytes_ + rcvbuf + wire + Owed = segment_bytes_
    ELSE read_bytes_ = 0 /\ rcvbuf = 0 /\ wire = 0 /\ up = <<>> /\ request_bytes_ = <<>>

(* Data in the receive buffer of a connected client always has an edge to  *)
(* come, or is being read: the descriptor is edge-triggered, and           *)
(* OnReadEvent returns only when the buffer is empty.                      *)
DataNoticed ==
  fdRegistered /\ rcvbuf > 0 => cpc = "read" \/ clientEdge

(* A request can only be sent late or waited for, never both: the delayed  *)
(* request of RequestSegment is the one DelayRequestHandle sends.          *)
DelayedNotSent ==
  request_alarm_ /\ fdOpen => ~Outstanding /\ index_ < Segments

(* Whenever the algorithm is consulted, the throughput samples are whole:  *)
(* one start and one end for each request.  BandwidthPredicator::Predict   *)
(* counts the starts and indexes the ends with that count.                 *)
SamplesAligned ==
  [][ segment_counter_' # segment_counter_
        => /\ segment_counter_' = index_
           /\ transmissionStarts' = segment_counter_' ]_vars

(* A client that has received the whole video leaves nothing behind: no    *)
(* request, no byte unread.  So its close sends no RST, the endpoint never *)
(* writes to it again, and it takes no other client's stream with it: what *)
(* ends the server by SIGPIPE is a client that was cut off before.         *)
WholeVideoLeavesNothing ==
  segment_counter_ = Segments =>
    up = <<>> /\ request_bytes_ = <<>> /\ wire = 0 /\ rcvbuf = 0 /\ reset = "none"

-----------------------------------------------------------------------------
(* The player.                                                             *)

(* A segment that was received is in the buffer or has been played.        *)
BufferBalanced ==
  playback_index_ + segments_in_buffer_ = segment_counter_

(* The playback alarm is set exactly while the player plays and has a      *)
(* segment to play: PlayBackHandle re-arms it, CheckBufferStatus sets it,  *)
(* nothing else does.                                                      *)
AlarmIffPlaying ==
  cpc # "exited" /\ player_state_ # "DONE"
    => (player_alarm_ <=> player_state_ = "PLAY")

(* The player never plays from an empty buffer, and never waits on a full  *)
(* one: it pauses only with nothing buffered.                              *)
PlaysFromBuffer ==
  /\ player_alarm_ => segments_in_buffer_ > 0
  /\ player_state_ = "PAUSED" => segments_in_buffer_ = 0

(* DONE means that the whole video was received and played, or that the    *)
(* connection was lost.                                                    *)
DoneMeansPlayed ==
  player_state_ = "DONE" =>
    \/ playback_index_ = Segments
    \/ HangUp

(* The client closes a good connection only after the last segment.        *)
ClosedAfterLastSegment ==
  [][ fdOpen /\ ~fdOpen' =>
        \/ segment_counter_' = Segments
        \/ HangUp
        \/ cpc' = "exited" ]_vars

-----------------------------------------------------------------------------
(* Why the invariants hold.                                                *)

(* Nothing was asked for yet.                                              *)
Fresh ==
  /\ index_ = 0 /\ segment_counter_ = 0 /\ read_bytes_ = 0 /\ transmissionStarts = 0
  /\ segments_in_buffer_ = 0 /\ playback_index_ = 0
  /\ ~request_alarm_ /\ ~player_alarm_ /\ ~clientFin
  /\ up = <<>> /\ wire = 0 /\ rcvbuf = 0 /\ request_bytes_ = <<>>

(* Where the client is and what its descriptor looks like.                 *)
DescriptorInv ==
  /\ cpc = "start" => status_ = "DISCONNECT" /\ conn = "none" /\ Fresh
  /\ status_ = "CONNECTING" => Fresh
  /\ fdOpen <=> status_ # "DISCONNECT"
  /\ fdRegistered => fdOpen
  /\ fdOpen => ~clientFin
  /\ cpc = "read" => status_ = "CONNECTED"

(* At most one request exists, and the endpoint has not finished it.       *)
QueueInv ==
  /\ Len(up) + Len(request_bytes_) <= 1
  /\ up # <<>> => Head(up) > 0
  /\ IF request_bytes_ = <<>> THEN sent_bytes_ = 0 ELSE sent_bytes_ < Head(request_bytes_)

(* The counters of the client, the bytes and the samples agree.            *)
FetchInv ==
  /\ segment_counter_ <= index_
  /\ fdOpen =>
       /\ Outstanding => index_ = segment_counter_ + 1 /\ read_bytes_ < segment_bytes_
       /\ request_alarm_ => ~Outstanding /\ index_ < Segments /\ segment_bytes_ > 0
       /\ transmissionStarts = segment_counter_ + (IF read_bytes_ = 0 THEN 0 ELSE 1)

(* The playback alarm, the player's state and its buffer agree.            *)
PlayerInv ==
  /\ player_alarm_ => player_state_ \in {"PLAY", "DONE"}
  /\ player_state_ = "PLAY" /\ cpc # "exited" => player_alarm_

(* The endpoint's registration, its mask and its place in the loop agree.  *)
EndpointInv ==
  /\ request_bytes_ # <<>> <=> "EPOLLOUT" \in mask
  /\ "EPOLLET" \in mask => "EPOLLOUT" \notin mask /\ ~outEvent /\ spc # "responce"
  /\ registered => open
  /\ open \/ spc = "none" => serverFin = "none"
  /\ open => spc # "deleted" /\ spc # "exited"
  /\ spc = "none" => ~open /\ ~destroyed_ /\ ~outEvent /\ mask = {}
  /\ destroyed_ => ~open
  /\ spc = "deleted" => destroyed_
  /\ reset # "none" => clientFin
  /\ spc = "none" \/ "EPOLLET" \in mask => wire = 0 /\ rcvbuf = 0 /\ reset = "none"

(* The inductive invariant: the properties above and what they lean on.    *)
Inv ==
  /\ TypeOK /\ DescriptorInv /\ QueueInv /\ FetchInv /\ PlayerInv /\ EndpointInv
  /\ BytesConserved /\ DataNoticed /\ BufferBalanced /\ PlaysFromBuffer
  /\ DoneMeansPlayed /\ RequestNoticed

-----------------------------------------------------------------------------
(* Who can go on.                                                          *)

(* The client: it is in a turn, or has an event or an alarm to come.       *)
ClientReady ==
  \/ cpc \in {"start", "read", "alarms", "check"}
  \/ cpc = "poll" /\ (Event \/ player_alarm_ \/ request_alarm_)

(* The endpoint: it is to be accepted or deleted, is in a callback, or has *)
(* an event to come.                                                       *)
ServerReady ==
  \/ spc = "none" /\ conn = "established"
  \/ spc \in {"read", "responce"}
  \/ spc = "idle" /\ (destroyed_ \/ (registered /\ (EndpointReadable \/ EndpointWritable)))

(* The network has something to deliver.                                   *)
NetworkReady == conn = "syn" \/ wire > 0 \/ serverFin = "sent"

(* Of a connected client, either the next request is delayed or the answer *)
(* of the last one is on its way: the client is reading it or will be told *)
(* of it, the network has some of it, or the endpoint is at work or will   *)
(* be.  No edge is lost, no EPOLLOUT given up and no request dropped, or   *)
(* the client would wait for ever for the rest of a segment.               *)
FetchGoesOn ==
  status_ = "CONNECTED" =>
    \/ request_alarm_
    \/ rcvbuf > 0 /\ (cpc = "read" \/ (fdRegistered /\ clientEdge))
    \/ wire > 0
    \/ ServerReady

(* A session in which nobody can go on is over, on both sides.             *)
NeverStuck ==
  \/ ClientReady \/ ServerReady \/ NetworkReady
  \/ cpc = "exited" /\ (conn \in {"none", "refused"} \/ spc \in {"deleted", "exited"})

-----------------------------------------------------------------------------
(* Liveness.                                                               *)

(* Every request is answered in full.                                      *)
RequestAnswered ==
  \A n \in 1 .. Segments : index_ = n ~> segment_counter_ >= n

(* A paused player plays on or finishes.                                   *)
PauseEnds == player_state_ = "PAUSED" ~> player_state_ \in {"PLAY", "DONE"}

(* The client plays every frame of the video, leaves its loop and is       *)
(* deleted, and so is the endpoint: the run of dash_client_test.cc ends.   *)
SessionEnds ==
  <>(/\ cpc = "exited"
     /\ played_frames_ = Segments * FramesInSegment
     /\ spc = "deleted")

(* A client whose connection is refused, or whose connect() fails without  *)
(* AsynConnect returning false, ends: only the hang-up that the event loop *)
(* reports then sets DONE, whatever AsynConnect made of the player's state.*)
RefusedEnds == conn = "refused" ~> cpc = "exited"

(* However the client went, the endpoint of a connection that it closed is *)
(* gone in the end, even with a response half written: it is deleted, or   *)
(* the server has ended, by a signal to stop or by SIGPIPE.                *)
EndpointReleased ==
  conn = "established" /\ clientFin ~> spc \in {"deleted", "exited"}

-----------------------------------------------------------------------------
(* What the test program takes for granted and the code does not keep.     *)

(* Once the client is DONE, the test of IsTerminated that ends its turn    *)
(* finds it DONE, and the loop of dash_client_test.cc ends.  PlayBackHandle *)
(* can run between OnEvent and the test, and it sets PAUSED.               *)
DoneIsFinal == [][ player_state_ = "DONE" => player_state_' = "DONE" ]_vars

(* A client whose server is gone returns from OnReadEvent and gets to the  *)
(* test of IsTerminated.  When read() returns 0 the loop of OnReadEvent    *)
(* goes on, and read() returns 0 again.                                    *)
EofLeavesLoop == cpc = "read" /\ serverFin = "arrived" ~> cpc = "check"

-----------------------------------------------------------------------------
(* What the session implements.                                            *)

Stream == INSTANCE Streaming
            WITH stage <- player_state_, received <- segment_counter_,
                 played <- playback_index_

(* As long as the server does not go away, the client's sockets, alarms    *)
(* and handlers amount to the stream of module Streaming ...               *)
ImplementsStreaming == Stream!Spec

(* ... and, when nothing fails, to one that goes on until it is done.      *)
ImplementsFairStreaming == Stream!FairSpec
============================================================================
