----------------------------- MODULE DashClient -----------------------------
(***************************************************************************)
(* DashClient (dash/dash_client.cc) and the loop of dash_client_test.cc    *)
(* that runs it: connecting, asking for one segment after the other,       *)
(* counting the bytes that come back and playing the frames.               *)
(*                                                                         *)
(* cpc says where the client's only thread is: "start" before AsynConnect, *)
(* "poll" in epoll_wait, "read" in the loop of OnReadEvent, "alarms" when  *)
(* the events of a turn are handled and its alarms are not, "check" at the *)
(* test of IsTerminated, "exited" after delete client.                     *)
(*                                                                         *)
(* Time is not modelled: an alarm that is set may fire in any turn.  Which *)
(* quality the adaptation algorithm picks, and whether it delays the       *)
(* request, is open.                                                       *)
(***************************************************************************)
EXTENDS Tcp

CONSTANTS
  Qualities,        (* the number of representations of the video          *)
  Segments,         (* the number of segments of each of them              *)
  Representation,   (* Representation[q][i], bytes of segment i at level q *)
  InitSegments,     (* init_segments_, segments buffered before playing    *)
  FramesInSegment   (* frames_in_segment_                                  *)

ASSUME ClientAssumption ==
  /\ Qualities \in Nat \ {0}
  /\ Segments \in Nat \ {0}
  /\ Representation \in [0 .. Qualities-1 -> [0 .. Segments-1 -> Nat \ {0}]]
  /\ InitSegments \in Nat
  /\ FramesInSegment \in Nat \ {0}

VARIABLES
  cpc,                  (* where the client's thread is                    *)
  status_,              (* TcpConnectionStatus                             *)
  fdOpen,               (* fd_ > 0                                         *)
  fdRegistered,         (* fd_ is known to the epoll server                *)
  player_state_,        (* DashPlayerState                                 *)
  quality_,             (* level of the segment asked for last             *)
  index_,               (* segments requested, |transmissionRequested|     *)
  segment_bytes_,       (* bytes of the current segment                    *)
  read_bytes_,          (* bytes of it read so far                         *)
  transmissionStarts,   (* |throughput_.transmissionStart|                 *)
  segment_counter_,     (* segments received, |throughput_.transmissionEnd| *)
  segments_in_buffer_,
  playback_index_,      (* segments played                                 *)
  played_frames_,
  player_alarm_,        (* player_alarm_ is set                            *)
  request_alarm_        (* request_alarm_ is set                           *)

playerVars == <<player_state_, segments_in_buffer_, playback_index_, played_frames_,
                player_alarm_>>
fetchVars  == <<quality_, index_, segment_bytes_, read_bytes_, transmissionStarts,
                segment_counter_, request_alarm_>>
fdVars     == <<status_, fdOpen, fdRegistered>>
clientVars == <<cpc, fdVars, playerVars, fetchVars>>

FdTypeOK ==
  /\ status_ \in {"DISCONNECT", "CONNECTING", "CONNECTED"}
  /\ fdOpen \in BOOLEAN
  /\ fdRegistered \in BOOLEAN

PlayerTypeOK ==
  /\ player_state_ \in {"NOT_STARTED", "INIT_BUFFERING", "PLAY", "PAUSED", "DONE"}
  /\ segments_in_buffer_ \in Nat
  /\ playback_index_ \in Nat
  /\ played_frames_ \in Nat
  /\ player_alarm_ \in BOOLEAN

FetchTypeOK ==
  /\ quality_ \in 0 .. Qualities-1
  /\ index_ \in 0 .. Segments
  /\ segment_bytes_ \in Nat
  /\ read_bytes_ \in Nat
  /\ transmissionStarts \in Nat
  /\ segment_counter_ \in Nat
  /\ request_alarm_ \in BOOLEAN

ClientTypeOK ==
  /\ cpc \in {"start", "poll", "read", "alarms", "check", "exited"}
  /\ FdTypeOK
  /\ PlayerTypeOK
  /\ FetchTypeOK

ClientInit ==
  /\ cpc = "start"
  /\ status_ = "DISCONNECT"
  /\ fdOpen = FALSE
  /\ fdRegistered = FALSE
  /\ player_state_ = "NOT_STARTED"
  /\ quality_ = 0
  /\ index_ = 0
  /\ segment_bytes_ = 0
  /\ read_bytes_ = 0
  /\ transmissionStarts = 0
  /\ segment_counter_ = 0
  /\ segments_in_buffer_ = 0
  /\ playback_index_ = 0
  /\ played_frames_ = 0
  /\ player_alarm_ = FALSE
  /\ request_alarm_ = FALSE

-----------------------------------------------------------------------------
(* Connecting.                                                             *)

(* AsynConnect when connect() reports EINPROGRESS, or success at once.     *)
ConnectInProgress ==
  /\ cpc = "start"
  /\ conn' = "syn"
  /\ status_' = "CONNECTING"
  /\ fdOpen' = TRUE
  /\ fdRegistered' = TRUE
  /\ cpc' = "poll"
  /\ UNCHANGED <<up, wire, rcvbuf, clientFin, serverFin, clientEdge, reset, serverEdge,
                 playerVars, fetchVars>>

(* Any other errno but EAGAIN sets the player's state and goes on.         *)
ConnectError ==
  /\ "connect" \in Faults
  /\ cpc = "start"
  /\ conn' = "refused"
  /\ clientEdge' = TRUE
  /\ player_state_' = "INIT_BUFFERING"
  /\ status_' = "CONNECTING"
  /\ fdOpen' = TRUE
  /\ fdRegistered' = TRUE
  /\ cpc' = "poll"
  /\ UNCHANGED <<up, wire, rcvbuf, clientFin, serverFin, reset, serverEdge,
                 segments_in_buffer_, playback_index_, played_frames_, player_alarm_,
                 fetchVars>>

(* socket, bind, setsockopt or connect (EAGAIN) fails, or there is no      *)
(* video: AsynConnect returns false and main deletes the client.           *)
ConnectFails ==
  /\ "connect" \in Faults
  /\ cpc = "start"
  /\ cpc' = "exited"
  /\ UNCHANGED <<tcpVars, fdVars, playerVars, fetchVars>>

-----------------------------------------------------------------------------
(* Helpers that several handlers call.                                     *)

(* UnregisterFD and Close, with so many bytes unread.                      *)
Close(unread) ==
  /\ fdRegistered' = FALSE
  /\ fdOpen' = FALSE
  /\ status_' = IF fdOpen THEN "DISCONNECT" ELSE status_
  /\ IF fdOpen THEN ClientSocketClosed(unread)
               ELSE UNCHANGED <<clientFin, rcvbuf, serverEdge, reset>>

SendRequest(bytes) ==
  IF fdOpen THEN up' = Append(up, bytes) /\ serverEdge' = TRUE
            ELSE UNCHANGED <<up, serverEdge>>

DelayRequestHandle(bytes) ==
  IF index_ < Segments
  THEN SendRequest(bytes) /\ index_' = index_ + 1
  ELSE UNCHANGED <<up, serverEdge, index_>>

(* What GetNextQuality may answer: every algorithm returns the default     *)
(* AlgorithmReply, lowest level and no delay, for the first segment.       *)
Replies(segmentCount) ==
  IF segmentCount = 0 THEN [nextQuality : {0}, delayed : {FALSE}]
                      ELSE [nextQuality : 0 .. Qualities-1, delayed : BOOLEAN]

(* Mutant: a delayed request is sent at once, too.                         *)
RequestTwice(reply) ==
  LET bytes == Representation[reply.nextQuality][index_] IN
  /\ quality_' = reply.nextQuality
  /\ read_bytes_' = 0
  /\ segment_bytes_' = bytes
  /\ request_alarm_' = (reply.delayed \/ request_alarm_)
  /\ DelayRequestHandle(bytes)

(* Mutant: the bytes of the last segment are counted again.                *)
RequestKeepsBytes(reply) ==
  LET bytes == Representation[reply.nextQuality][index_] IN
  /\ quality_' = reply.nextQuality
  /\ read_bytes_' = segment_bytes_
  /\ segment_bytes_' = bytes
  /\ request_alarm_' = (reply.delayed \/ request_alarm_)
  /\ IF reply.delayed THEN UNCHANGED <<up, serverEdge, index_>>
                      ELSE DelayRequestHandle(bytes)

(* The algorithm's reply: what to ask for, and whether to wait.            *)
Request(reply) ==
  LET bytes == Representation[reply.nextQuality][index_] IN
  /\ quality_' = reply.nextQuality
  /\ read_bytes_' = 0
  /\ segment_bytes_' = bytes
  /\ request_alarm_' = (reply.delayed \/ request_alarm_)
  /\ IF reply.delayed THEN UNCHANGED <<up, serverEdge, index_>>
                      ELSE DelayRequestHandle(bytes)

RequestSegment == \E reply \in Replies(index_) : Request(reply)

(* Mutant: a paused player never resumes.                                  *)
CheckBufferStatusNoResume(buffered) ==
  IF player_state_ = "INIT_BUFFERING" /\ buffered >= InitSegments
  THEN player_state_' = "PLAY" /\ player_alarm_' = TRUE
  ELSE UNCHANGED <<player_state_, player_alarm_>>

(* Mutant: a paused player resumes, but its alarm is not set.              *)
CheckBufferStatusNoAlarm(buffered) ==
  IF \/ player_state_ = "INIT_BUFFERING" /\ buffered >= InitSegments
     \/ player_state_ = "PAUSED" /\ buffered > 0
  THEN /\ player_state_' = "PLAY"
       /\ player_alarm_' = (player_state_ = "INIT_BUFFERING")
  ELSE UNCHANGED <<player_state_, player_alarm_>>

(* The player starts when enough is buffered and resumes when anything is. *)
CheckBufferStatus(buffered) ==
  IF \/ player_state_ = "INIT_BUFFERING" /\ buffered >= InitSegments
     \/ player_state_ = "PAUSED" /\ buffered > 0
  THEN player_state_' = "PLAY" /\ player_alarm_' = TRUE
  ELSE UNCHANGED <<player_state_, player_alarm_>>

-----------------------------------------------------------------------------
(* OnEvent, for an event of the edge-triggered descriptor.                 *)

HangUp == conn = "refused" \/ serverFin = "arrived"

Event ==
  /\ fdRegistered
  /\ clientEdge
  /\ HangUp \/ rcvbuf > 0 \/ (conn = "established" /\ status_ = "CONNECTING")

(* Mutant: a hang-up does not set the player's state.                      *)
OnEventErrorNotDone ==
  /\ cpc = "poll"
  /\ Event
  /\ HangUp
  /\ clientEdge' = FALSE
  /\ Close(rcvbuf)
  /\ cpc' = "alarms"
  /\ UNCHANGED <<conn, up, wire, serverFin, playerVars, fetchVars>>

(* EPOLLERR, EPOLLHUP or EPOLLRDHUP: the reads and the connection branch   *)
(* that follow find the descriptor closed.                                 *)
OnEventError ==
  /\ cpc = "poll"
  /\ Event
  /\ HangUp
  /\ clientEdge' = FALSE
  /\ player_state_' = "DONE"
  /\ Close(rcvbuf)
  /\ cpc' = "alarms"
  /\ UNCHANGED <<conn, up, wire, serverFin, segments_in_buffer_, playback_index_,
                 played_frames_, player_alarm_, fetchVars>>

(* EPOLLOUT while connecting: OnConnected.  No byte can be readable yet.   *)
OnEventConnected ==
  /\ cpc = "poll"
  /\ Event
  /\ ~HangUp
  /\ status_ = "CONNECTING"
  /\ clientEdge' = FALSE
  /\ status_' = "CONNECTED"
  /\ player_state_' = "INIT_BUFFERING"
  /\ RequestSegment
  /\ cpc' = "alarms"
  /\ UNCHANGED <<conn, wire, rcvbuf, clientFin, serverFin, reset, fdOpen, fdRegistered,
                 segments_in_buffer_, playback_index_, played_frames_, player_alarm_,
                 transmissionStarts, segment_counter_>>

(* EPOLLIN: OnReadEvent starts.                                            *)
OnEventReadable ==
  /\ cpc = "poll"
  /\ Event
  /\ ~HangUp
  /\ status_ = "CONNECTED"
  /\ clientEdge' = FALSE
  /\ cpc' = "read"
  /\ UNCHANGED <<conn, up, wire, rcvbuf, clientFin, serverFin, reset, serverEdge,
                 fdVars, playerVars, fetchVars>>

-----------------------------------------------------------------------------
(* OnReadEvent, one read() at a time.                                      *)

BytesRead == Least(BufferSize, rcvbuf)

(* Mutant: off by one.                                                     *)
AllRequestedButOne == index_ = Segments - 1

(* There is no segment left to ask for.                                    *)
AllRequested == index_ = Segments

(* The bytes read do not complete the segment.                             *)
ReadPart ==
  /\ cpc = "read"
  /\ rcvbuf > 0
  /\ read_bytes_ + BytesRead # segment_bytes_
  /\ transmissionStarts' = IF read_bytes_ = 0 THEN transmissionStarts + 1
                                              ELSE transmissionStarts
  /\ read_bytes_' = read_bytes_ + BytesRead
  /\ rcvbuf' = rcvbuf - BytesRead
  /\ UNCHANGED <<conn, up, wire, clientFin, serverFin, clientEdge, reset, serverEdge, cpc,
                 fdVars, playerVars, quality_, index_, segment_bytes_,
                 segment_counter_, request_alarm_>>

(* They complete it: the player gets the segment, and the client closes    *)
(* after the last one or asks for the next.                                *)
ReadSegment ==
  /\ cpc = "read"
  /\ rcvbuf > 0
  /\ read_bytes_ + BytesRead = segment_bytes_
  /\ transmissionStarts' = IF read_bytes_ = 0 THEN transmissionStarts + 1
                                              ELSE transmissionStarts
  /\ segment_counter_' = segment_counter_ + 1
  /\ segments_in_buffer_' = segments_in_buffer_ + 1
  /\ CheckBufferStatus(segments_in_buffer_ + 1)
  /\ IF AllRequested
     THEN /\ Close(rcvbuf - BytesRead)
          /\ read_bytes_' = segment_bytes_
          /\ cpc' = "alarms"
          /\ UNCHANGED <<up, quality_, index_, segment_bytes_, request_alarm_>>
     ELSE /\ RequestSegment
          /\ rcvbuf' = rcvbuf - BytesRead
          /\ UNCHANGED <<clientFin, reset, fdVars, cpc>>
  /\ UNCHANGED <<conn, wire, serverFin, clientEdge, playback_index_, played_frames_>>

(* Mutant: OnReadEvent returns before the socket is drained.               *)
ReadWouldBlockEarly ==
  /\ cpc = "read"
  /\ serverFin # "arrived"
  /\ cpc' = "alarms"
  /\ UNCHANGED <<tcpVars, fdVars, playerVars, fetchVars>>

(* read() returns -1 for want of data: OnReadEvent returns.                *)
ReadWouldBlock ==
  /\ cpc = "read"
  /\ rcvbuf = 0
  /\ serverFin # "arrived"
  /\ cpc' = "alarms"
  /\ UNCHANGED <<tcpVars, fdVars, playerVars, fetchVars>>

(* read() returns 0: the descriptor is unregistered and read again.        *)
ReadEof ==
  /\ cpc = "read"
  /\ rcvbuf = 0
  /\ serverFin = "arrived"
  /\ fdRegistered' = FALSE
  /\ UNCHANGED <<tcpVars, cpc, status_, fdOpen, playerVars, fetchVars>>

-----------------------------------------------------------------------------
(* The alarms of a turn, and the end of the turn.                          *)

(* The frame being played is the last one of a buffered segment.           *)
SegmentPlayed ==
  segments_in_buffer_ > 0 /\ (played_frames_ + 1) % FramesInSegment = 0

(* Mutant: off by one.                                                     *)
StateWhenEmptyEarly(played) == IF played >= Segments - 1 THEN "DONE" ELSE "PAUSED"

StateWhenEmpty(played) == IF played >= Segments THEN "DONE" ELSE "PAUSED"

(* Mutant: without the tests of segments_in_buffer_, the alarm is set      *)
(* again whether there is a segment or not.                                *)
PlayBackHandleUnguarded ==
  LET freed == IF (played_frames_ + 1) % FramesInSegment = 0 THEN 1 ELSE 0 IN
  /\ played_frames_' = played_frames_ + 1
  /\ segments_in_buffer_' = segments_in_buffer_ - freed
  /\ playback_index_' = playback_index_ + freed
  /\ player_alarm_' = TRUE
  /\ player_state_' = IF segments_in_buffer_' > 0 THEN player_state_
                                                  ELSE StateWhenEmpty(playback_index_')

(* Mutant: playback_index_ counts every frame.                             *)
PlayBackHandleCountsFrames ==
  LET freed == IF SegmentPlayed THEN 1 ELSE 0 IN
  /\ played_frames_' = played_frames_ + (IF segments_in_buffer_ > 0 THEN 1 ELSE 0)
  /\ segments_in_buffer_' = segments_in_buffer_ - freed
  /\ playback_index_' = playback_index_ + 1
  /\ player_alarm_' = (segments_in_buffer_' > 0)
  /\ player_state_' = IF segments_in_buffer_' > 0 THEN player_state_
                                                  ELSE StateWhenEmpty(playback_index_')

(* One frame is played; the last frame of a segment frees it, and the last *)
(* segment in the buffer ends the video or pauses the player.              *)
PlayBackHandle ==
  LET freed == IF SegmentPlayed THEN 1 ELSE 0 IN
  /\ played_frames_' = played_frames_ + (IF segments_in_buffer_ > 0 THEN 1 ELSE 0)
  /\ segments_in_buffer_' = segments_in_buffer_ - freed
  /\ playback_index_' = playback_index_ + freed
  /\ player_alarm_' = (segments_in_buffer_' > 0)
  /\ player_state_' = IF segments_in_buffer_' > 0 THEN player_state_
                                                  ELSE StateWhenEmpty(playback_index_')

(* After the events of a turn, any of the alarms that are set are due;     *)
(* without an event epoll_wait returns only for an alarm.                  *)
ExecuteAlarms(player, request) ==
  /\ \/ cpc = "alarms"
     \/ cpc = "poll" /\ ~Event /\ (player \/ request)
  /\ player => player_alarm_
  /\ request => request_alarm_
  /\ IF player THEN PlayBackHandle ELSE UNCHANGED playerVars
  /\ IF request THEN request_alarm_' = FALSE /\ DelayRequestHandle(segment_bytes_)
                ELSE UNCHANGED <<request_alarm_, up, serverEdge, index_>>
  /\ cpc' = "check"
  /\ UNCHANGED <<conn, wire, rcvbuf, clientFin, serverFin, clientEdge, reset, fdVars,
                 quality_, segment_bytes_, read_bytes_, transmissionStarts,
                 segment_counter_>>

(* delete client: both alarms are cancelled, the descriptor is closed.     *)
DeleteClient ==
  /\ cpc' = "exited"
  /\ player_alarm_' = FALSE
  /\ request_alarm_' = FALSE
  /\ Close(rcvbuf)
  /\ UNCHANGED <<conn, up, wire, serverFin, clientEdge, player_state_,
                 segments_in_buffer_, playback_index_, played_frames_, quality_,
                 index_, segment_bytes_, read_bytes_, transmissionStarts,
                 segment_counter_>>

Terminate ==
  /\ cpc = "check"
  /\ player_state_ = "DONE"
  /\ DeleteClient

NextTurn ==
  /\ cpc = "check"
  /\ player_state_ # "DONE"
  /\ cpc' = "poll"
  /\ UNCHANGED <<tcpVars, fdVars, playerVars, fetchVars>>

(* SIGINT or SIGTERM clears g_running, and the loop ends with the turn,    *)
(* which may be one that waited for nothing, or does not start at all.     *)
Interrupt ==
  /\ "interrupt" \in Faults
  /\ cpc \in {"poll", "check"}
  /\ DeleteClient

ClientStep ==
  \/ ConnectInProgress
  \/ ConnectError
  \/ ConnectFails
  \/ OnEventError
  \/ OnEventConnected
  \/ OnEventReadable
  \/ ReadPart
  \/ ReadSegment
  \/ ReadWouldBlock
  \/ ReadEof
  \/ \E player, request \in BOOLEAN : ExecuteAlarms(player, request)
  \/ Terminate
  \/ NextTurn
============================================================================
