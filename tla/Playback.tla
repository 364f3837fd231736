------------------------------ MODULE Playback ------------------------------
(***************************************************************************)
(* The clock of DashClient (dash/dash_client.cc): the times that it takes  *)
(* of segments, the buffer level that it computes from them for its        *)
(* adaptation algorithm, and the startup and pause times of its player.    *)
(*                                                                         *)
(* The unit is a millisecond.  All that is handled in one turn of the      *)
(* epoll loop happens at one ApproximateNow.  In a turn the descriptor is  *)
(* read first and the alarms that are due run then.  Bytes are only "some" *)
(* or "all" of a segment here; module DashClient counts them.              *)
(***************************************************************************)
EXTENDS VideoFiles, Predictor

CONSTANTS
  VideoLogs,        (* the lists of video files that may be given          *)
  SegmentDuration,  (* segmentDuration                                     *)
  InitSegments,     (* init_segments_                                      *)
  Delays,           (* nextDownloadDelay, what the algorithm may answer    *)
  Horizon,          (* of the throughput prediction, kThroughputHorizon    *)
  Gaps,             (* how long a turn may come after the one before       *)
  Lateness          (* how long after it is due an alarm may run           *)

FrameMs == 1000 \div 25   (* 1000 / kFramesPerSecond                       *)
FramesInSegment == (SegmentDuration * 25) \div 1000

ASSUME PlaybackAssumption ==
  /\ SegmentDuration \in Nat /\ SegmentDuration >= FrameMs
  /\ InitSegments \in Nat
  /\ Delays \subseteq Nat
  /\ Horizon \in Nat \ {0}
  /\ Gaps \subseteq Nat \ {0}
  /\ Lateness \in Nat

ASSUME FilesAssumption == \A log \in VideoLogs : WellFormed(log)

VARIABLES
  video,                (* video_data_.representation                      *)
  clock,                (* ApproximateNow of the current or last turn      *)
  turn,                 (* "wait" in epoll_wait, "events" in a turn        *)
  player_state_,
  segments_in_buffer_,
  playback_index_,
  played_frames_,
  player_alarm_,        (* the deadlines of the alarms, 0 if not set       *)
  request_alarm_,
  startup_time_,
  pause_time_,
  pause_start_,
  quality_,             (* the level asked for last                        *)
  index_,               (* segments requested                              *)
  reading,              (* read_bytes_ > 0, part of a segment has come     *)
  transmissionStart,    (* when the first part of the last segment came    *)
  throughput_,          (* start, end and size of the segments received    *)
  level                 (* bufferLevelNew.back()                           *)

playerVars == <<player_state_, segments_in_buffer_, playback_index_, played_frames_,
                player_alarm_, pause_start_>>
timeVars   == <<startup_time_, pause_time_>>
fetchVars  == <<quality_, index_, request_alarm_>>
sampleVars == <<reading, transmissionStart, throughput_, level>>
vars == <<video, clock, turn, playerVars, timeVars, fetchVars, sampleVars>>

Qualities == DOMAIN video
Segments == Cardinality(DOMAIN video[0])
segment_counter_ == Len(throughput_)
transmissionEnd == IF throughput_ = <<>> THEN 0 ELSE throughput_[Len(throughput_)].end

PlaybackTypeOK ==
  /\ clock \in Nat \ {0}
  /\ turn \in {"wait", "events"}
  /\ player_state_ \in {"INIT_BUFFERING", "PLAY", "PAUSED", "DONE"}
  /\ segments_in_buffer_ \in Nat
  /\ playback_index_ \in Nat
  /\ played_frames_ \in Nat
  /\ player_alarm_ \in Nat
  /\ request_alarm_ \in Nat
  /\ startup_time_ \in Nat
  /\ pause_time_ \in Nat
  /\ pause_start_ \in Nat
  /\ quality_ \in Qualities
  /\ index_ \in 0 .. Segments
  /\ reading \in BOOLEAN
  /\ transmissionStart \in Nat
  /\ throughput_ \in Seq([start : Nat, end : Nat, bytes : Nat])
  /\ level \in Nat

first_request_time_ == 1

(* OnConnected: the first segment is asked for, at the lowest level.       *)
Init ==
  /\ \E log \in VideoLogs : video = ReadSegmentFromFile(log)
  /\ clock = first_request_time_
  /\ turn = "wait"
  /\ player_state_ = "INIT_BUFFERING"
  /\ segments_in_buffer_ = 0
  /\ playback_index_ = 0
  /\ played_frames_ = 0
  /\ player_alarm_ = 0
  /\ request_alarm_ = 0
  /\ startup_time_ = 0
  /\ pause_time_ = 0
  /\ pause_start_ = 0
  /\ quality_ = 0
  /\ index_ = 1
  /\ reading = FALSE
  /\ transmissionStart = 0
  /\ throughput_ = <<>>
  /\ level = 0

-----------------------------------------------------------------------------
(* A turn of the epoll loop.                                               *)

(* The loop gets to every alarm that is set soon after it is due.          *)
OnTime(now) ==
  /\ player_alarm_ # 0 => now <= player_alarm_ + Lateness
  /\ request_alarm_ # 0 => now <= request_alarm_ + Lateness

(* epoll_wait returns, or the turn goes on.                                *)
Now == IF turn = "events" THEN {clock} ELSE {t \in {clock + gap : gap \in Gaps} : OnTime(t)}

Due(alarm, now) == alarm # 0 /\ alarm <= now

-----------------------------------------------------------------------------
(* Reading.                                                                *)

Requested == index_ > segment_counter_

(* The first bytes of a segment are read, and not yet the last.            *)
ReadFirst(now) ==
  /\ Requested
  /\ ~reading
  /\ clock' = now
  /\ turn' = "events"
  /\ reading' = TRUE
  /\ transmissionStart' = now
  /\ UNCHANGED <<video, playerVars, timeVars, fetchVars, throughput_, level>>

(* Mutant: the buffer is taken to drain while the player waits to start.   *)
BufferLevelOldDrains(now) ==
  LET left == level - (now - transmissionEnd) IN IF left > 0 THEN left ELSE 0

(* Mutant: a buffer that ran empty goes on draining.                       *)
BufferLevelOldBelowZero(now) ==
  IF player_state_ = "INIT_BUFFERING" THEN level ELSE level - (now - transmissionEnd)

(* bufferLevelOld: what was buffered before this segment.                  *)
BufferLevelOld(now) ==
  LET left == IF player_state_ = "INIT_BUFFERING" THEN level
              ELSE level - (now - transmissionEnd) IN
  IF left > 0 THEN left ELSE 0

(* Mutant: the pause that ends is not added up.                            *)
CheckBufferStatusForgets(now, buffered) ==
  LET starts  == player_state_ = "INIT_BUFFERING" /\ buffered >= InitSegments
      resumes == player_state_ = "PAUSED" /\ buffered > 0 IN
  /\ player_state_' = IF starts \/ resumes THEN "PLAY" ELSE player_state_
  /\ player_alarm_' = IF starts \/ resumes THEN now ELSE player_alarm_
  /\ startup_time_' = IF starts THEN now - first_request_time_ ELSE startup_time_
  /\ pause_start_' = IF resumes THEN 0 ELSE pause_start_
  /\ UNCHANGED pause_time_

(* The player starts, or resumes and its pause is over.                    *)
CheckBufferStatus(now, buffered) ==
  LET starts  == player_state_ = "INIT_BUFFERING" /\ buffered >= InitSegments
      resumes == player_state_ = "PAUSED" /\ buffered > 0 IN
  /\ player_state_' = IF starts \/ resumes THEN "PLAY" ELSE player_state_
  /\ player_alarm_' = IF starts \/ resumes THEN now ELSE player_alarm_
  /\ startup_time_' = IF starts THEN now - first_request_time_ ELSE startup_time_
  /\ pause_time_' = IF resumes THEN pause_time_ + (now - pause_start_) ELSE pause_time_
  /\ pause_start_' = IF resumes THEN 0 ELSE pause_start_

(* RequestSegment: what the algorithm answers is open.                     *)
RequestSegment(now) ==
  \E delay \in Delays :
    /\ quality_' \in Qualities
    /\ index_' = IF delay = 0 THEN index_ + 1 ELSE index_
    /\ request_alarm_' = IF delay = 0 THEN request_alarm_ ELSE now + delay

(* The last bytes of a segment are read.                                   *)
ReadLast(now) ==
  /\ Requested
  /\ reading
  /\ clock' = now
  /\ turn' = "events"
  /\ reading' = FALSE
  /\ throughput_' = Append(throughput_, [start |-> transmissionStart, end |-> now,
                                         bytes |-> video[quality_][segment_counter_]])
  /\ level' = BufferLevelOld(now) + SegmentDuration
  /\ segments_in_buffer_' = segments_in_buffer_ + 1
  /\ CheckBufferStatus(now, segments_in_buffer_ + 1)
  /\ IF index_ = Segments THEN UNCHANGED fetchVars ELSE RequestSegment(now)
  /\ UNCHANGED <<video, playback_index_, played_frames_, transmissionStart>>

-----------------------------------------------------------------------------
(* The alarms.                                                             *)

(* Mutant: whether it was the last segment is asked before it is counted.  *)
PlayBackHandleStale(now) ==
  LET freed  == IF (played_frames_ + 1) % FramesInSegment = 0 THEN 1 ELSE 0
      pauses == segments_in_buffer_ = freed /\ playback_index_ < Segments IN
  /\ played_frames_' = played_frames_ + 1
  /\ segments_in_buffer_' = segments_in_buffer_ - freed
  /\ playback_index_' = playback_index_ + freed
  /\ player_alarm_' = IF segments_in_buffer_ > freed THEN now + FrameMs ELSE 0
  /\ player_state_' = CASE segments_in_buffer_ > freed -> player_state_
                        [] segments_in_buffer_ = freed -> IF pauses THEN "PAUSED" ELSE "DONE"
  /\ pause_start_' = IF pauses THEN now ELSE pause_start_

(* The alarm is set only while a segment is buffered, so a frame is played. *)
PlayBackHandle(now) ==
  LET freed  == IF (played_frames_ + 1) % FramesInSegment = 0 THEN 1 ELSE 0
      pauses == segments_in_buffer_ = freed /\ playback_index_ + freed < Segments IN
  /\ played_frames_' = played_frames_ + 1
  /\ segments_in_buffer_' = segments_in_buffer_ - freed
  /\ playback_index_' = playback_index_ + freed
  /\ player_alarm_' = IF segments_in_buffer_ > freed THEN now + FrameMs ELSE 0
  /\ player_state_' = CASE segments_in_buffer_ > freed -> player_state_
                        [] segments_in_buffer_ = freed -> IF pauses THEN "PAUSED" ELSE "DONE"
  /\ pause_start_' = IF pauses THEN now ELSE pause_start_

(* DelayRequestHandle, when request_alarm_ goes off.                       *)
DelayRequestHandle ==
  /\ request_alarm_' = 0
  /\ index_' = IF index_ < Segments THEN index_ + 1 ELSE index_
  /\ UNCHANGED quality_

(* The turn ends with the alarms that are due.                             *)
ExecuteAlarms(now) ==
  /\ turn = "events" \/ Due(player_alarm_, now) \/ Due(request_alarm_, now)
  /\ clock' = now
  /\ turn' = "wait"
  /\ IF Due(player_alarm_, now) THEN PlayBackHandle(now) ELSE UNCHANGED playerVars
  /\ IF Due(request_alarm_, now) THEN DelayRequestHandle ELSE UNCHANGED fetchVars
  /\ UNCHANGED <<video, timeVars, sampleVars>>

(* The loop of dash_client_test.cc goes on until the client is DONE.       *)
Next ==
  /\ player_state_ # "DONE"
  /\ \E now \in Now : ReadFirst(now) \/ ReadLast(now) \/ ExecuteAlarms(now)

Spec == Init /\ [][Next]_vars

-----------------------------------------------------------------------------
(* What CalculateQoE charges for, and the pause that has not ended yet.    *)
Charged ==
  startup_time_ + pause_time_
    + (IF player_state_ = "PAUSED" THEN clock - pause_start_ ELSE 0)

(* Once the player has started, the time that is not charged as startup or *)
(* pause is what the played frames take: none is lost when handlers change *)
(* the player's state, and none is charged twice.  A pause begins with the *)
(* last frame of a segment, not with its end, so a frame can go uncounted  *)
(* for every segment played.                                               *)
StallsCharged ==
  player_state_ # "INIT_BUFFERING" =>
    LET played == clock - first_request_time_ - Charged IN
    /\ played <= (FrameMs + Lateness) * played_frames_ + Lateness
    /\ played >= FrameMs * (played_frames_ - playback_index_ - 1)

(* What the frames in the buffer take to play.                             *)
Playable == FrameMs * (segment_counter_ * FramesInSegment - played_frames_)

(* How far the computed level may be above that: a frame for every pause,  *)
(* because the player resumes without waiting for the end of the last      *)
(* frame, and what FramesInSegment rounds off of every segment.            *)
Overstated ==
  FrameMs * (playback_index_ + 1)
    + (SegmentDuration - FrameMs * FramesInSegment) * segment_counter_

(* The level that the algorithms are given, less the time since, is what   *)
(* is buffered, within Overstated, and within what late alarms add up to.  *)
LevelTracksBuffer ==
  LET left == IF player_state_ = "INIT_BUFFERING" THEN level
              ELSE level - (clock - transmissionEnd) IN
  player_state_ # "DONE" =>
    /\ left <= Playable + Overstated
    /\ left >= 0 => Playable <= left + Lateness * (played_frames_ + 1)

(* The predicted throughput lies between those of the slowest and of the   *)
(* fastest of the last segments: what SegmentLoop takes for granted.       *)
EstimateWithinSamples ==
  LET window == Window(throughput_, Horizon)
      p      == Predict(throughput_, Horizon)
      time(i) == DownloadTime(throughput_[i]) IN
  p.time > 0 =>
    /\ \E i \in window : time(i) > 0 /\ throughput_[i].bytes * p.time <= p.bytes * time(i)
    /\ \E i \in window : throughput_[i].bytes * p.time >= p.bytes * time(i)

(* When the last segments all had the same throughput, it is predicted to  *)
(* the bit: what SegmentLoop takes for granted of a constant bandwidth.    *)
EstimateExactWhenSteady ==
  LET window  == Window(throughput_, Horizon)
      p       == Predict(throughput_, Horizon)
      size(i) == throughput_[i].bytes
      time(i) == DownloadTime(throughput_[i]) IN
  /\ p.time > 0
  /\ \A i, j \in window : size(i) * time(j) = size(j) * time(i)
  => \A i \in window : size(i) * p.time = p.bytes * time(i)

(* Every segment asked for is one that the file of its level lists.        *)
RequestsListed ==
  segment_counter_ < Segments =>
    segment_counter_ \in DOMAIN video[quality_] /\ video[quality_][segment_counter_] > 0

-----------------------------------------------------------------------------
(* The viewer's stream, of as many segments as the files list.             *)
Lengths == {Cardinality(DOMAIN ReadSegmentFromFile(log)[0]) : log \in VideoLogs}

Stream(length) == INSTANCE Streaming
  WITH Segments <- length, stage <- player_state_,
       received <- segment_counter_, played <- playback_index_

(* Against the clock, too, every step is one of the stream, or none that a *)
(* viewer can tell: a segment is played with its last frame, alarms that   *)
(* are late or due in the turn that receives a segment included.           *)
PlaysStream ==
  [][\A length \in Lengths : length = Segments => Stream(length)!Next]_
    <<player_state_, segment_counter_, playback_index_>>

-----------------------------------------------------------------------------
(* CHECK(end>start) in Predict: a segment takes time.  One that is read in *)
(* a single turn begins and ends at the same ApproximateNow.               *)
SegmentsTakeTime ==
  \A i \in DOMAIN throughput_ : throughput_[i].end > throughput_[i].start
============================================================================
