-------------------------- MODULE Playback_proofs --------------------------
(***************************************************************************)
(* What is charged as startup and pause, and the level computed from the   *)
(* times of segments, for every video of equally long levels, every        *)
(* segment duration, every pace of the connection and of the loop.         *)
(***************************************************************************)
EXTENDS Playback, PlaybackData_proofs

-----------------------------------------------------------------------------
(* Arithmetic.                                                             *)

(* A segment has a frame at least, and its frames take no longer than it.  *)
LEMMA FramesFit ==
  /\ FrameMs = 40
  /\ FramesInSegment \in Nat \ {0}
  /\ 40 * FramesInSegment <= SegmentDuration
<1>1. SegmentDuration \in Nat /\ SegmentDuration >= 1000 \div 25
  BY PlaybackAssumption DEF FrameMs
<1>2. \A d \in Nat : d >= 1000 \div 25 =>
        /\ 1000 \div 25 = 40
        /\ (d * 25) \div 1000 \in Nat \ {0}
        /\ 40 * ((d * 25) \div 1000) <= d
  BY Z3
<1> QED
  BY <1>1, <1>2 DEF FrameMs, FramesInSegment

(* The frame that ends a segment is the one the remainder tells.           *)
LEMMA LastFrame ==
  ASSUME NEW f \in Nat \ {0}, NEW i \in Nat, NEW p \in Nat,
         i * f <= p, p < (i + 1) * f
  PROVE  /\ (p + 1) % f = 0 => p + 1 = (i + 1) * f
         /\ (p + 1) % f # 0 => p + 1 < (i + 1) * f
<1>1. PICK q \in Int, r \in Int : p + 1 = f * q + r /\ 0 <= r /\ r < f /\ r = (p + 1) % f
  BY Z3
<1>2. q < i => f * q <= f * i - f
  BY Z3
<1>3. q > i + 1 => f * q >= f * i + 2 * f
  BY Z3
<1>4. q = i + 1 => f * q = f * i + f
  BY Z3
<1>5. i * f = f * i /\ (i + 1) * f = f * i + f
  BY Z3
<1>6. f * i \in Int /\ f * q \in Int
  BY Z3
<1>7. q = i \/ q = i + 1
  BY <1>1, <1>2, <1>3, <1>5, <1>6, SMT
<1>8. CASE q = i
  BY <1>1, <1>5, <1>6, <1>8, SMT
<1>9. CASE q = i + 1
  BY <1>1, <1>4, <1>5, <1>6, <1>9, SMT
<1> QED
  BY <1>7, <1>8, <1>9

(* The product of two natural numbers is one.                              *)
LEMMA Product ==
  ASSUME NEW a \in Nat, NEW b \in Nat
  PROVE  a * b >= 0
BY Z3

(* Fewer segments have fewer frames.                                       *)
LEMMA MoreFrames ==
  ASSUME NEW f \in Nat, NEW i \in Nat, NEW j \in Nat, i <= j
  PROVE  i * f <= j * f
BY Z3

(* What is played took no more than what was received lasts.               *)
LEMMA PlayedLasts ==
  ASSUME NEW d \in Nat, NEW f \in Nat, NEW c \in Nat, NEW p \in Nat, NEW i \in Nat,
         40 * f <= d, p <= c * f
  PROVE  40 * (p - i) <= d * c
<1>1. c * (d - 40 * f) >= 0
  BY Z3
<1> QED
  BY <1>1, Z3
(* A sequence that is not empty has a last element.                        *)
LEMMA LastElement ==
  ASSUME NEW S, NEW s \in Seq(S), s # <<>>
  PROVE  s[Len(s)] \in S
<1>1. Len(s) \in 1 .. Len(s)
  OBVIOUS
<1> QED
  BY <1>1

-----------------------------------------------------------------------------
(* Types.                                                                  *)

(* What the model relies on of the video.                                  *)
Listed ==
  /\ 0 \in Qualities
  /\ Segments \in Nat \ {0}
  /\ \A q \in Qualities : video[q] \in [0 .. Segments - 1 -> Nat \ {0}]

(* The types, and the pause does not start later than now.                 *)
TypeInv ==
  /\ PlaybackTypeOK
  /\ Listed
  /\ pause_start_ <= clock

LEMMA TimeGoesOn ==
  ASSUME clock \in Nat \ {0}, NEW now \in Now
  PROVE  /\ now \in Nat \ {0}
         /\ clock <= now
         /\ now = clock \/ OnTime(now)
<1>1. CASE turn = "events"
  BY <1>1 DEF Now
<1>2. CASE turn # "events"
  <2>1. PICK gap \in Gaps : now = clock + gap
    BY <1>2 DEF Now
  <2>2. gap \in Nat \ {0}
    BY <2>1, PlaybackAssumption
  <2>3. OnTime(now)
    BY <1>2 DEF Now
  <2> QED
    BY <2>1, <2>2, <2>3
<1> QED
  BY <1>1, <1>2

(* A table of files is a video.                                            *)
LEMMA TableIsListed ==
  ASSUME NEW log, Table(log), video = ReadSegmentFromFile(log)
  PROVE  Listed
<1>1. 0 \in DOMAIN video
  BY DEF Table
<1>2. PICK n \in Nat \ {0} : \A l \in DOMAIN video : video[l] \in [0 .. n - 1 -> Nat \ {0}]
  BY DEF Table
<1>3. DOMAIN video[0] = 0 .. n - 1
  BY <1>1, <1>2
<1>4. Cardinality(0 .. n - 1) = n
  <2>1. Cardinality(0 .. n - 1) = IF 0 > n - 1 THEN 0 ELSE (n - 1) - 0 + 1
    BY FS_Interval
  <2> QED
    BY <2>1
<1>5. Segments = n
  BY <1>3, <1>4 DEF Segments
<1> QED
  BY <1>1, <1>2, <1>5 DEF Listed, Qualities

(* The video does not change.                                              *)
LEMMA VideoKept ==
  ASSUME UNCHANGED video
  PROVE  Qualities' = Qualities /\ Segments' = Segments /\ (Listed => Listed')
<1>1. Qualities' = Qualities /\ Segments' = Segments
  BY DEF Qualities, Segments
<1> QED
  BY <1>1 DEF Listed

(* A segment is read: one more is counted, and it ends now.                *)
LEMMA SampleTaken ==
  ASSUME TypeInv, NEW now \in Now, ReadLast(now)
  PROVE  /\ throughput_' \in Seq([start : Nat, end : Nat, bytes : Nat])
         /\ segment_counter_ \in Nat
         /\ segment_counter_' = segment_counter_ + 1
         /\ transmissionEnd' = now
<1> DEFINE sample == [start |-> transmissionStart, end |-> now, bytes |-> video[quality_][segment_counter_]]
<1>1. now \in Nat
  BY TimeGoesOn DEF TypeInv, PlaybackTypeOK
<1>2. throughput_ \in Seq([start : Nat, end : Nat, bytes : Nat])
  BY DEF TypeInv, PlaybackTypeOK
<1>3. segment_counter_ \in Nat
  BY <1>2 DEF segment_counter_
<1>4. segment_counter_ < index_ /\ index_ \in 0 .. Segments /\ Segments \in Nat
  BY DEF ReadLast, Requested, TypeInv, PlaybackTypeOK, Listed
<1>5. segment_counter_ \in 0 .. Segments - 1
  BY <1>3, <1>4
<1>6. video[quality_][segment_counter_] \in Nat
  BY <1>5 DEF TypeInv, PlaybackTypeOK, Listed
<1>7. sample \in [start : Nat, end : Nat, bytes : Nat]
  BY <1>1, <1>6 DEF TypeInv, PlaybackTypeOK
<1>8. throughput_' = Append(throughput_, sample)
  BY DEF ReadLast
<1>9. /\ throughput_' \in Seq([start : Nat, end : Nat, bytes : Nat])
      /\ Len(throughput_') = Len(throughput_) + 1
      /\ throughput_'[Len(throughput_) + 1] = sample
  <2> HIDE DEF sample
  <2> QED
    BY <1>2, <1>7, <1>8
<1>10. throughput_'[Len(throughput_')].end = now
  BY <1>9
<1>11. throughput_' # <<>>
  BY <1>2, <1>9
<1> QED
  BY <1>3, <1>9, <1>10, <1>11 DEF segment_counter_, transmissionEnd

(* bufferLevelOld is not negative.                                         *)
LEMMA OldLevel ==
  ASSUME TypeInv, NEW now \in Nat
  PROVE  BufferLevelOld(now) \in Nat /\ transmissionEnd \in Nat
<1>1. transmissionEnd \in Nat
  <2>1. throughput_ \in Seq([start : Nat, end : Nat, bytes : Nat])
    BY DEF TypeInv, PlaybackTypeOK
  <2>2. CASE throughput_ = <<>>
    BY <2>2 DEF transmissionEnd
  <2>3. CASE throughput_ # <<>>
    <3>1. throughput_[Len(throughput_)] \in [start : Nat, end : Nat, bytes : Nat]
      BY <2>1, <2>3, LastElement, Zenon
    <3> QED
      BY <2>3, <3>1 DEF transmissionEnd
  <2> QED
    BY <2>2, <2>3
<1> QED
  BY <1>1 DEF BufferLevelOld, TypeInv, PlaybackTypeOK

LEMMA TypesReadFirst ==
  ASSUME TypeInv, NEW now \in Now, ReadFirst(now)
  PROVE  TypeInv'
<1>1. now \in Nat \ {0} /\ clock <= now /\ clock \in Nat
  BY TimeGoesOn DEF TypeInv, PlaybackTypeOK
<1>2. UNCHANGED <<video, playerVars, timeVars, fetchVars, throughput_, level>> /\ clock' = now
  BY DEF ReadFirst
<1>3. Listed' /\ Qualities' = Qualities /\ Segments' = Segments
  BY <1>2, VideoKept DEF TypeInv
<1>4. pause_start_' <= clock'
  BY <1>1, <1>2 DEF playerVars, TypeInv, PlaybackTypeOK
<1>5. PlaybackTypeOK'
  BY <1>1, <1>2, <1>3 DEF ReadFirst, TypeInv, PlaybackTypeOK, playerVars, timeVars, fetchVars
<1> QED
  BY <1>3, <1>4, <1>5 DEF TypeInv

(* The player may start or resume, and its sums stay times.                *)
LEMMA TypesBufferStatus ==
  ASSUME TypeInv, NEW now \in Now, NEW buffered \in Nat, CheckBufferStatus(now, buffered)
  PROVE  /\ player_state_' \in {"INIT_BUFFERING", "PLAY", "PAUSED", "DONE"}
         /\ player_alarm_' \in Nat
         /\ startup_time_' \in Nat
         /\ pause_time_' \in Nat
         /\ pause_start_' \in Nat
         /\ pause_start_' <= now
<1>1. now \in Nat \ {0} /\ clock <= now /\ clock \in Nat
  BY TimeGoesOn DEF TypeInv, PlaybackTypeOK
<1>2. pause_start_ \in Nat /\ pause_start_ <= now /\ pause_time_ \in Nat /\ startup_time_ \in Nat
      /\ player_alarm_ \in Nat
  BY <1>1 DEF TypeInv, PlaybackTypeOK
<1>3. now - pause_start_ \in Nat /\ now - first_request_time_ \in Nat
  BY <1>1, <1>2 DEF first_request_time_
<1>4. pause_time_' \in Nat
  BY <1>2, <1>3 DEF CheckBufferStatus
<1>5. startup_time_' \in Nat
  BY <1>2, <1>3 DEF CheckBufferStatus
<1> QED
  BY <1>1, <1>2, <1>4, <1>5 DEF CheckBufferStatus, TypeInv, PlaybackTypeOK

LEMMA TypesReadLast ==
  ASSUME TypeInv, NEW now \in Now, ReadLast(now)
  PROVE  TypeInv'
<1>1. now \in Nat \ {0} /\ clock' = now
  BY TimeGoesOn DEF TypeInv, PlaybackTypeOK, ReadLast
<1>2. Listed' /\ Qualities' = Qualities /\ Segments' = Segments
  BY VideoKept DEF TypeInv, ReadLast
<1>3. segments_in_buffer_ + 1 \in Nat /\ CheckBufferStatus(now, segments_in_buffer_ + 1)
  BY DEF TypeInv, PlaybackTypeOK, ReadLast
<1>4. /\ player_state_' \in {"INIT_BUFFERING", "PLAY", "PAUSED", "DONE"}
      /\ player_alarm_' \in Nat
      /\ startup_time_' \in Nat
      /\ pause_time_' \in Nat
      /\ pause_start_' \in Nat
      /\ pause_start_' <= now
  BY <1>3, TypesBufferStatus
<1>5. quality_' \in Qualities /\ index_' \in 0 .. Segments /\ request_alarm_' \in Nat
  <2>1. CASE index_ = Segments
    BY <2>1 DEF ReadLast, fetchVars, TypeInv, PlaybackTypeOK
  <2>2. CASE index_ # Segments
    <3>1. PICK delay \in Delays :
            /\ quality_' \in Qualities
            /\ index_' = IF delay = 0 THEN index_ + 1 ELSE index_
            /\ request_alarm_' = IF delay = 0 THEN request_alarm_ ELSE now + delay
      BY <2>2 DEF ReadLast, RequestSegment
    <3>2. delay \in Nat
      BY PlaybackAssumption
    <3>3. index_ \in 0 .. Segments /\ Segments \in Nat /\ request_alarm_ \in Nat
      BY DEF TypeInv, PlaybackTypeOK, Listed
    <3> QED
      BY <1>1, <1>2, <2>2, <3>1, <3>2, <3>3
  <2> QED
    BY <2>1, <2>2
<1>6. throughput_' \in Seq([start : Nat, end : Nat, bytes : Nat])
  BY SampleTaken
<1>7. level' \in Nat
  <2>1. BufferLevelOld(now) \in Nat /\ SegmentDuration \in Nat
    BY <1>1, OldLevel, PlaybackAssumption
  <2> QED
    BY <2>1 DEF ReadLast
<1>8. PlaybackTypeOK'
  BY <1>1, <1>2, <1>3, <1>4, <1>5, <1>6, <1>7 DEF PlaybackTypeOK, TypeInv, ReadLast
<1> QED
  BY <1>1, <1>2, <1>4, <1>8 DEF TypeInv

(* A frame is played, or not.                                              *)
LEMMA TypesAlarms ==
  ASSUME TypeInv, NEW now \in Now, ExecuteAlarms(now),
         Due(player_alarm_, now) => segments_in_buffer_ > 0
  PROVE  TypeInv'
<1>1. now \in Nat \ {0} /\ clock <= now /\ clock' = now /\ clock \in Nat
  BY TimeGoesOn DEF TypeInv, PlaybackTypeOK, ExecuteAlarms
<1>2. Listed' /\ Qualities' = Qualities /\ Segments' = Segments
  BY VideoKept DEF TypeInv, ExecuteAlarms
<1>3. /\ player_state_' \in {"INIT_BUFFERING", "PLAY", "PAUSED", "DONE"}
      /\ segments_in_buffer_' \in Nat
      /\ playback_index_' \in Nat
      /\ played_frames_' \in Nat
      /\ player_alarm_' \in Nat
      /\ pause_start_' \in Nat
      /\ pause_start_' <= now
  <2>1. CASE Due(player_alarm_, now)
    <3> DEFINE freed == IF (played_frames_ + 1) % FramesInSegment = 0 THEN 1 ELSE 0
    <3>1. freed \in {0, 1}
      OBVIOUS
    <3>2. segments_in_buffer_ \in Nat /\ segments_in_buffer_ > 0 /\ playback_index_ \in Nat
          /\ played_frames_ \in Nat /\ pause_start_ \in Nat /\ pause_start_ <= now
          /\ player_state_ \in {"INIT_BUFFERING", "PLAY", "PAUSED", "DONE"}
      BY <1>1, <2>1 DEF TypeInv, PlaybackTypeOK
    <3>3. /\ played_frames_' = played_frames_ + 1
          /\ segments_in_buffer_' = segments_in_buffer_ - freed
          /\ playback_index_' = playback_index_ + freed
          /\ player_alarm_' = IF segments_in_buffer_ > freed THEN now + 40 ELSE 0
          /\ player_state_' = CASE segments_in_buffer_ > freed -> player_state_
                                [] segments_in_buffer_ = freed ->
                                     IF segments_in_buffer_ = freed /\ playback_index_ + freed < Segments
                                     THEN "PAUSED" ELSE "DONE"
          /\ pause_start_' = IF segments_in_buffer_ = freed /\ playback_index_ + freed < Segments
                             THEN now ELSE pause_start_
      BY <2>1, FramesFit DEF ExecuteAlarms, PlayBackHandle
    <3> HIDE DEF freed
    <3> QED
      BY <1>1, <3>1, <3>2, <3>3
  <2>2. CASE ~Due(player_alarm_, now)
    BY <1>1, <2>2 DEF ExecuteAlarms, playerVars, TypeInv, PlaybackTypeOK
  <2> QED
    BY <2>1, <2>2
<1>4. quality_' \in Qualities /\ index_' \in 0 .. Segments /\ request_alarm_' \in Nat
  <2>1. index_ \in 0 .. Segments /\ Segments \in Nat
    BY DEF TypeInv, PlaybackTypeOK, Listed
  <2> QED
    BY <2>1 DEF ExecuteAlarms, DelayRequestHandle, fetchVars, TypeInv, PlaybackTypeOK
<1>5. PlaybackTypeOK'
  BY <1>1, <1>2, <1>3, <1>4 DEF PlaybackTypeOK, TypeInv, ExecuteAlarms, timeVars, sampleVars
<1> QED
  BY <1>1, <1>2, <1>3, <1>5 DEF TypeInv
-----------------------------------------------------------------------------
(* The inductive invariant.                                                *)

(* The frames played, the segments played and those buffered agree.        *)
FramesInv ==
  /\ segments_in_buffer_ = segment_counter_ - playback_index_
  /\ playback_index_ * FramesInSegment <= played_frames_
  /\ played_frames_ < (playback_index_ + 1) * FramesInSegment
  /\ played_frames_ <= segment_counter_ * FramesInSegment

(* The alarm is set, for at most a frame ahead, just while the player has  *)
(* something to play.                                                      *)
AlarmInv ==
  /\ player_state_ = "PLAY" =>
       /\ segments_in_buffer_ > 0
       /\ player_alarm_ # 0
       /\ clock <= player_alarm_ + Lateness
       /\ player_alarm_ <= clock + 40
  /\ player_state_ # "PLAY" => player_alarm_ = 0
  /\ player_state_ \in {"PAUSED", "DONE"} => segments_in_buffer_ = 0
  /\ player_state_ = "INIT_BUFFERING" =>
       /\ played_frames_ = 0
       /\ startup_time_ = 0
       /\ pause_time_ = 0
       /\ level = SegmentDuration * segment_counter_

(* The time up to t that is charged neither as startup nor as pause, and   *)
(* what the played frames make of it.                                      *)
Ran(t) == t - first_request_time_ - startup_time_ - pause_time_
RanWell(t) ==
  /\ Ran(t) <= (40 + Lateness) * played_frames_
  /\ Ran(t) >= 40 * (played_frames_ - playback_index_)

RanInv ==
  /\ player_state_ = "PLAY" => RanWell(player_alarm_)
  /\ player_state_ = "PAUSED" => RanWell(pause_start_)
  /\ player_state_ = "DONE" => RanWell(clock)

(* What is left of the computed level at t, how much it can be at most, and*)
(* at least.                                                               *)
Left(t) == level - (t - transmissionEnd)
LeftAtMost(t) ==
  Left(t) <= SegmentDuration * segment_counter_ - 40 * (played_frames_ - playback_index_)
LeftAtLeast(t) ==
  Left(t) >= 40 * (segment_counter_ * FramesInSegment) - (40 + Lateness) * played_frames_

LevelInv ==
  /\ player_state_ = "PLAY" =>
       /\ player_alarm_ >= clock => LeftAtMost(player_alarm_)
       /\ player_alarm_ < clock => LeftAtMost(clock)
       /\ LeftAtLeast(player_alarm_)
  /\ player_state_ = "PAUSED" => LeftAtMost(clock)

PlayerInv == FramesInv /\ AlarmInv /\ RanInv /\ LevelInv

(* The variables are numbers, and the counts of the samples.               *)
LEMMA Numbers ==
  ASSUME TypeInv
  PROVE  /\ clock \in Nat \ {0} /\ player_alarm_ \in Nat
         /\ segments_in_buffer_ \in Nat /\ playback_index_ \in Nat /\ played_frames_ \in Nat
         /\ startup_time_ \in Nat /\ pause_time_ \in Nat /\ pause_start_ \in Nat
         /\ level \in Nat /\ segment_counter_ \in Nat /\ transmissionEnd \in Nat
<1>1. throughput_ \in Seq([start : Nat, end : Nat, bytes : Nat])
  BY DEF TypeInv, PlaybackTypeOK
<1>2. segment_counter_ \in Nat
  BY <1>1 DEF segment_counter_
<1>3. transmissionEnd \in Nat
  BY OldLevel
<1> QED
  BY <1>2, <1>3 DEF TypeInv, PlaybackTypeOK

(* Time passes and nothing is played or received.                          *)
LEMMA PlayerWaits ==
  ASSUME TypeInv, PlayerInv, UNCHANGED <<playerVars, timeVars, throughput_, level>>,
         clock' \in Nat, clock <= clock',
         player_alarm_ # 0 => clock' <= player_alarm_ + Lateness,
         player_state_ # "DONE" \/ clock' = clock
  PROVE  PlayerInv'
<1>1. UNCHANGED <<segment_counter_, transmissionEnd>>
  BY DEF segment_counter_, transmissionEnd
<1>2. UNCHANGED <<player_state_, segments_in_buffer_, playback_index_, played_frames_,
                  player_alarm_, pause_start_, startup_time_, pause_time_, level>>
  BY DEF playerVars, timeVars
<1> USE Numbers, FramesFit, PlaybackAssumption
<1>3. FramesInv'
  BY <1>1, <1>2 DEF PlayerInv, FramesInv
<1>4. AlarmInv'
  BY <1>1, <1>2 DEF PlayerInv, AlarmInv
<1>5. RanInv'
  BY <1>1, <1>2 DEF PlayerInv, RanInv, RanWell, Ran, first_request_time_
<1>6. LevelInv'
  BY <1>1, <1>2 DEF PlayerInv, LevelInv, LeftAtMost, LeftAtLeast, Left
<1> QED
  BY <1>3, <1>4, <1>5, <1>6 DEF PlayerInv

-----------------------------------------------------------------------------
(* A segment is received.                                                  *)

(* What ReadLast leaves alone and what it counts.                          *)
LEMMA SegmentCounts ==
  ASSUME TypeInv, NEW now \in Now, ReadLast(now)
  PROVE  /\ now \in Nat \ {0} /\ clock <= now /\ clock' = now
         /\ player_alarm_ # 0 => (now = clock \/ now <= player_alarm_ + Lateness)
         /\ UNCHANGED <<playback_index_, played_frames_>>
         /\ segments_in_buffer_' = segments_in_buffer_ + 1
         /\ segment_counter_' = segment_counter_ + 1
         /\ transmissionEnd' = now
         /\ level' = BufferLevelOld(now) + SegmentDuration
         /\ CheckBufferStatus(now, segments_in_buffer_ + 1)
<1>1. now \in Nat \ {0} /\ clock <= now /\ (now = clock \/ OnTime(now))
  BY TimeGoesOn DEF TypeInv, PlaybackTypeOK
<1> QED
  BY <1>1, SampleTaken DEF OnTime, ReadLast

(* More frames are there to play.                                          *)
LEMMA FramesReceived ==
  ASSUME TypeInv, PlayerInv, NEW now \in Now, ReadLast(now)
  PROVE  FramesInv'
<1>1. /\ UNCHANGED <<playback_index_, played_frames_>>
      /\ segments_in_buffer_' = segments_in_buffer_ + 1
      /\ segment_counter_' = segment_counter_ + 1
  BY SegmentCounts
<1>2. segment_counter_ * FramesInSegment <= (segment_counter_ + 1) * FramesInSegment
  BY Numbers, FramesFit, MoreFrames
<1>3. segment_counter_ * FramesInSegment \in Nat /\ (segment_counter_ + 1) * FramesInSegment \in Nat
  BY Numbers, FramesFit
<1> QED
  BY <1>1, <1>2, <1>3, Numbers, FramesFit DEF PlayerInv, FramesInv

(* While the player has not started all that is received is buffered.      *)
LEMMA LevelStart ==
  ASSUME TypeInv, PlayerInv, NEW now \in Now, ReadLast(now), player_state_ = "INIT_BUFFERING"
  PROVE  level' = SegmentDuration * segment_counter_'
<1>1. level' = level + SegmentDuration /\ segment_counter_' = segment_counter_ + 1
  BY SegmentCounts, Numbers DEF BufferLevelOld
<1>2. level = SegmentDuration * segment_counter_
  BY DEF PlayerInv, AlarmInv
<1> QED
  BY <1>1, <1>2, Numbers, PlaybackAssumption

LEMMA AlarmReceived ==
  ASSUME TypeInv, PlayerInv, NEW now \in Now, ReadLast(now), player_state_ # "DONE"
  PROVE  AlarmInv'
<1>1. /\ now \in Nat \ {0} /\ clock <= now /\ clock' = now
      /\ player_alarm_ # 0 => (now = clock \/ now <= player_alarm_ + Lateness)
      /\ UNCHANGED <<playback_index_, played_frames_>>
      /\ segments_in_buffer_' = segments_in_buffer_ + 1
      /\ CheckBufferStatus(now, segments_in_buffer_ + 1)
  BY SegmentCounts
<1> USE Numbers, PlaybackAssumption
<1>2. CASE player_state_ = "INIT_BUFFERING"
  <2>1. level' = SegmentDuration * segment_counter_'
    BY <1>2, LevelStart
  <2> QED
    BY <1>1, <1>2, <2>1 DEF PlayerInv, AlarmInv, CheckBufferStatus
<1>3. CASE player_state_ = "PLAY"
  BY <1>1, <1>3 DEF PlayerInv, AlarmInv, CheckBufferStatus
<1>4. CASE player_state_ = "PAUSED"
  BY <1>1, <1>4 DEF PlayerInv, AlarmInv, CheckBufferStatus
<1> QED
  BY <1>2, <1>3, <1>4 DEF TypeInv, PlaybackTypeOK

(* A start charges all the time so far, and a resume the pause.            *)
LEMMA RanReceived ==
  ASSUME TypeInv, PlayerInv, NEW now \in Now, ReadLast(now), player_state_ # "DONE"
  PROVE  RanInv'
<1>1. /\ now \in Nat \ {0}
      /\ UNCHANGED <<playback_index_, played_frames_>>
      /\ CheckBufferStatus(now, segments_in_buffer_ + 1)
  BY SegmentCounts
<1> USE Numbers, PlaybackAssumption
<1>2. CASE player_state_ = "INIT_BUFFERING"
  BY <1>1, <1>2 DEF PlayerInv, AlarmInv, CheckBufferStatus, RanInv, RanWell, Ran, first_request_time_
<1>3. CASE player_state_ = "PLAY"
  BY <1>1, <1>3 DEF PlayerInv, CheckBufferStatus, RanInv, RanWell, Ran, first_request_time_
<1>4. CASE player_state_ = "PAUSED"
  BY <1>1, <1>4 DEF PlayerInv, CheckBufferStatus, RanInv, RanWell, Ran, first_request_time_
<1> QED
  BY <1>2, <1>3, <1>4 DEF TypeInv, PlaybackTypeOK

(* A segment more is at most as much more as it lasts, whether the player  *)
(* is ahead of the alarm or behind.                                        *)
LEMMA LevelGrows ==
  ASSUME NEW alarm \in Nat, NEW then \in Nat, NEW now \in Nat, NEW end \in Nat, NEW old \in Nat,
         NEW most \in Nat, NEW d \in Nat, then <= now,
         alarm >= then => old - (alarm - end) <= most,
         alarm < then => old - (then - end) <= most
  PROVE  \A new \in Int :
           new = d + (IF old - (now - end) > 0 THEN old - (now - end) ELSE 0) =>
             /\ alarm >= now => new - (alarm - now) <= most + d
             /\ alarm < now => new <= most + d
OBVIOUS

(* The level grows by a segment, from nothing if it would be negative.     *)
LEMMA LevelReceived ==
  ASSUME TypeInv, PlayerInv, NEW now \in Now, ReadLast(now), player_state_ # "DONE"
  PROVE  LevelInv'
<1>1. /\ now \in Nat \ {0} /\ clock <= now /\ clock' = now
      /\ UNCHANGED <<playback_index_, played_frames_>>
      /\ segment_counter_' = segment_counter_ + 1
      /\ transmissionEnd' = now
      /\ level' = BufferLevelOld(now) + SegmentDuration
      /\ CheckBufferStatus(now, segments_in_buffer_ + 1)
  BY SegmentCounts
<1>2. 40 * (played_frames_ - playback_index_) <= SegmentDuration * segment_counter_
  BY Numbers, FramesFit, PlaybackAssumption, PlayedLasts DEF PlayerInv, FramesInv
<1> USE Numbers, PlaybackAssumption, FramesFit
<1>3. CASE player_state_ = "INIT_BUFFERING"
  BY <1>1, <1>3, LevelStart
     DEF PlayerInv, AlarmInv, CheckBufferStatus, LevelInv, LeftAtMost, LeftAtLeast, Left
<1>4. CASE player_state_ = "PLAY"
  <2>1. player_state_' = "PLAY" /\ player_alarm_' = player_alarm_
    BY <1>1, <1>4 DEF CheckBufferStatus
  <2> DEFINE most == SegmentDuration * segment_counter_ - 40 * (played_frames_ - playback_index_)
             rest == level - (now - transmissionEnd)
  <2>2. most \in Nat /\ rest \in Int
    BY <1>1, <1>2
  <2>3. level' = SegmentDuration + (IF rest > 0 THEN rest ELSE 0)
    BY <1>1, <1>4, <2>2 DEF BufferLevelOld
  <2>4. most' = most + SegmentDuration /\ transmissionEnd' = now
    BY <1>1
  <2>5. /\ player_alarm_ >= clock => level - (player_alarm_ - transmissionEnd) <= most
        /\ player_alarm_ < clock => level - (clock - transmissionEnd) <= most
    BY <1>4 DEF PlayerInv, LevelInv, LeftAtMost, Left
  <2>6. LeftAtLeast(player_alarm_)'
    <3>1. LeftAtLeast(player_alarm_)
      BY <1>4 DEF PlayerInv, LevelInv
    <3> QED
      BY <1>1, <2>1, <2>2, <2>3, <3>1 DEF LeftAtLeast, Left
  <2>7. /\ player_alarm_ >= now => level' - (player_alarm_ - now) <= most + SegmentDuration
        /\ player_alarm_ < now => level' <= most + SegmentDuration
    <3>1. level' \in Int
      BY <2>2, <2>3
    <3> HIDE DEF most
    <3> QED
      BY <1>1, <2>2, <2>3, <2>5, <3>1, LevelGrows, Numbers, PlaybackAssumption, Zenon
  <2>8. player_alarm_ >= now => LeftAtMost(player_alarm_)'
    <3> QED
      BY <2>1, <2>4, <2>7 DEF LeftAtMost, Left
  <2>9. player_alarm_ < now => LeftAtMost(clock)'
    <3>1. Left(clock)' = level'
      BY <1>1, <2>2, <2>3 DEF Left
    <3> QED
      BY <2>1, <2>4, <2>7, <3>1 DEF LeftAtMost
  <2> HIDE DEF most, rest
  <2> QED
    BY <1>1, <2>1, <2>6, <2>8, <2>9 DEF LevelInv
<1>5. CASE player_state_ = "PAUSED"
  BY <1>1, <1>2, <1>5
     DEF PlayerInv, AlarmInv, FramesInv, CheckBufferStatus, LevelInv, LeftAtMost, LeftAtLeast, Left, BufferLevelOld
<1> QED
  BY <1>3, <1>4, <1>5 DEF TypeInv, PlaybackTypeOK

-----------------------------------------------------------------------------
(* A frame is played.                                                      *)

(* The frame may free a segment, and then the player may be out of them.   *)
LEMMA FramePlayed ==
  ASSUME TypeInv, PlayerInv, NEW now \in Now, ExecuteAlarms(now), Due(player_alarm_, now)
  PROVE  /\ now \in Nat \ {0} /\ clock' = now /\ player_state_ = "PLAY"
         /\ player_alarm_ <= now /\ now <= player_alarm_ + Lateness
         /\ played_frames_' = played_frames_ + 1
         /\ UNCHANGED <<throughput_, level, startup_time_, pause_time_>>
         /\ UNCHANGED <<segment_counter_, transmissionEnd>>
         /\ \/ /\ UNCHANGED <<segments_in_buffer_, playback_index_, player_state_>>
               /\ segments_in_buffer_ > 0
               /\ player_alarm_' = now + 40
               /\ played_frames_ + 1 < (playback_index_ + 1) * FramesInSegment
            \/ /\ segments_in_buffer_' = segments_in_buffer_ - 1
               /\ playback_index_' = playback_index_ + 1
               /\ played_frames_ + 1 = (playback_index_ + 1) * FramesInSegment
               /\ \/ /\ segments_in_buffer_ > 1
                     /\ UNCHANGED player_state_
                     /\ player_alarm_' = now + 40
                  \/ /\ segments_in_buffer_ = 1
                     /\ player_alarm_' = 0
                     /\ \/ player_state_' = "PAUSED" /\ pause_start_' = now
                        \/ player_state_' = "DONE"
<1>1. /\ now \in Nat \ {0} /\ clock <= now /\ clock' = now
      /\ now = clock \/ OnTime(now)
  BY TimeGoesOn DEF TypeInv, PlaybackTypeOK, ExecuteAlarms
<1>2. player_alarm_ # 0 /\ player_alarm_ <= now
  BY DEF Due
<1>3. player_state_ = "PLAY" /\ segments_in_buffer_ > 0 /\ now <= player_alarm_ + Lateness
  BY <1>1, <1>2 DEF PlayerInv, AlarmInv, OnTime
<1>4. UNCHANGED <<throughput_, level, startup_time_, pause_time_>>
  BY DEF ExecuteAlarms, timeVars, sampleVars
<1>5. UNCHANGED <<segment_counter_, transmissionEnd>>
  BY <1>4 DEF segment_counter_, transmissionEnd
<1>6. PlayBackHandle(now)
  BY DEF ExecuteAlarms
<1>7. /\ (played_frames_ + 1) % FramesInSegment = 0 =>
              played_frames_ + 1 = (playback_index_ + 1) * FramesInSegment
      /\ (played_frames_ + 1) % FramesInSegment # 0 =>
              played_frames_ + 1 < (playback_index_ + 1) * FramesInSegment
  BY Numbers, FramesFit, LastFrame DEF PlayerInv, FramesInv
<1>8. CASE (played_frames_ + 1) % FramesInSegment = 0
  <2>1. /\ played_frames_' = played_frames_ + 1
        /\ segments_in_buffer_' = segments_in_buffer_ - 1
        /\ playback_index_' = playback_index_ + 1
        /\ player_alarm_' = IF segments_in_buffer_ > 1 THEN now + 40 ELSE 0
        /\ player_state_' = CASE segments_in_buffer_ > 1 -> player_state_
                              [] segments_in_buffer_ = 1 ->
                                   IF segments_in_buffer_ = 1 /\ playback_index_ + 1 < Segments
                                   THEN "PAUSED" ELSE "DONE"
        /\ pause_start_' = IF segments_in_buffer_ = 1 /\ playback_index_ + 1 < Segments
                           THEN now ELSE pause_start_
    BY <1>6, <1>8, FramesFit DEF PlayBackHandle
  <2> QED
    BY <1>1, <1>2, <1>3, <1>4, <1>5, <1>7, <1>8, <2>1, Numbers
<1>9. CASE (played_frames_ + 1) % FramesInSegment # 0
  <2>1. /\ played_frames_' = played_frames_ + 1
        /\ segments_in_buffer_' = segments_in_buffer_ - 0
        /\ playback_index_' = playback_index_ + 0
        /\ player_alarm_' = IF segments_in_buffer_ > 0 THEN now + 40 ELSE 0
        /\ player_state_' = CASE segments_in_buffer_ > 0 -> player_state_
                              [] segments_in_buffer_ = 0 ->
                                   IF segments_in_buffer_ = 0 /\ playback_index_ + 0 < Segments
                                   THEN "PAUSED" ELSE "DONE"
    BY <1>6, <1>9, FramesFit DEF PlayBackHandle
  <2> QED
    BY <1>1, <1>2, <1>3, <1>4, <1>5, <1>7, <1>9, <2>1, Numbers
<1> QED
  BY <1>8, <1>9

(* The frame was there to play, and the counts go on agreeing.             *)
LEMMA FramesAfterFrame ==
  ASSUME TypeInv, PlayerInv, NEW now \in Now, ExecuteAlarms(now), Due(player_alarm_, now)
  PROVE  FramesInv'
<1> USE Numbers, FramesFit
<1>1. segments_in_buffer_ > 0 /\ segments_in_buffer_ = segment_counter_ - playback_index_
  BY FramePlayed DEF PlayerInv, FramesInv, AlarmInv
<1>2. (playback_index_ + 1) * FramesInSegment <= segment_counter_ * FramesInSegment
  BY <1>1, MoreFrames
<1>3. /\ (playback_index_ + 1) * FramesInSegment < ((playback_index_ + 1) + 1) * FramesInSegment
      /\ playback_index_ * FramesInSegment \in Nat
      /\ (playback_index_ + 1) * FramesInSegment \in Nat
      /\ ((playback_index_ + 1) + 1) * FramesInSegment \in Nat
      /\ segment_counter_ * FramesInSegment \in Nat
  OBVIOUS
<1> QED
  BY <1>1, <1>2, <1>3, FramePlayed DEF PlayerInv, FramesInv

LEMMA AlarmAfterFrame ==
  ASSUME TypeInv, PlayerInv, NEW now \in Now, ExecuteAlarms(now), Due(player_alarm_, now)
  PROVE  AlarmInv'
BY FramePlayed, Numbers, PlaybackAssumption DEF PlayerInv, AlarmInv

(* From alarm to alarm it takes a frame's time, and what the alarm is late.*)
LEMMA RanAfterFrame ==
  ASSUME TypeInv, PlayerInv, NEW now \in Now, ExecuteAlarms(now), Due(player_alarm_, now)
  PROVE  RanInv'
<1> USE Numbers, PlaybackAssumption
<1>1. RanWell(player_alarm_)
  BY FramePlayed DEF PlayerInv, RanInv
<1>2. CASE player_state_' = "PLAY"
  BY <1>1, <1>2, FramePlayed DEF RanInv, RanWell, Ran, first_request_time_
<1>3. CASE player_state_' # "PLAY"
  BY <1>1, <1>3, FramePlayed DEF RanInv, RanWell, Ran, first_request_time_
<1> QED
  BY <1>2, <1>3

LEMMA LevelAfterFrame ==
  ASSUME TypeInv, PlayerInv, NEW now \in Now, ExecuteAlarms(now), Due(player_alarm_, now)
  PROVE  LevelInv'
<1> USE Numbers, PlaybackAssumption, FramesFit
<1>1. /\ player_alarm_ >= clock => LeftAtMost(player_alarm_)
      /\ player_alarm_ < clock => LeftAtMost(clock)
      /\ LeftAtLeast(player_alarm_)
      /\ player_alarm_ <= now /\ clock <= now
  BY FramePlayed, TimeGoesOn DEF PlayerInv, LevelInv
<1>2. LeftAtMost(now)
  BY <1>1, FramePlayed DEF LeftAtMost, Left
<1>3. CASE player_state_' = "PLAY"
  <2>1. /\ player_alarm_' = now + 40 /\ clock' = now /\ now \in Nat
        /\ played_frames_' = played_frames_ + 1
        /\ playback_index_' \in {playback_index_, playback_index_ + 1}
        /\ UNCHANGED <<level, segment_counter_, transmissionEnd>>
        /\ now <= player_alarm_ + Lateness
    BY <1>3, FramePlayed
  <2>2. LeftAtMost(player_alarm_)'
    BY <1>2, <2>1 DEF LeftAtMost, Left
  <2>3. LeftAtLeast(player_alarm_)'
    BY <1>1, <2>1 DEF LeftAtLeast, Left
  <2>4. ~(player_alarm_' < clock')
    BY <2>1
  <2> QED
    BY <1>3, <2>2, <2>3, <2>4 DEF LevelInv
<1>4. CASE player_state_' # "PLAY"
  BY <1>1, <1>2, <1>4, FramePlayed DEF LevelInv, LeftAtMost, Left
<1> QED
  BY <1>3, <1>4

-----------------------------------------------------------------------------
(* The theorems.                                                           *)

LEMMA PlaybackStarts ==
  ASSUME Init
  PROVE  TypeInv /\ PlayerInv
<1>1. Listed
  <2>1. \A log \in VideoLogs : Table(log)
    BY FilesAssumption, FilesMakeTable
  <2> QED
    BY <2>1, TableIsListed DEF Init
<1>2. throughput_ = <<>> /\ segment_counter_ = 0
  BY DEF Init, segment_counter_
<1>3. 1 \in 0 .. Segments
  BY <1>1 DEF Listed
<1>4. TypeInv
  <2>1. throughput_ \in Seq([start : Nat, end : Nat, bytes : Nat])
    BY <1>2
  <2>2. 0 \in Qualities
    BY <1>1 DEF Listed
  <2>3. PlaybackTypeOK
    <3>1. quality_ \in Qualities /\ index_ \in 0 .. Segments
      BY <1>3, <2>2 DEF Init
    <3>2. /\ clock = 1 /\ segments_in_buffer_ = 0 /\ playback_index_ = 0 /\ played_frames_ = 0
          /\ player_alarm_ = 0 /\ request_alarm_ = 0 /\ startup_time_ = 0 /\ pause_time_ = 0
          /\ pause_start_ = 0 /\ transmissionStart = 0 /\ level = 0
          /\ turn = "wait" /\ player_state_ = "INIT_BUFFERING"
      BY DEF Init, first_request_time_
    <3>3. reading \in BOOLEAN
      BY DEF Init
    <3> QED
      BY <2>1, <3>1, <3>2, <3>3 DEF PlaybackTypeOK
  <2>4. pause_start_ <= clock
    BY DEF Init, first_request_time_
  <2> QED
    BY <1>1, <2>3, <2>4 DEF TypeInv
<1>5. PlayerInv
  BY <1>2, FramesFit, PlaybackAssumption DEF Init, PlayerInv, FramesInv, AlarmInv, RanInv, LevelInv
<1> QED
  BY <1>4, <1>5

LEMMA PlaybackSteps ==
  ASSUME TypeInv, PlayerInv, [Next]_vars
  PROVE  TypeInv' /\ PlayerInv'
<1>1. ASSUME NEW now \in Now, player_state_ # "DONE", ReadFirst(now)
      PROVE  TypeInv' /\ PlayerInv'
  <2>1. UNCHANGED <<playerVars, timeVars, throughput_, level>> /\ clock' = now
    BY <1>1 DEF ReadFirst
  <2>2. now \in Nat /\ clock <= now /\ (now = clock \/ OnTime(now))
    BY TimeGoesOn DEF TypeInv, PlaybackTypeOK
  <2>3. player_alarm_ # 0 => now <= player_alarm_ + Lateness
    BY <2>2 DEF OnTime, PlayerInv, AlarmInv
  <2> QED
    BY <1>1, <2>1, <2>2, <2>3, TypesReadFirst, PlayerWaits
<1>2. ASSUME NEW now \in Now, player_state_ # "DONE", ReadLast(now)
      PROVE  TypeInv' /\ PlayerInv'
  BY <1>2, TypesReadLast, FramesReceived, AlarmReceived, RanReceived, LevelReceived DEF PlayerInv
<1>3. ASSUME NEW now \in Now, player_state_ # "DONE", ExecuteAlarms(now)
      PROVE  TypeInv' /\ PlayerInv'
  <2>1. Due(player_alarm_, now) => segments_in_buffer_ > 0
    BY DEF Due, PlayerInv, AlarmInv
  <2>2. CASE Due(player_alarm_, now)
    BY <1>3, <2>1, <2>2, TypesAlarms, FramesAfterFrame, AlarmAfterFrame, RanAfterFrame,
       LevelAfterFrame DEF PlayerInv
  <2>3. CASE ~Due(player_alarm_, now)
    <3>1. UNCHANGED <<playerVars, timeVars, throughput_, level>> /\ clock' = now
      BY <1>3, <2>3 DEF ExecuteAlarms, sampleVars
    <3>2. now \in Nat /\ clock <= now /\ (now = clock \/ OnTime(now))
      BY TimeGoesOn DEF TypeInv, PlaybackTypeOK
    <3>3. player_alarm_ # 0 => now <= player_alarm_ + Lateness
      BY <3>2 DEF OnTime, PlayerInv, AlarmInv
    <3> QED
      BY <1>3, <2>1, <3>1, <3>2, <3>3, TypesAlarms, PlayerWaits
  <2> QED
    BY <2>2, <2>3
<1>4. CASE UNCHANGED vars
  <2>1. TypeInv'
    BY <1>4, VideoKept
       DEF vars, TypeInv, PlaybackTypeOK, playerVars, timeVars, fetchVars, sampleVars
  <2>2. clock' = clock /\ clock \in Nat
    BY <1>4 DEF vars, TypeInv, PlaybackTypeOK
  <2>3. player_alarm_ # 0 => clock <= player_alarm_ + Lateness
    BY DEF PlayerInv, AlarmInv
  <2> QED
    BY <1>4, <2>1, <2>2, <2>3, PlayerWaits DEF vars, sampleVars
<1> QED
  BY <1>1, <1>2, <1>3, <1>4 DEF Next

(* The invariant above holds throughout every session.                     *)
THEOREM PlaybackInvariance == Spec => [](TypeInv /\ PlayerInv)
<1>1. Init => TypeInv /\ PlayerInv
  BY PlaybackStarts
<1>2. (TypeInv /\ PlayerInv) /\ [Next]_vars => (TypeInv /\ PlayerInv)'
  BY PlaybackSteps
<1> QED
  BY <1>1, <1>2, PTL DEF Spec

(* Times, counts, levels and samples have their types; the level computed  *)
(* from the times of segments is never negative, and no pause is.          *)
THEOREM PlaybackTypeCorrect == Spec => []PlaybackTypeOK
<1>1. TypeInv => PlaybackTypeOK
  BY DEF TypeInv
<1> QED
  BY <1>1, PlaybackInvariance, PTL

(* What CalculateQoE charges for startup and pauses is, with the pause that*)
(* goes on, all the time but what the frames played take, within the       *)
(* lateness of the loop and a frame for every segment.                     *)
THEOREM StallsAreCharged == Spec => []StallsCharged
<1>1. TypeInv /\ PlayerInv => StallsCharged
  <2> SUFFICES ASSUME TypeInv, PlayerInv, player_state_ # "INIT_BUFFERING"
               PROVE  LET played == clock - first_request_time_ - Charged IN
                      /\ played <= (FrameMs + Lateness) * played_frames_ + Lateness
                      /\ played >= FrameMs * (played_frames_ - playback_index_ - 1)
    BY DEF StallsCharged
  <2> USE Numbers, FramesFit, PlaybackAssumption
  <2>1. CASE player_state_ = "PLAY"
    BY <2>1 DEF PlayerInv, AlarmInv, RanInv, RanWell, Ran, Charged, first_request_time_
  <2>2. CASE player_state_ = "PAUSED"
    BY <2>2 DEF PlayerInv, RanInv, RanWell, Ran, Charged, first_request_time_
  <2>3. CASE player_state_ = "DONE"
    BY <2>3 DEF PlayerInv, RanInv, RanWell, Ran, Charged, first_request_time_
  <2> QED
    BY <2>1, <2>2, <2>3 DEF TypeInv, PlaybackTypeOK
<1> QED
  BY <1>1, PlaybackInvariance, PTL

(* The level that the algorithms are given follows the buffer: it is never *)
(* above what is buffered by more than a frame for every pause and what    *)
(* the frames of the segments round off, nor, until the buffer is empty,   *)
(* below by more than the alarms were late.                                *)
THEOREM LevelTracks == Spec => []LevelTracksBuffer
<1>1. TypeInv /\ PlayerInv => LevelTracksBuffer
  <2> SUFFICES ASSUME TypeInv, PlayerInv
               PROVE  LevelTracksBuffer
    OBVIOUS
  <2> USE Numbers, FramesFit, PlaybackAssumption
  <2>1. CASE player_state_ = "INIT_BUFFERING"
    <3>1. played_frames_ = 0 /\ level = SegmentDuration * segment_counter_
      BY <2>1 DEF PlayerInv, AlarmInv
    <3>2. segment_counter_ * FramesInSegment \in Nat
      OBVIOUS
    <3>3. 40 * (segment_counter_ * FramesInSegment - 0) <= SegmentDuration * segment_counter_
      BY <3>2, PlayedLasts
    <3> QED
      BY <2>1, <3>1, <3>2, <3>3 DEF LevelTracksBuffer, Playable, Overstated
  <2>2. CASE player_state_ = "PLAY"
    BY <2>2 DEF PlayerInv, AlarmInv, LevelInv, LeftAtMost, LeftAtLeast, Left,
                LevelTracksBuffer, Playable, Overstated
  <2>3. CASE player_state_ = "PAUSED"
    BY <2>3 DEF PlayerInv, AlarmInv, FramesInv, LevelInv, LeftAtMost, Left,
                LevelTracksBuffer, Playable, Overstated
  <2>4. CASE player_state_ = "DONE"
    BY <2>4 DEF LevelTracksBuffer
  <2> QED
    BY <2>1, <2>2, <2>3, <2>4 DEF TypeInv, PlaybackTypeOK
<1> QED
  BY <1>1, PlaybackInvariance, PTL

-----------------------------------------------------------------------------
(* The samples and the requests.                                           *)

(* No segment ended before it started or had no bytes, and those received  *)
(* were asked for.                                                         *)
SamplesInv ==
  /\ throughput_ \in Seq(Sampled)
  /\ transmissionStart <= clock
  /\ segment_counter_ <= index_

LEMMA SamplesAfterRead ==
  ASSUME TypeInv, SamplesInv, NEW now \in Now, ReadLast(now)
  PROVE  SamplesInv'
<1> DEFINE sample == [start |-> transmissionStart, end |-> now, bytes |-> video[quality_][segment_counter_]]
<1>1. now \in Nat /\ clock <= now /\ clock' = now /\ clock \in Nat
  BY TimeGoesOn DEF TypeInv, PlaybackTypeOK, ReadLast
<1>2. segment_counter_ \in Nat /\ segment_counter_' = segment_counter_ + 1
  BY SampleTaken
<1>3. segment_counter_ < index_ /\ index_ \in 0 .. Segments /\ Segments \in Nat
  BY DEF ReadLast, Requested, TypeInv, PlaybackTypeOK, Listed
<1>4. video[quality_][segment_counter_] \in Nat \ {0}
  <2>1. segment_counter_ \in 0 .. Segments - 1
    BY <1>2, <1>3
  <2>2. video[quality_] \in [0 .. Segments - 1 -> Nat \ {0}]
    BY DEF TypeInv, PlaybackTypeOK, Listed
  <2> QED
    BY <2>1, <2>2
<1>5. transmissionStart \in Nat /\ transmissionStart <= now
  BY <1>1 DEF TypeInv, PlaybackTypeOK, SamplesInv
<1>6. sample \in Sampled
  BY <1>1, <1>4, <1>5 DEF Sampled
<1>7. throughput_' \in Seq(Sampled)
  <2>1. throughput_' = Append(throughput_, sample)
    BY DEF ReadLast
  <2>2. throughput_ \in Seq(Sampled)
    BY DEF SamplesInv
  <2> HIDE DEF sample
  <2> QED
    BY <1>6, <2>1, <2>2
<1>8. transmissionStart' <= clock'
  BY <1>1, <1>5 DEF ReadLast
<1>9. index_' \in {index_, index_ + 1}
  BY DEF ReadLast, fetchVars, RequestSegment
<1>10. segment_counter_' <= index_'
  BY <1>2, <1>3, <1>9
<1> QED
  BY <1>7, <1>8, <1>10 DEF SamplesInv

LEMMA SamplesStep ==
  ASSUME TypeInv, SamplesInv, [Next]_vars
  PROVE  SamplesInv'
<1>1. ASSUME NEW now \in Now, ReadFirst(now)
      PROVE  SamplesInv'
  <2>1. now \in Nat /\ clock' = now /\ transmissionStart' = now
    BY <1>1, TimeGoesOn DEF TypeInv, PlaybackTypeOK, ReadFirst
  <2>2. UNCHANGED <<throughput_, index_>>
    BY <1>1 DEF ReadFirst, fetchVars
  <2> QED
    BY <2>1, <2>2 DEF SamplesInv, segment_counter_
<1>2. ASSUME NEW now \in Now, ReadLast(now)
      PROVE  SamplesInv'
  BY <1>2, SamplesAfterRead
<1>3. ASSUME NEW now \in Now, ExecuteAlarms(now)
      PROVE  SamplesInv'
  <2>1. now \in Nat /\ clock <= now /\ clock' = now /\ clock \in Nat
    BY <1>3, TimeGoesOn DEF TypeInv, PlaybackTypeOK, ExecuteAlarms
  <2>2. UNCHANGED <<throughput_, transmissionStart>>
    BY <1>3 DEF ExecuteAlarms, sampleVars
  <2>3. index_' \in {index_, index_ + 1} /\ index_ \in Nat /\ segment_counter_ \in Nat
    BY <1>3, Numbers DEF ExecuteAlarms, DelayRequestHandle, fetchVars, TypeInv, PlaybackTypeOK, Listed
  <2>4. transmissionStart \in Nat
    BY DEF TypeInv, PlaybackTypeOK
  <2>5. segment_counter_' = segment_counter_
    BY <2>2 DEF segment_counter_
  <2> QED
    BY <2>1, <2>2, <2>3, <2>4, <2>5 DEF SamplesInv
<1>4. CASE UNCHANGED vars
  BY <1>4 DEF vars, sampleVars, fetchVars, SamplesInv, segment_counter_
<1> QED
  BY <1>1, <1>2, <1>3, <1>4 DEF Next

(* The samples are those of segments that were asked for and took no less  *)
(* than no time.                                                           *)
THEOREM SamplesInvariance == Spec => []SamplesInv
<1>1. Init => SamplesInv
  <2> SUFFICES ASSUME Init PROVE SamplesInv
    OBVIOUS
  <2>1. throughput_ = <<>> /\ segment_counter_ = 0
    BY DEF Init, segment_counter_
  <2>2. throughput_ \in Seq(Sampled)
    BY <2>1
  <2> QED
    BY <2>1, <2>2 DEF Init, SamplesInv, first_request_time_
<1>2. TypeInv /\ SamplesInv /\ [Next]_vars => SamplesInv'
  BY SamplesStep
<1> QED
  BY <1>1, <1>2, PlaybackInvariance, PTL DEF Spec

(* What Predict makes of the last segments lies between the throughput of  *)
(* the slowest of them and that of the fastest, for every horizon, size and*)
(* time, and also when some of them took no time at all.                   *)
THEOREM EstimateIsWithinSamples == Spec => []EstimateWithinSamples
<1>1. SamplesInv => EstimateWithinSamples
  <2> SUFFICES ASSUME SamplesInv, Predict(throughput_, Horizon).time > 0
               PROVE  EstimateWithinSamples
    BY DEF EstimateWithinSamples
  <2>1. throughput_ \in Seq(Sampled) /\ Horizon \in Nat \ {0}
    BY PlaybackAssumption DEF SamplesInv
  <2> QED
    BY <2>1, PredictIsMean DEF EstimateWithinSamples
<1> QED
  BY <1>1, SamplesInvariance, PTL

(* When the last segments all had the same throughput, that is what Predict*)
(* returns: the estimate at a constant bandwidth that the steady runs and  *)
(* theorems of the algorithms start from.                                  *)
THEOREM EstimateIsExactWhenSteady == Spec => []EstimateExactWhenSteady
<1>1. SamplesInv => EstimateExactWhenSteady
  <2> SUFFICES ASSUME SamplesInv, Predict(throughput_, Horizon).time > 0,
                      \A i, j \in Window(throughput_, Horizon) :
                        throughput_[i].bytes * DownloadTime(throughput_[j])
                          = throughput_[j].bytes * DownloadTime(throughput_[i]),
                      NEW i \in Window(throughput_, Horizon)
               PROVE  throughput_[i].bytes * Predict(throughput_, Horizon).time
                        = Predict(throughput_, Horizon).bytes * DownloadTime(throughput_[i])
    BY DEF EstimateExactWhenSteady
  <2>1. throughput_ \in Seq(Sampled) /\ Horizon \in Nat \ {0}
    BY PlaybackAssumption DEF SamplesInv
  <2> QED
    BY <2>1, PredictIsExact
<1> QED
  BY <1>1, SamplesInvariance, PTL

(* Every segment that is asked for, at whatever level, is one that its file*)
(* lists, of some bytes: blank lines are no segments and files that do not *)
(* open no levels.                                                         *)
THEOREM RequestsAreListed == Spec => []RequestsListed
<1>1. TypeInv => RequestsListed
  <2> SUFFICES ASSUME TypeInv, segment_counter_ < Segments
               PROVE  segment_counter_ \in DOMAIN video[quality_] /\ video[quality_][segment_counter_] > 0
    BY DEF RequestsListed
  <2>1. segment_counter_ \in Nat /\ Segments \in Nat
    BY Numbers DEF TypeInv, Listed
  <2>2. segment_counter_ \in 0 .. Segments - 1
    BY <2>1
  <2>3. video[quality_] \in [0 .. Segments - 1 -> Nat \ {0}]
    BY DEF TypeInv, PlaybackTypeOK, Listed
  <2>4. video[quality_][segment_counter_] \in Nat \ {0}
    BY <2>2, <2>3
  <2>5. DOMAIN video[quality_] = 0 .. Segments - 1
    BY <2>3
  <2>6. video[quality_][segment_counter_] > 0
    BY <2>4
  <2> QED
    BY <2>2, <2>5, <2>6
<1> QED
  BY <1>1, PlaybackInvariance, PTL
============================================================================
