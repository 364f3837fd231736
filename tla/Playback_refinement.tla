------------------------ MODULE Playback_refinement ------------------------
(***************************************************************************)
(* The client against the clock implements the stream of module Streaming, *)
(* for every video, pace of the connection and lateness of the loop.       *)
(***************************************************************************)
EXTENDS Playback_proofs

viewed == <<player_state_, segment_counter_, playback_index_>>

(* The last byte of a segment is a segment received.                       *)
LEMMA ReadLastReceives ==
  ASSUME TypeInv, PlayerInv, NEW now \in Now, player_state_ # "DONE", ReadLast(now),
         NEW length, length = Segments
  PROVE  Stream(length)!Receive
<1>1. segment_counter_ < length
  BY Numbers DEF ReadLast, Requested, TypeInv, PlaybackTypeOK, Listed
<1>2. PICK buffered \in Nat : /\ buffered = segments_in_buffer_ + 1
                              /\ CheckBufferStatus(now, buffered)
  BY Numbers DEF ReadLast
<1>3. segment_counter_' = segment_counter_ + 1 /\ playback_index_' = playback_index_
  BY SampleTaken DEF ReadLast
<1>4. player_state_ = "INIT_BUFFERING" => segments_in_buffer_ = segment_counter_
  BY Numbers, FramesFit, MoreFrames DEF PlayerInv, FramesInv, AlarmInv
<1> QED
  BY <1>1, <1>2, <1>3, <1>4, Numbers, PlaybackAssumption
     DEF Stream!Receive, CheckBufferStatus, TypeInv, PlaybackTypeOK

(* A frame is the end of a segment played, or nothing to the viewer.       *)
LEMMA FramePlays ==
  ASSUME TypeInv, PlayerInv, SamplesInv, NEW now \in Now, ExecuteAlarms(now),
         Due(player_alarm_, now), NEW length, length = Segments
  PROVE  Stream(length)!Play \/ UNCHANGED viewed
<1> DEFINE freed == IF (played_frames_ + 1) % FramesInSegment = 0 THEN 1 ELSE 0
<1>1. freed \in {0, 1}
  OBVIOUS
<1>2. player_state_ = "PLAY" /\ UNCHANGED segment_counter_
  BY FramePlayed
<1>3. segments_in_buffer_ > 0 /\ segments_in_buffer_ = segment_counter_ - playback_index_
  BY <1>2 DEF PlayerInv, AlarmInv, FramesInv
<1>4. segment_counter_ <= length /\ length \in Nat
  BY Numbers DEF SamplesInv, TypeInv, PlaybackTypeOK, Listed
<1>5. /\ playback_index_' = playback_index_ + freed
      /\ player_state_' = CASE segments_in_buffer_ > freed -> player_state_
                            [] segments_in_buffer_ = freed ->
                                 IF segments_in_buffer_ = freed /\ playback_index_ + freed < length
                                 THEN "PAUSED" ELSE "DONE"
  BY DEF ExecuteAlarms, PlayBackHandle
<1> HIDE DEF freed
<1>6. CASE freed = 0
  BY <1>2, <1>3, <1>5, <1>6, Numbers DEF viewed
<1>7. CASE freed = 1
  BY <1>2, <1>3, <1>4, <1>5, <1>7, Numbers DEF Stream!Play
<1> QED
  BY <1>1, <1>6, <1>7

LEMMA ViewerStep ==
  ASSUME TypeInv, PlayerInv, SamplesInv, [Next]_vars, NEW length, length = Segments
  PROVE  Stream(length)!Next \/ UNCHANGED viewed
<1>1. ASSUME NEW now \in Now, ReadFirst(now)
      PROVE  UNCHANGED viewed
  BY <1>1 DEF ReadFirst, playerVars, viewed, segment_counter_
<1>2. ASSUME NEW now \in Now, player_state_ # "DONE", ReadLast(now)
      PROVE  Stream(length)!Next
  BY <1>2, ReadLastReceives DEF Stream!Next
<1>3. ASSUME NEW now \in Now, ExecuteAlarms(now)
      PROVE  Stream(length)!Next \/ UNCHANGED viewed
  <2>1. CASE Due(player_alarm_, now)
    BY <1>3, <2>1, FramePlays DEF Stream!Next
  <2>2. CASE ~Due(player_alarm_, now)
    BY <1>3, <2>2 DEF ExecuteAlarms, playerVars, sampleVars, viewed, segment_counter_
  <2> QED
    BY <2>1, <2>2
<1>4. CASE UNCHANGED vars
  BY <1>4 DEF vars, playerVars, sampleVars, viewed, segment_counter_
<1> QED
  BY <1>1, <1>2, <1>3, <1>4 DEF Next

(* Receiving, starting, stalling, resuming and ending against the clock are*)
(* those that a viewer is promised, in whatever turns of the loop the      *)
(* segments come and the alarms run.                                       *)
THEOREM PlaybackImplementsStreaming == Spec => PlaysStream
<1>1. TypeInv /\ PlayerInv /\ SamplesInv /\ [Next]_vars =>
        [\A length \in Lengths : length = Segments => Stream(length)!Next]_viewed
  BY ViewerStep
<1> QED
  BY <1>1, PlaybackInvariance, SamplesInvariance, PTL DEF Spec, PlaysStream, viewed
============================================================================
