---------------------------- MODULE SegmentLoop ----------------------------
(***************************************************************************)
(* What an adaptation algorithm sees of the client: one step is one        *)
(* segment, from the request to the next consultation.  Times are in       *)
(* milliseconds, as in the code; the video has no end.                     *)
(*                                                                         *)
(* Each module of an algorithm extends this one and conjoins its answer,   *)
(* quality_' and delay', to SegmentArrives; Adaptation composes them.      *)
(***************************************************************************)
EXTENDS Integers

CONSTANTS
  Levels,           (* the number of representations                       *)
  AverageBitrate,   (* averageBitrate[q] of each of them                   *)
  SegmentSizes,     (* representation[q]: what its segments come to, in    *)
                    (* AverageBitrate's unit times milliseconds            *)
  SegmentDuration,  (* segmentDuration                                     *)
  InitSegments,     (* init_segments_, segments buffered before playing    *)
  Bandwidths,       (* what the connection may carry, in AverageBitrate's unit *)
  Varying,          (* whether that changes between segments               *)
  MaxLevel          (* bound: a fuller buffer is counted as this one       *)

ASSUME LoopAssumption ==
  /\ Levels \in Nat \ {0}
  /\ AverageBitrate \in [0 .. Levels-1 -> Nat \ {0}]
  /\ SegmentDuration \in Nat \ {0}
  /\ SegmentSizes \in [0 .. Levels-1 -> SUBSET (Nat \ {0})]
  /\ \A q \in 0 .. Levels-1 :   \* averageBitrate[q] is their mean
       /\ \E size \in SegmentSizes[q] : size <= AverageBitrate[q] * SegmentDuration
       /\ \E size \in SegmentSizes[q] : AverageBitrate[q] * SegmentDuration <= size
  /\ InitSegments \in Nat \ {0}
  /\ Bandwidths \subseteq Nat \ {0}
  /\ Varying \in BOOLEAN
  /\ MaxLevel \in Nat \ {0}

VARIABLES
  algorithm_, (* the name of the algorithm that the client was given      *)
  quality_,   (* level of the segment asked for last                       *)
  delay,      (* nextDownloadDelay, how long that request was put off      *)
  received,   (* segments received, counted up to InitSegments             *)
  fetchTime,  (* transmissionEnd - transmissionStart of the last segment   *)
  level,      (* bufferLevelNew.back(), the buffered video                 *)
  bandwidth   (* what the connection carried during the last segment       *)

loopVars == <<algorithm_, quality_, delay, received, fetchTime, level, bandwidth>>

Top == Levels - 1
Quality == 0 .. Top

LoopTypeOK ==
  /\ quality_ \in Quality
  /\ delay \in Nat
  /\ received \in 0 .. InitSegments
  /\ fetchTime \in Nat
  /\ level \in Nat
  /\ bandwidth \in Bandwidths

(* The first request: every algorithm answers the default AlgorithmReply.  *)
LoopInit ==
  /\ quality_ = 0
  /\ delay = 0
  /\ received = 0
  /\ fetchTime = 0
  /\ level = 0
  /\ bandwidth \in Bandwidths

Larger(a, b) == IF a >= b THEN a ELSE b
Smaller(a, b) == IF a <= b THEN a ELSE b

(* What a search from either end of the table for a level finds.           *)
HighestOf(within, otherwise) ==
  IF within = {} THEN otherwise ELSE CHOOSE q \in within : \A p \in within : p <= q

(* How long a segment of the asked quality may take: segments of one level *)
(* differ in size, and which comes when is left open.                      *)
FetchTimes(rate) == {size \div rate : size \in SegmentSizes[quality_]}

(* bufferLevelOld: what was buffered before this segment, less the time    *)
(* since the one before, unless the player has not started.                *)
LevelBefore(sinceLast) ==
  IF received < InitSegments THEN level ELSE Larger(level - sinceLast, 0)

(* The part of OnReadEvent that measures a complete segment.               *)
SegmentArrives ==
  /\ UNCHANGED algorithm_
  /\ bandwidth' \in IF Varying THEN Bandwidths ELSE {bandwidth}
  /\ fetchTime' \in FetchTimes(bandwidth')
  /\ level' = Smaller(LevelBefore(delay + fetchTime') + SegmentDuration, MaxLevel)
  /\ received' = Smaller(received + 1, InitSegments)

(* get_buffer_diff_ms: 0 as long as there is one sample only.              *)
BufferDiff == IF received = 0 THEN 0 ELSE level' - level

(* Predict returns a weighted mean of the throughput of the last segments, *)
(* in bytes, so that their sizes do not matter: the true bandwidth when    *)
(* that is constant, else something between two that there have been.      *)
Estimates ==
  IF Varying
  THEN {rate \in UNION {1 .. fast : fast \in Bandwidths} : \E slow \in Bandwidths : slow <= rate}
  ELSE {bandwidth}
============================================================================
