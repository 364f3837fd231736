-------------------------------- MODULE Sftm --------------------------------
(***************************************************************************)
(* SftmAlgorithm (dash/dash_algorithm.cc): compares the time that the last *)
(* segment took with the time there was for it, given the target of the    *)
(* buffer.  Comparisons of quotients are multiplied out.                   *)
(*                                                                         *)
(* That time comes from the frames that have been played, and not from the *)
(* buffer level of the client, which the pause is taken from: the two      *)
(* drift apart by a frame at every resume and by the lateness of alarms.   *)
(***************************************************************************)
EXTENDS SegmentLoop

CONSTANTS
  SftmTarget,  (* target_buffer_                                           *)
  FrameDrift   (* how much more is played between two segments than the    *)
               (* time between them: a frame more, or less by late alarms  *)

ASSUME SftmAssumption ==
  /\ SftmTarget \in Nat
  /\ FrameDrift \subseteq Int

VARIABLES
  rsft_exceeded_,  (* the target has been reached                          *)
  unplayed         (* ts_ns - ts_o: received, and not played frame by frame *)

sftmVars == <<rsft_exceeded_, unplayed>>

SftmTypeOK ==
  /\ rsft_exceeded_ \in BOOLEAN
  /\ unplayed \in Nat

SftmInit ==
  /\ rsft_exceeded_ = FALSE
  /\ unplayed = 0

(* What is unplayed when so much has been played since the last segment.   *)
UnplayedAfter(played) ==
  IF received < InitSegments THEN unplayed ELSE Larger(unplayed - Larger(played, 0), 0)

(* Before the target has been reached once: three quarters of a segment.   *)
FirstFill(ahead) ==
  /\ 4 * (ahead - SftmTarget) < 3 * SegmentDuration
  /\ ~rsft_exceeded_

(* min(msd, rsft), the time there was for the segment.                     *)
TimeFor(ahead) ==
  IF FirstFill(ahead) THEN (3 * SegmentDuration) \div 4
                      ELSE Smaller(SegmentDuration, ahead - SftmTarget)

SftmGain(q) == AverageBitrate[q + 1] - AverageBitrate[q]

(* sftm > 1 + e_u, e_u being the smaller of the largest step between two   *)
(* levels and twice the step to the next one.                              *)
SftmUp(time, took) ==
  /\ quality_ < Top
  /\ \/ /\ time > took
        /\ \A q \in Quality \ {Top} : (time - took) * AverageBitrate[q] > took * SftmGain(q)
     \/ (time - took) * AverageBitrate[quality_] > 2 * took * SftmGain(quality_)

(* sftm < 1 - e_d, e_d being the larger of twice the smallest step and the *)
(* step from the level below.                                              *)
SftmDown(time, took) ==
  /\ quality_ > 0
  /\ \E q \in Quality \ {Top} : (took - time) * AverageBitrate[q + 1] > 2 * took * SftmGain(q)
  /\ time * AverageBitrate[quality_] < took * AverageBitrate[quality_ - 1]

(* Mutant: the search does not stop at the first level that is too high.   *)
SftmLowerAll(time, took) == 0 .. quality_ - 1

(* The search for a lower level stops at the first that is too high ...    *)
SftmLower(time, took) ==
  {q \in 0 .. quality_ - 1 :
     \A p \in 0 .. q : AverageBitrate[p] * took < time * AverageBitrate[quality_]}

(* ... and leaves the quality as it is when that is the first of all.      *)
SftmNext(time, took) ==
  CASE SftmUp(time, took) -> quality_ + 1
    [] ~SftmUp(time, took) /\ SftmDown(time, took) /\ SftmLower(time, took) # {} ->
         CHOOSE q \in SftmLower(time, took) : \A p \in SftmLower(time, took) : p <= q
    [] OTHER -> quality_

(* What is buffered beyond a segment's time at the highest level fetched   *)
(* at the lowest level's rate.                                             *)
SftmPause(buffered) ==
  Larger((buffered * AverageBitrate[0] - SegmentDuration * AverageBitrate[Top]) \div AverageBitrate[0], 0)

ExceededAfter(ahead) == ~FirstFill(ahead)

SftmStep ==
  /\ algorithm_ = "sftm"
  /\ SegmentArrives
  /\ \E drift \in FrameDrift :
       unplayed' = Smaller(UnplayedAfter(delay + fetchTime' + drift) + SegmentDuration, MaxLevel)
  /\ quality_' = SftmNext(TimeFor(unplayed'), fetchTime')
  /\ rsft_exceeded_' = ExceededAfter(unplayed')
  /\ delay' = SftmPause(level')

-----------------------------------------------------------------------------
(* Once the target has been reached, the quality is frozen whenever what   *)
(* is unplayed is not above it: there is no time left for the segment, so  *)
(* no lower level takes little enough, and the level is kept.              *)
FrozenBelowTarget ==
  [][ algorithm_ = "sftm" /\ rsft_exceeded_ /\ unplayed' <= SftmTarget
        => quality_' = quality_ ]_<<loopVars, sftmVars>>

(* The source's "Switch down": what the test for it selects is a lower     *)
(* level.                                                                  *)
SwitchDownLowers ==
  [][ LET time == TimeFor(unplayed') IN
      algorithm_ = "sftm" /\ ~SftmUp(time, fetchTime') /\ SftmDown(time, fetchTime')
        => quality_' < quality_ ]_<<loopVars, sftmVars>>
============================================================================
