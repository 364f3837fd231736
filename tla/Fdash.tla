------------------------------- MODULE Fdash -------------------------------
(***************************************************************************)
(* FdashAlgorithm (dash/dash_algorithm.cc): a fuzzy controller of the      *)
(* buffer.  The buffer is slow, ok or fast, its trend falling, steady or   *)
(* rising, each to some degree; every pair of them is a rule that takes    *)
(* the estimate by a quarter, half, once, twice or four times, and the     *)
(* output is the mean of the rules that apply.                             *)
(*                                                                         *)
(* The weights of that mean are left open: it lies between the least and   *)
(* the greatest factor of a rule that applies to a degree above 0.         *)
(***************************************************************************)
EXTENDS SegmentLoop

CONSTANT
  FdashTarget   (* target_buffer_                                          *)

ASSUME FdashAssumption == FdashTarget \in Nat \ {0}

(* slow, ok and fast, counted from 0.                                      *)
BufferIs(buffered) ==
  {b \in 0 .. 2 :
     CASE b = 0 -> buffered < FdashTarget
       [] b = 1 -> 2 * FdashTarget < 3 * buffered /\ buffered < 4 * FdashTarget
       [] b = 2 -> FdashTarget < buffered}

(* falling, steady and rising, counted from 0.                             *)
TrendIs(diff) ==
  {d \in 0 .. 2 :
     CASE d = 0 -> diff < 0
       [] d = 1 -> -2 * FdashTarget < 3 * diff /\ diff < 4 * FdashTarget
       [] d = 2 -> diff > 0}

(* Four times the factors of r1 to r9: each step of one of the two doubles.*)
Factors(buffered, diff) ==
  {2 ^ (b + d) : b \in BufferIs(buffered), d \in TrendIs(diff)}

(* Four times result, at the points where a comparison with a level turns. *)
Results(factors, estimate) ==
  LET least    == CHOOSE f \in factors : \A g \in factors : f <= g
      greatest == CHOOSE f \in factors : \A g \in factors : g <= f IN
  {least * estimate} \cup
  ({4 * AverageBitrate[q] + 1 : q \in Quality} \cap (least * estimate .. greatest * estimate))

(* The last level below the result, or the current one.                    *)
BelowResult(result) ==
  HighestOf({q \in Quality : 4 * AverageBitrate[q] < result}, quality_)

(* t_60 - t, times the bitrate: by how much the buffer would be above the  *)
(* target after a minute of level q.                                       *)
InAMinute(q, estimate, buffered) ==
  60000 * estimate + AverageBitrate[q] * (buffered - FdashTarget - 60000)

(* A level that would leave the buffer below the target is not gone up to, *)
(* one that would leave it above is not gone down to.                      *)
FdashNext(next, estimate, buffered) ==
  IF \/ /\ AverageBitrate[next] > AverageBitrate[quality_]
        /\ InAMinute(next, estimate, buffered) < 0
     \/ /\ AverageBitrate[next] < AverageBitrate[quality_]
        /\ InAMinute(next, estimate, buffered) > 0
  THEN quality_ ELSE next

(* Mutant: the time of the download is not taken off.                      *)
FdashPauseWhole(next, estimate, buffered) ==
  IF next = Top THEN Larger(buffered - FdashTarget, 0) ELSE 0

(* At the highest level: until the buffer will be at the target when the   *)
(* next segment has come.                                                  *)
FdashPause(next, estimate, buffered) ==
  IF next = Top
  THEN Larger((estimate * (buffered - FdashTarget) - AverageBitrate[next] * SegmentDuration)
                \div estimate, 0)
  ELSE 0

FdashStep ==
  /\ algorithm_ = "fdash"
  /\ SegmentArrives
  /\ \E estimate \in Estimates' :
       \E result \in Results(Factors(level', BufferDiff), estimate) :
         /\ quality_' = FdashNext(BelowResult(result), estimate, level')
         /\ delay' = FdashPause(quality_', estimate, level')

-----------------------------------------------------------------------------
(* At a constant bandwidth a pause is neither too long nor of no use: the  *)
(* segment asked for after it arrives when the buffer is off the target    *)
(* just by what the segment takes less or more than an average one, within *)
(* the millisecond that the divisions may lose; or when it is empty, or as *)
(* full as the model counts.                                               *)
PauseMeetsTarget ==
  [][ LET average == (AverageBitrate[quality_] * SegmentDuration) \div bandwidth
          left    == level' - SegmentDuration IN
      algorithm_ = "fdash" /\ delay > 0 /\ received = InitSegments
        => \/ left - FdashTarget - (average - fetchTime') \in 0 .. 1
           \/ left = 0 /\ fetchTime' > FdashTarget + average
           \/ level' = MaxLevel ]_loopVars
============================================================================
