------------------------------- MODULE Panda -------------------------------
(***************************************************************************)
(* PandaAlgorithm (dash/dash_algorithm.cc): the share of the bandwidth is  *)
(* estimated by probing, it is smoothed, the level is the highest that     *)
(* the smoothed share carries with a margin, and requests are paced so     *)
(* that the buffer stays near a minimum.                                   *)
(*                                                                         *)
(* Shares are in the unit of AverageBitrate and times in milliseconds, as  *)
(* whole numbers; in the code they are Mbit/s and seconds, and double.  A  *)
(* share of less than one unit counts as 1 where the code divides by it.   *)
(***************************************************************************)
EXTENDS SegmentLoop

CONSTANTS
  Omega,    (* m_omega, the probing increment                              *)
  PandaBMin, (* m_bMin, the minimum of the buffer                          *)
  MaxTarget  (* bound: after a longer time between requests the run stops  *)

ASSUME PandaAssumption ==
  /\ Omega \in Nat
  /\ PandaBMin \in Nat
  /\ MaxTarget \in Nat

VARIABLES
  m_lastBandwidthShare,
  m_lastSmoothBandwidthShare,
  m_lastTargetInterrequestTime,
  m_lastBuffer

pandaVars == <<m_lastBandwidthShare, m_lastSmoothBandwidthShare,
               m_lastTargetInterrequestTime, m_lastBuffer>>

PandaTypeOK ==
  /\ m_lastBandwidthShare \in Nat
  /\ m_lastSmoothBandwidthShare \in Int
  /\ m_lastTargetInterrequestTime \in Nat
  /\ m_lastBuffer \in Nat

(* The constructor, and the consultation before the first segment.         *)
PandaInit ==
  /\ m_lastBandwidthShare = 0
  /\ m_lastSmoothBandwidthShare = 0
  /\ m_lastTargetInterrequestTime = 0
  /\ m_lastBuffer = SegmentDuration

(* throughputMeasured, of a segment of the level asked for last.           *)
Measured(took) == (AverageBitrate[quality_] * SegmentDuration) \div Larger(took, 1)

(* What a rate of a second comes to in that time.                          *)
InTime(rate, time) == rate * (time \div 1000) + (rate * (time % 1000)) \div 1000

(* The share is probed upwards by Omega a second, and taken back by what   *)
(* it is above what was measured, at a rate of m_kappa = 0.28.             *)
Share(share, measured, time) ==
  Larger(0, share + (28 * InTime(Omega - Larger(0, share - measured + Omega), time)) \div 100)

(* Mutant: m_alpha is left out.                                            *)
SmoothAtOnce(smooth, share, time) == smooth + InTime(share - smooth, time)

(* m_alpha = 0.2 of the difference a second.  For more than five seconds   *)
(* it is more than the difference: the smoothed share overshoots, and may  *)
(* be negative for a while.                                                *)
Smooth(smooth, share, time) == smooth + InTime(share - smooth, time) \div 5

(* FindLargest, of all levels but the highest.                             *)
FindLargest(smooth, delta) ==
  HighestOf({q \in 0 .. Top - 1 : AverageBitrate[q] <= smooth - delta}, 0)

(* m_epsilon = 0.15                                                        *)
RUp(smooth) == FindLargest(smooth, Omega + (15 * smooth) \div 100)
RDown(smooth) == FindLargest(smooth, Omega)

(* Between RUp and RDown the level is kept.                                *)
VideoIndex(smooth) ==
  CASE AverageBitrate[quality_] < AverageBitrate[RUp(smooth)] -> RUp(smooth)
    [] AverageBitrate[quality_] \in AverageBitrate[RUp(smooth)] .. AverageBitrate[RDown(smooth)] -> quality_
    [] OTHER -> RDown(smooth)

(* seconds: how long a segment of level q takes of the smoothed share.     *)
AtShare(q, smooth) ==
  IF smooth < 0 THEN -((AverageBitrate[q] * SegmentDuration) \div (-smooth))
                ELSE (AverageBitrate[q] * SegmentDuration) \div Larger(smooth, 1)

(* targetInterrequestTime, with m_beta = 0.2.                              *)
InterrequestTime(q, smooth) ==
  Larger(0, AtShare(q, smooth) + (m_lastBuffer - PandaBMin) \div 5)

(* The pause is that of the target reckoned one consultation before.       *)
PandaStep ==
  /\ algorithm_ = "panda"
  /\ m_lastTargetInterrequestTime <= MaxTarget
  /\ SegmentArrives
  /\ LET measured == Measured(fetchTime')
         share    == IF received = 0 THEN measured ELSE m_lastBandwidthShare
         smooth   == IF received = 0 THEN measured ELSE m_lastSmoothBandwidthShare
         time     == Larger(fetchTime', m_lastTargetInterrequestTime) IN
     /\ m_lastBandwidthShare' = Share(share, measured, time)
     /\ m_lastSmoothBandwidthShare' = Smooth(smooth, m_lastBandwidthShare', time)
  /\ quality_' = VideoIndex(m_lastSmoothBandwidthShare')
  /\ m_lastTargetInterrequestTime' = InterrequestTime(quality_', m_lastSmoothBandwidthShare')
  /\ delay' = Larger(m_lastTargetInterrequestTime - fetchTime', 0)
  /\ m_lastBuffer' = level'

-----------------------------------------------------------------------------
(* A level newly asked for is the lowest, or one that the smoothed share   *)
(* carries with the margin of Omega, on the way up and on the way down.    *)
PandaKeepsMargin ==
  [][ algorithm_ = "panda" /\ quality_' \notin {0, quality_}
        => AverageBitrate[quality_'] <= m_lastSmoothBandwidthShare' - Omega ]_quality_

(* FindLargest leaves out the highest level: it is never asked for.        *)
TopIsLeftOut == algorithm_ = "panda" /\ Top > 0 => quality_ < Top

(* Smoothing overshoots only over more than five seconds: up to then the   *)
(* new smoothed share lies between the one before and the new share.       *)
SmoothsWithin ==
  [][ algorithm_ = "panda" /\ received > 0 /\ Larger(fetchTime', m_lastTargetInterrequestTime) <= 5000
        => \/ m_lastSmoothBandwidthShare' \in m_lastSmoothBandwidthShare .. m_lastBandwidthShare'
           \/ m_lastSmoothBandwidthShare' \in m_lastBandwidthShare' .. m_lastSmoothBandwidthShare ]_loopVars
============================================================================
