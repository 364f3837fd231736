-------------------------------- MODULE Svaa --------------------------------
(***************************************************************************)
(* SvaaAlgorithm (dash/dash_algorithm.cc): the estimated throughput,       *)
(* weighted by how full the buffer is (f_q) and how fast it grows (f_t),   *)
(* is compared with the current level.  Comparisons of quotients are       *)
(* multiplied out.                                                         *)
(*                                                                         *)
(* f_q is 2 e^x / (1 + e^x), where x is what is buffered above the target: *)
(* it is between 0 and 1 below the target, 1 at it and between 1 and 2     *)
(* above, and that is all the model knows of it.                           *)
(***************************************************************************)
EXTENDS SegmentLoop

CONSTANT
  SvaaTarget   (* target_buffer_                                           *)

ASSUME SvaaAssumption == SvaaTarget \in Nat

VARIABLES
  m_m_k_1, m_m_k_2,   (* the two m_k before                                *)
  m_counter           (* consultations that would have gone up             *)

svaaVars == <<m_m_k_1, m_m_k_2, m_counter>>

Patiences == {1, 5, 15, 20}

SvaaTypeOK ==
  /\ m_m_k_1 \in Patiences \cup {0}
  /\ m_m_k_2 \in Patiences \cup {0}
  /\ m_counter \in 0 .. 20

SvaaInit ==
  /\ m_m_k_1 = 0
  /\ m_m_k_2 = 0
  /\ m_counter = 0

(* q_ref, which the code rounds to seconds.                                *)
QRef == (SvaaTarget \div 1000) * 1000

(* m_k: the slower the buffer grows, the more patience.                    *)
Mk(diff) ==
  CASE 10 * diff >= 4 * SegmentDuration -> 1
    [] 4 * SegmentDuration > 10 * diff /\ 10 * diff >= 2 * SegmentDuration -> 5
    [] 2 * SegmentDuration > 10 * diff /\ diff >= 0 -> 15
    [] diff < 0 -> 20

(* The signs that u_k - currRate may have: pace : need is f_t times the    *)
(* estimate to the current level's bitrate, and f_q is between its bounds. *)
Signs(buffered, pace, need) ==
  {u \in {-1, 0, 1} :
     CASE buffered < QRef -> IF u = -1 THEN need > 0 ELSE pace > need /\ (u = 0 => need > 0)
       [] buffered = QRef -> u = (IF pace > need THEN 1 ELSE IF pace = need THEN 0 ELSE -1)
       [] buffered > QRef -> IF u = -1 THEN pace < need
                             ELSE 2 * pace > need /\ (u = 0 => pace < need)}

(* The highest level that the estimate carries, or the lowest.             *)
SvaaFits(estimate) == HighestOf({q \in Quality : AverageBitrate[q] <= estimate}, 0)

(* Mutant: low is what is below the target.                                *)
RunsLowAtTarget(buffered) == buffered < QRef

RunsLow(buffered) == 2 * buffered < QRef

(* The levels jump; in between, the counter goes up with u_k > currRate,   *)
(* starts anew with u_k < currRate, and is left as it is otherwise.        *)
SvaaReply(estimate, u, m) ==
  IF RunsLow(level')
  THEN quality_' = SvaaFits(estimate) /\ UNCHANGED m_counter
  ELSE \/ /\ u = 1 /\ m_counter + 1 > m
          /\ quality_' = SvaaFits(estimate)
          /\ m_counter' = 0
       \/ /\ u = 1 /\ m_counter + 1 <= m
          /\ m_counter' = m_counter + 1
          /\ UNCHANGED quality_
       \/ /\ u = 0
          /\ UNCHANGED <<quality_, m_counter>>
       \/ /\ u = -1
          /\ m_counter' = 0
          /\ UNCHANGED quality_

SvaaStep ==
  /\ algorithm_ = "svaa"
  /\ SegmentArrives
  /\ m_m_k_1' = Mk(BufferDiff)
  /\ m_m_k_2' = m_m_k_1
  /\ delay' = 0
  /\ \E estimate \in Estimates' :
       \E u \in Signs(level', SegmentDuration * estimate,
                      AverageBitrate[quality_] * (SegmentDuration - BufferDiff)) :
         SvaaReply(estimate, u, (Mk(BufferDiff) + m_m_k_1 + m_m_k_2) \div 3)

-----------------------------------------------------------------------------
(* The quality falls only when the buffer is less than half the target,    *)
(* above it or growing.  A buffer that drains from the target to its half  *)
(* lowers nothing: u_k is then less than the estimate, and only an         *)
(* estimate below the current level would give a lower one.                *)
HoldsWhileDraining ==
  [][ algorithm_ = "svaa" /\ quality_' < quality_
        => 2 * level' < QRef \/ level' > QRef \/ level' > level ]_<<loopVars, svaaVars>>
============================================================================
