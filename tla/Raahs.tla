------------------------------- MODULE Raahs -------------------------------
(***************************************************************************)
(* RaahsAlgorithm (dash/dash_algorithm.cc): one level up when the last     *)
(* segment was fetched much faster than it plays, down when much slower.   *)
(* Comparisons of quotients are multiplied out.                            *)
(***************************************************************************)
EXTENDS SegmentLoop

CONSTANT
  MinLevel   (* t_min_ms_                                                  *)

ASSUME RaahsAssumption == MinLevel \in Nat

VARIABLE
  crashed   (* the program has read far beyond the end of averageBitrate   *)

RaahsTypeOK == crashed \in BOOLEAN

RaahsInit == crashed = FALSE

(* Mutant: as soon as a segment is fetched faster than it plays.           *)
RaahsUpSoon(took) == SegmentDuration > took

(* mi > 1 + epsilon, epsilon being the largest step between two levels.    *)
RaahsUp(took) ==
  /\ SegmentDuration > took
  /\ \A q \in Quality \ {Top} : SegmentDuration * AverageBitrate[q] > took * AverageBitrate[q + 1]

(* mi < gamma_d_                                                           *)
RaahsDown(took) == 100 * SegmentDuration < 67 * took

(* Mutant: only levels of less than half the throughput.                   *)
RaahsLowerHalf(took) ==
  {q \in 0 .. quality_ - 1 : 2 * AverageBitrate[q] * took < SegmentDuration * AverageBitrate[quality_]}

(* The levels below the current one, of less than the throughput.          *)
RaahsLower(took) ==
  {q \in 0 .. quality_ - 1 : AverageBitrate[q] * took < SegmentDuration * AverageBitrate[quality_]}

(* Put off until what is buffered is down to MinLevel and the time of a    *)
(* segment of the current level at the lowest level's rate.                *)
RaahsPause(buffered) ==
  LET reserve == (AverageBitrate[quality_] * SegmentDuration) \div AverageBitrate[0] IN
  Larger(buffered - MinLevel - reserve, 0)

(* The search for a lower level counts an unsigned i down while i >= 0:    *)
(* when no level is low enough it goes on with index 4294967295, which is  *)
(* 32 GB beyond the vector.                                                *)
RaahsStep ==
  /\ algorithm_ = "raahs"
  /\ ~crashed
  /\ SegmentArrives
  /\ LET down == ~RaahsUp(fetchTime') /\ RaahsDown(fetchTime') IN
     IF down /\ RaahsLower(fetchTime') = {}
     THEN crashed' = TRUE /\ UNCHANGED <<quality_, delay>>
     ELSE /\ UNCHANGED crashed
          /\ delay' = RaahsPause(level')
          /\ quality_' =
               CASE RaahsUp(fetchTime') -> Smaller(quality_ + 1, Top)
                 [] down -> CHOOSE q \in RaahsLower(fetchTime') : \A p \in RaahsLower(fetchTime') : p <= q
                 [] OTHER -> quality_

-----------------------------------------------------------------------------
(* What is measured takes every segment for one of the mean size: where    *)
(* even the largest of a level measures more than the lowest level's rate. *)
SafeRates ==
  {rate \in Bandwidths :
     \A q \in Quality : \A size \in SegmentSizes[q] :
       AverageBitrate[0] * size < rate * AverageBitrate[q] * SegmentDuration}

(* At such a bandwidth the search ends within the table, from every level  *)
(* and after every change.  A bandwidth above the lowest level's rate is   *)
(* not enough: it has to be above by as much as the largest segment of a   *)
(* level is above their mean.                                              *)
SearchEndsInTable == bandwidth \in SafeRates => ~crashed

(* A pause leaves enough in the buffer for one more segment of the level   *)
(* now asked for, at the lowest level's rate, unless that level is higher  *)
(* than the one the pause was reckoned with.                               *)
PauseLeavesReserve ==
  [][ algorithm_ = "raahs" /\ delay' > 0 /\ quality_' <= quality_ /\ ~crashed'
        => (level' - delay') * AverageBitrate[0] > AverageBitrate[quality_'] * SegmentDuration ]_<<loopVars, crashed>>

(* Where some segment of a level is small enough to go up from it, and one *)
(* of the next level large enough to come down again.                      *)
ChasingRates ==
  {rate \in Bandwidths : \E q \in Quality \ {Top} :
     /\ \E small \in SegmentSizes[q] : \A p \in Quality \ {Top} :
          SegmentDuration * AverageBitrate[p] > (small \div rate) * AverageBitrate[p + 1]
     /\ \E large \in SegmentSizes[q + 1] : 100 * SegmentDuration < 67 * (large \div rate)}

(* At any other constant bandwidth the quality settles, whichever segments *)
(* come: the two thresholds do not chase each other over several levels    *)
(* either.                                                                 *)
Settles ==
  algorithm_ = "raahs" /\ bandwidth \notin ChasingRates => \E q \in Quality : <>[](quality_ = q)

(* The fallback that the source has after the search: when no level is    *)
(* low enough, the lowest is asked for.                                    *)
NoneFoundMeansLowest ==
  [][ algorithm_ = "raahs" /\ ~RaahsUp(fetchTime') /\ RaahsDown(fetchTime') /\ RaahsLower(fetchTime') = {}
        => quality_' = 0 ]_<<loopVars, crashed>>
============================================================================
