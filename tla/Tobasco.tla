------------------------------ MODULE Tobasco ------------------------------
(***************************************************************************)
(* TobascoAlgorithm (dash/dash_algorithm.cc): a fast start while the       *)
(* buffer grows, then one level down below BLow, one up above BHigh, and   *)
(* pauses in between.  The code counts the buffer in microseconds, the     *)
(* model in milliseconds; comparisons with fractions of the estimate are   *)
(* multiplied out.                                                         *)
(***************************************************************************)
EXTENDS SegmentLoop

CONSTANTS
  BMin, BLow, BHigh   (* b_min, b_low and b_high                           *)

ASSUME TobascoAssumption ==
  /\ {BMin, BLow, BHigh} \subseteq Nat
  /\ BMin <= BLow
  /\ BLow <= BHigh
  /\ SegmentDuration <= BHigh

VARIABLES
  m_running_fast_start,
  increasing   (* BufferInc: no bufferLevelNew is less than the one before *)

tobascoVars == <<m_running_fast_start, increasing>>

TobascoTypeOK ==
  /\ m_running_fast_start \in BOOLEAN
  /\ increasing \in BOOLEAN

TobascoInit ==
  /\ m_running_fast_start = TRUE
  /\ increasing = TRUE

BOpt == (BLow + BHigh) \div 2

LevelUp == IF quality_ < Top THEN quality_ + 1 ELSE quality_

LevelDown == IF quality_ > 0 THEN quality_ - 1 ELSE quality_

(* Mutant: a shrinking buffer does not end the fast start.                 *)
FastStartStays(estimate) ==
  /\ m_running_fast_start
  /\ quality_ # Top
  /\ 100 * AverageBitrate[quality_] <= 75 * estimate

FastStart(estimate) ==
  /\ m_running_fast_start
  /\ quality_ # Top
  /\ increasing'
  /\ 100 * AverageBitrate[quality_] <= 75 * estimate

(* a2, a3 and a4, in percent                                               *)
FastShare(buffered) ==
  CASE buffered < BMin                      -> 33
    [] BMin <= buffered /\ buffered < BLow  -> 50
    [] OTHER                                -> 75

FastNext(estimate, buffered) ==
  IF 100 * AverageBitrate[LevelUp] <= FastShare(buffered) * estimate THEN LevelUp ELSE quality_

FastPause(buffered) == IF buffered > BHigh THEN BHigh - SegmentDuration ELSE 0

(* Mutant: the comparison is the wrong way round.                          *)
AtLimitSwapped(estimate) == quality_ = Top \/ 100 * AverageBitrate[LevelUp] <= 90 * estimate

(* The next level is more than nine tenths of the estimate, or there is    *)
(* none.                                                                   *)
AtLimit(estimate) == quality_ = Top \/ 100 * AverageBitrate[LevelUp] >= 90 * estimate

TobascoNext(estimate, buffered) ==
  CASE buffered < BMin -> 0
    [] /\ BMin <= buffered /\ buffered < BLow
       /\ quality_ # 0
       /\ AverageBitrate[quality_] >= estimate -> LevelDown
    [] BHigh <= buffered /\ ~AtLimit(estimate) -> LevelUp
    [] OTHER -> quality_

(* Mutant: what pauses is what the buffer has above BOpt.                  *)
PauseToOptimum(estimate, buffered) ==
  IF BLow <= buffered /\ AtLimit(estimate) THEN Larger(buffered - BOpt, 0) ELSE 0

TobascoPause(estimate, buffered) ==
  IF BLow <= buffered /\ AtLimit(estimate) THEN Larger(buffered - SegmentDuration, BOpt) ELSE 0

TobascoStep ==
  /\ algorithm_ = "tobasco"
  /\ SegmentArrives
  /\ increasing' = (increasing /\ level' >= level)
  /\ \E estimate \in Estimates' :
       /\ m_running_fast_start' = FastStart(estimate)
       /\ IF FastStart(estimate)
          THEN quality_' = FastNext(estimate, level') /\ delay' = FastPause(level')
          ELSE quality_' = TobascoNext(estimate, level')     /\ delay' = TobascoPause(estimate, level')

-----------------------------------------------------------------------------
(* As long as the fast start lasts, neither the buffer nor the quality has *)
(* ever gone down, and once it is over it stays so.                        *)
FastStartGrows ==
  [][ algorithm_ = "tobasco" /\ m_running_fast_start'
        => m_running_fast_start /\ level' >= level /\ quality_' >= quality_ ]_<<loopVars, tobascoVars>>

(* The quality falls by more than one level only when the buffer is nearly *)
(* empty, and then to the lowest; it never rises by more than one.         *)
FallIsLastResort ==
  [][ algorithm_ = "tobasco"
        => quality_' \in quality_ - 1 .. quality_ + 1 \/ (level' < BMin /\ quality_' = 0) ]_<<loopVars, tobascoVars>>

(* Where every segment of a level below the bandwidth adds to the buffer.  *)
FillingRates ==
  {rate \in Bandwidths :
     \A q \in Quality : AverageBitrate[q] < rate =>
       \A size \in SegmentSizes[q] : size < rate * SegmentDuration}

(* At such a constant bandwidth no level above the lowest is held: a pause *)
(* is at least what is buffered less one segment, so that the consultation *)
(* after it finds the buffer below BMin and asks for the lowest level ...  *)
PauseEmptiesBuffer == algorithm_ = "tobasco" /\ bandwidth \in FillingRates => []<>(quality_ = 0)

(* ... although the climb to the highest level is taken again and again    *)
(* when the bandwidth carries that with ease.                              *)
ClimbsAgain ==
  algorithm_ = "tobasco" /\ 2 * AverageBitrate[Top] <= bandwidth
    => []<>(quality_ = Top)
============================================================================
