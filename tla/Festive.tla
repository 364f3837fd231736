------------------------------ MODULE Festive ------------------------------
(***************************************************************************)
(* FestiveAlgorithm (dash/dash_algorithm.cc), the default algorithm: one   *)
(* level at a time, upwards only after some patience, and only if the      *)
(* gain in efficiency outweighs the loss of stability.                     *)
(* Comparisons of quotients are multiplied out.                            *)
(***************************************************************************)
EXTENDS SegmentLoop, Sequences, FiniteSets

CONSTANTS
  FestiveTarget,   (* target_buffer_                                       *)
  Delta,           (* delta_, the segment's duration                       *)
  Horizon,         (* horizon_, how much of the history counts             *)
  Jitter           (* what random_ may return, in 0 .. 2*delta_            *)

ASSUME FestiveAssumption ==
  /\ FestiveTarget \in Nat
  /\ Delta \in 0 .. FestiveTarget
  /\ Horizon \in Nat \ {0}
  /\ Jitter \subseteq 0 .. 2 * Delta

VARIABLES
  switch_up_count_,  (* consultations in a row that wanted a higher level  *)
  history            (* the last Horizon entries of history_quality_       *)

festiveVars == <<switch_up_count_, history>>

FestiveTypeOK ==
  /\ switch_up_count_ \in Nat
  /\ history \in Seq(Quality)
  /\ Len(history) \in 1 .. Horizon
  /\ algorithm_ = "festive" => history[Len(history)] = quality_

FestiveInit ==
  /\ switch_up_count_ = 0
  /\ history = <<0>>

kSwitchUpThreshold == [q \in 0 .. 9 |-> q]

(* b_target: the highest level within four fifths of the estimate.         *)
BTarget(estimate) ==
  LET within == {q \in Quality : 5 * AverageBitrate[q] <= 4 * estimate} IN
  IF within = {} THEN 0 ELSE CHOOSE q \in within : \A p \in within : p <= q

(* Mutant: the level that is the target is left again.                     *)
BRefDownAtTarget(target, count) ==
  IF target > quality_
  THEN IF count > kSwitchUpThreshold[quality_] THEN quality_ + 1 ELSE quality_
  ELSE Larger(quality_ - 1, 0)

(* b_ref: a neighbour of the current level, the upper one only when        *)
(* enough consultations have wanted it.                                    *)
BRef(target, count) ==
  IF target > quality_
  THEN IF count > kSwitchUpThreshold[quality_] THEN quality_ + 1 ELSE quality_
  ELSE IF target < quality_ THEN quality_ - 1 ELSE quality_

(* CalculateStabilityScore without the switch under consideration.         *)
Switches == Cardinality({i \in 1 .. Len(history) - 1 : history[i] # history[i + 1]})

Deviation(q, reference) ==
  IF AverageBitrate[q] >= reference THEN AverageBitrate[q] - reference
                                    ELSE reference - AverageBitrate[q]

(* The combined score of the current level is no worse than that of ref:   *)
(* both are stability plus 12 times efficiency, times the reference.       *)
Stays(ref, estimate) ==
  LET reference == Smaller(estimate, AverageBitrate[ref]) IN
  2 ^ Switches * reference + 12 * Deviation(quality_, reference)
    <= 2 ^ (Switches + 1) * reference + 12 * Deviation(ref, reference)

(* Mutant: the window is not bounded.                                      *)
LastOfAll(seq) == seq

(* What of the history still counts.                                       *)
LastOf(seq) == IF Len(seq) > Horizon THEN Tail(seq) ELSE seq

(* Mutant: the count is kept when the level goes up.                       *)
CountKept(target, next, count) == IF target > quality_ THEN count ELSE 0

(* switch_up_count_ after the consultation.                                *)
CountAfter(target, next, count) ==
  IF target > quality_ /\ next = quality_ THEN count ELSE 0

(* Mutant: the sign of the test is swapped.                                *)
DelaySwapped(buffered, threshold) == IF buffered < threshold THEN threshold - buffered ELSE 0

(* What is buffered above a random threshold around the target.            *)
DelayAbove(buffered, threshold) == IF buffered > threshold THEN buffered - threshold ELSE 0

FestiveReply(estimate, random) ==
  LET target == BTarget(estimate)
      count  == switch_up_count_ + 1
      ref    == BRef(target, count)
      next   == IF ref # quality_ /\ ~Stays(ref, estimate) THEN ref ELSE quality_
  IN
  /\ quality_' = next
  /\ switch_up_count_' = CountAfter(target, next, count)
  /\ delay' = DelayAbove(level', FestiveTarget - Delta + random)
  /\ history' = LastOf(Append(history, next))

FestiveStep ==
  /\ algorithm_ = "festive"
  /\ SegmentArrives
  /\ \E estimate \in Estimates', random \in Jitter : FestiveReply(estimate, random)

-----------------------------------------------------------------------------
(* The quality changes by one level at a time, whatever the estimate does. *)
OneLevelAtATime ==
  [][ algorithm_ = "festive" => quality_' - quality_ \in -1 .. 1 ]_quality_

(* The level goes up from q only when the last q + 1 segments were asked   *)
(* for at level q: switch_up_count_ is compared with the level, starts     *)
(* anew with every switch, and so counts only consultations at that level. *)
(* As far as history reaches.                                              *)
Patience ==
  [][ algorithm_ = "festive" /\ quality_' > quality_
        => LET n == Smaller(quality_ + 1, Horizon) IN
           /\ Len(history) >= n
           /\ \A i \in Len(history) - n + 1 .. Len(history) : history[i] = quality_ ]_quality_

(* At a constant bandwidth FESTIVE finds, and keeps, the highest level     *)
(* within four fifths of it.                                               *)
FindsTarget == algorithm_ = "festive" => <>[](quality_ = BTarget(bandwidth))
============================================================================
