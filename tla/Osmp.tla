-------------------------------- MODULE Osmp --------------------------------
(***************************************************************************)
(* OsmpAlgorithm (dash/dash_algorithm.cc): the level follows the time that *)
(* the last segment took, and no request is put off.  Comparisons of       *)
(* quotients are multiplied out.                                           *)
(***************************************************************************)
EXTENDS SegmentLoop

OsmpSlow(took) == took > SegmentDuration

(* At the measured throughput a segment of level q takes no longer than    *)
(* it plays.                                                               *)
OsmpFits(q, took) == AverageBitrate[q] * took <= SegmentDuration * AverageBitrate[quality_]

(* r_download > averageBitrate[l_cur - 1] / averageBitrate[l_cur]          *)
FasterThanBelow(took) ==
  SegmentDuration * AverageBitrate[quality_] > took * AverageBitrate[quality_ - 1]

(* r_download < 1: one level down, or to the lowest when that would not do.*)
OsmpDown(took) == IF quality_ > 0 /\ OsmpFits(quality_ - 1, took) THEN quality_ - 1 ELSE 0

(* Mutant: the search tests level 1 as well.                               *)
OsmpUpTested(took) == HighestOf({l \in Quality : OsmpFits(l, took)}, 0)

(* Otherwise the search for a level starts from the bottom, and ends below *)
(* the first that does not fit; it always takes level 1.                   *)
OsmpUp(took) ==
  CHOOSE l \in 1 .. Top :
    /\ l = Top \/ ~OsmpFits(l + 1, took)
    /\ \A p \in 1 .. l - 1 : OsmpFits(p + 1, took)

(* Mutant: what is kept at the top is the current level.                   *)
OsmpNextKept(took) ==
  CASE OsmpSlow(took) -> OsmpDown(took)
    [] ~OsmpSlow(took) /\ quality_ < Top /\ (quality_ = 0 \/ FasterThanBelow(took)) -> OsmpUp(took)
    [] OTHER -> quality_

(* l_nxt starts as 0, and stays so when neither search is entered: at the  *)
(* highest level, a segment that was fast enough is followed by level 0.   *)
OsmpNext(took) ==
  CASE OsmpSlow(took) -> OsmpDown(took)
    [] ~OsmpSlow(took) /\ quality_ < Top /\ (quality_ = 0 \/ FasterThanBelow(took)) -> OsmpUp(took)
    [] OTHER -> 0

OsmpStep ==
  /\ algorithm_ = "osmp"
  /\ SegmentArrives
  /\ quality_' = OsmpNext(fetchTime')
  /\ delay' = 0

-----------------------------------------------------------------------------
(* Whatever the throughput does, every level above 1 that is asked for is  *)
(* one that the throughput just measured delivers as fast as it is played. *)
(* (Level 1 is asked for untested, by the first round of the search.)      *)
AboveOneFits ==
  [][ algorithm_ = "osmp" /\ quality_' > 1
        => AverageBitrate[quality_'] * fetchTime' <= SegmentDuration * AverageBitrate[quality_] ]_quality_

(* Where every segment of the lowest level is fetched in the time it       *)
(* plays, and none of the others.                                          *)
LowestOnlyRates ==
  {rate \in Bandwidths :
     \A q \in Quality : \A size \in SegmentSizes[q] : OsmpSlow(size \div rate) <=> q > 0}

(* At such a constant bandwidth the quality does not settle: from the      *)
(* lowest level the first round of the search takes level 1 untested, and  *)
(* from there it falls back.                                               *)
LevelOneNotHeld ==
  algorithm_ = "osmp" /\ bandwidth \in LowestOnlyRates => []<>(quality_ = 0) /\ []<>(quality_ # 0)

(* Where every segment of every level measures enough for the highest      *)
(* level.                                                                  *)
AmpleRates ==
  {rate \in Bandwidths :
     \A q \in Quality : \A size \in SegmentSizes[q] :
       AverageBitrate[Top] * size <= rate * AverageBitrate[q] * SegmentDuration}

(* At such a constant bandwidth it does not settle either: again and again *)
(* the search for a level is skipped at the top, and the lowest level is   *)
(* asked for.                                                              *)
TopNotHeld ==
  algorithm_ = "osmp" /\ bandwidth \in AmpleRates => []<>(quality_ = Top) /\ []<>(quality_ = 0)
============================================================================
