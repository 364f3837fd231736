---------------------------- MODULE Adaptation ----------------------------
(***************************************************************************)
(* The client with one of its adaptation algorithms, which it is given at  *)
(* the start and keeps (DashClient::SetAdaptationAlgorithm).               *)
(***************************************************************************)
EXTENDS Fdash, Festive, Osmp, Panda, Raahs, Sftm, Svaa, Tobasco

CONSTANT
  Algorithms   (* the names that the program may be started with           *)

ASSUME AdaptationAssumption ==
  Algorithms \subseteq {"fdash", "festive", "osmp", "panda", "raahs", "sftm", "svaa", "tobasco"}

adaptationVars ==
  <<loopVars, festiveVars, pandaVars, crashed, sftmVars, svaaVars, tobascoVars>>

AdaptationTypeOK ==
  /\ LoopTypeOK
  /\ algorithm_ \in Algorithms
  /\ FestiveTypeOK
  /\ PandaTypeOK
  /\ RaahsTypeOK
  /\ SftmTypeOK
  /\ SvaaTypeOK
  /\ TobascoTypeOK

AdaptationInit ==
  /\ algorithm_ \in Algorithms
  /\ LoopInit
  /\ FestiveInit
  /\ PandaInit
  /\ RaahsInit
  /\ SftmInit
  /\ SvaaInit
  /\ TobascoInit

(* The next segment arrives and the algorithm is consulted.                *)
GetNextQuality ==
  \/ FdashStep   /\ UNCHANGED <<festiveVars, pandaVars, crashed, sftmVars, svaaVars, tobascoVars>>
  \/ FestiveStep /\ UNCHANGED <<pandaVars, crashed, sftmVars, svaaVars, tobascoVars>>
  \/ OsmpStep    /\ UNCHANGED <<festiveVars, pandaVars, crashed, sftmVars, svaaVars, tobascoVars>>
  \/ PandaStep   /\ UNCHANGED <<festiveVars, crashed, sftmVars, svaaVars, tobascoVars>>
  \/ RaahsStep   /\ UNCHANGED <<festiveVars, pandaVars, sftmVars, svaaVars, tobascoVars>>
  \/ SftmStep    /\ UNCHANGED <<festiveVars, pandaVars, crashed, svaaVars, tobascoVars>>
  \/ SvaaStep    /\ UNCHANGED <<festiveVars, pandaVars, crashed, sftmVars, tobascoVars>>
  \/ TobascoStep /\ UNCHANGED <<festiveVars, pandaVars, crashed, sftmVars, svaaVars>>

(* As long as the connection stands, the next segment arrives.             *)
AdaptationSpec ==
  AdaptationInit /\ [][GetNextQuality]_adaptationVars /\ WF_adaptationVars(GetNextQuality)

-----------------------------------------------------------------------------
(* A request is put off no longer than what is buffered lasts: a download  *)
(* that is held back does not by itself stop the player.  TOBASCO's pauses *)
(* do (PauseEmptiesBuffer).                                                *)
DelayWithinBuffer == algorithm_ \notin {"panda", "tobasco"} /\ ~crashed => delay <= level

(* RAAHS and SFTM change only to a level that the throughput just measured *)
(* delivers no slower than it is played.                                   *)
ChangesFit ==
  [][ quality_' # quality_ /\ algorithm_ \in {"raahs", "sftm"}
        => AverageBitrate[quality_'] * fetchTime' <= SegmentDuration * AverageBitrate[quality_] ]_loopVars
============================================================================
