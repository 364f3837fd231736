--------------------------- MODULE MCAdaptation ---------------------------
(* Segments of four seconds; targets, marks and reserve are those of the   *)
(* code.                                                                   *)
EXTENDS Adaptation, TLC

(* The repository's six video files, in units of 100 kbit/s: their average *)
(* bitrates, and in 100 kbit the least, the mean and the greatest size of  *)
(* their segments, rounded to 400 kbit so that times come in steps.        *)
MCVideo == [q \in 0 .. 5 |-> <<3, 7, 12, 18, 28, 43>>[q + 1]]

MCVideoSizes ==
  [q \in 0 .. 5 |->
     {1000 * size : size \in <<{8, 12, 16}, {20, 28, 36}, {32, 48, 56}, {48, 72, 88},
                               {72, 112, 140}, {116, 172, 192}>>[q + 1]}]

(* Four levels that span a factor of five.                                 *)
MCLadder == 0 :> 3 @@ 1 :> 4 @@ 2 :> 6 @@ 3 :> 15
MCLadderSizes ==
  0 :> {8000, 16000} @@ 1 :> {8000, 24000} @@ 2 :> {12000, 36000} @@ 3 :> {32000, 88000}

(* For SFTM, levels that span a factor of eight, so that its pause leaves  *)
(* 32 seconds buffered and its target can be exceeded, and one small step  *)
(* (a third), without which it never tests for a lower level with success. *)
MCBitrate == 0 :> 2 @@ 1 :> 3 @@ 2 :> 6 @@ 3 :> 16
MCSizes ==
  0 :> {4000, 12000} @@ 1 :> {8000, 16000} @@ 2 :> {12000, 36000} @@ 3 :> {32000, 96000}

(* What the frames played between two segments fall short of the time that *)
(* has passed: a second (alarms that are late by as much in all) or        *)
(* nothing; or always nothing.                                             *)
MCDrift == {-1000, 0}
MCOnTime == {0}
============================================================================
