----------------------------- MODULE Streaming -----------------------------
(***************************************************************************)
(* What a viewer is promised, without bytes, frames, sockets or alarms:    *)
(* segments are received one by one and played one by one, playing starts  *)
(* when enough of them is buffered, stalls when the buffer runs empty,     *)
(* resumes with the next segment and is over after the last one.  The      *)
(* stages are the DashPlayerStates of dash_client.h.                       *)
(***************************************************************************)
EXTENDS Integers

CONSTANTS
  Segments,     (* the length of the video, in segments  *)
  InitSegments  (* how many are buffered before playing  *)

VARIABLES
  stage,     (* the player's state  *)
  received,  (* segments received   *)
  played     (* segments played     *)

streamVars == <<stage, received, played>>

Init ==
  /\ stage = "NOT_STARTED"
  /\ received = 0
  /\ played = 0

Open ==
  /\ stage = "NOT_STARTED"
  /\ stage' = "INIT_BUFFERING"
  /\ UNCHANGED <<received, played>>

Receive ==
  /\ stage \in {"INIT_BUFFERING", "PLAY", "PAUSED"}
  /\ received < Segments
  /\ received' = received + 1
  /\ stage' = IF stage = "INIT_BUFFERING" /\ received + 1 < InitSegments
              THEN stage ELSE "PLAY"
  /\ UNCHANGED played

Play ==
  /\ stage = "PLAY"
  /\ played' = played + 1
  /\ stage' = IF played + 1 < received THEN "PLAY"
              ELSE IF received = Segments THEN "DONE" ELSE "PAUSED"
  /\ UNCHANGED received

(* There is no connection: the session is over before it began.            *)
Fail ==
  /\ stage \in {"NOT_STARTED", "INIT_BUFFERING"}
  /\ received = 0
  /\ stage' = "DONE"
  /\ UNCHANGED <<received, played>>

Next == Open \/ Receive \/ Play \/ Fail

Spec == Init /\ [][Next]_streamVars

(* The network goes on delivering and the player goes on playing.          *)
FairSpec ==
  /\ Spec
  /\ WF_streamVars(Open)
  /\ WF_streamVars(Receive)
  /\ WF_streamVars(Play)
============================================================================
