----------------------------- MODULE MCPlayback -----------------------------
(* Segments of 100 ms have two frames of 40 ms, and half a frame is        *)
(* rounded off.  The files of a level end with or without a newline, and   *)
(* the third file of one list is missing.                                  *)
EXTENDS Playback

File(sizes) == [opens |-> TRUE, lines |-> sizes]
Missing == [opens |-> FALSE, lines |-> <<>>]

MCLogs ==
  {<<File(<<2, 1, 3, 1, Blank>>)>>,
   <<File(<<1, 2>>), File(<<2, 3, Blank>>), Missing, File(<<4>>)>>}
=============================================================================
