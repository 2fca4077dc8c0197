------------------------------ MODULE MCWaits ------------------------------
(* Polls of every line of a small frame, and of a line that never comes. *)
EXTENDS WaitLoops

MCLyWaits == [kind : {"ly"}, target : {0, Lines - 1, Lines}, jr : {"nz", "z", "c"}]
MCEnables == {{"VBLANK", "STAT"}}
MCSources == {{"HBLANK"}}
=============================================================================
