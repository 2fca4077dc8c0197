------------------------------ MODULE MCEvents ------------------------------
(* Small inputs for the event scheduler. *)
EXTENDS EventSched

TimerControls == {[on |-> TRUE, div |-> 2], [on |-> TRUE, div |-> 4],
                  [on |-> FALSE, div |-> 2]}
Flags == {{}, {"TIMER"}}

NoFlags == {{}}
LcdFlags == {{}, {"STAT", "VBLANK", "SERIAL", "JOYPAD"}}
Sources == {{"HBLANK", "MATCH"}, {"MODE2", "VBLANK"}}
=============================================================================
