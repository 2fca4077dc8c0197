----------------------------- MODULE WaitLoops -----------------------------
(***************************************************************************)
(* The loops that compiler/timing.c replaces: HALT, polling LY, polling a  *)
(* flag in HRAM, and the counted delay.  None of them spins: native code   *)
(* sets D2 to where the loop would be, or to wake_limit when that is       *)
(* beyond it, and returns to jit_run, which enters the loop again.         *)
(*                                                                         *)
(* On top of EventSched this module knows where the program is.  A block   *)
(* is only entered while D2 is below the limit, as the dispatcher checks,  *)
(* and an interrupt that is taken puts the loop aside until its handler    *)
(* returns.  "Handler" is any code of the game; what a nested interrupt    *)
(* interrupts is still the handler.                                        *)
(***************************************************************************)
EXTENDS EventSched

CONSTANTS
  LyWaits,          \* [kind : {"ly"}, target, jr : {"nz", "z", "c"}]
  Pass,             \* cycles of the last pass of a loop that polls LY, 28
  DecCycles,        \* cycles of dec r, 4
  JrTaken, JrEnd,   \* cycles of jr when it jumps and when not, 12 and 8
  Counts            \* what the counter of a delay begins with

Main == [kind |-> "main"]
Handler == [kind |-> "handler"]
Halt == [kind |-> "halt"]
Idle == [kind |-> "idle"]
Delay == [kind |-> "delay"]
Wait == LyWaits \cup {Halt, Idle, Delay}

ASSUME WaitAssumption ==
  /\ LyWaits \subseteq [kind : {"ly"}, target : Nat, jr : {"nz", "z", "c"}]
  /\ {Pass, DecCycles, JrTaken, JrEnd} \subseteq Nat \ {0}
  /\ JrTaken = JrEnd + DecCycles  \* the code charges one for the other
  /\ Counts \subseteq Nat \ {0}

VARIABLES
  pc,          \* where the program is
  return_to,   \* where its handler returns to
  exiting,     \* native code has returned to jit_run
  reg,         \* register A after a poll of LY; the counter of a delay
  flags        \* "Z", "C" or "none" of them, as the poll leaves them

program == <<pc, return_to, exiting, reg, flags>>
scheduler == <<frame_cycles, event_deadline, irq, timer, lcd, frame, ly>>
wvars == <<vars, program>>

\* The cycles of native code; nothing else of the scheduler moves.
SetD2(cycles) ==
  /\ d2' = cycles
  /\ UNCHANGED <<phase, wake_limit, double_speed, scheduler>>

Here(kind) == pc.kind = kind /\ phase = "run" /\ ~exiting

-----------------------------------------------------------------------------
(* Leaving native code *)

\* emit_wake_skip, to be entered again at next
emit_wake_skip(next) ==
  /\ SetD2(wake_limit)
  /\ exiting' = TRUE /\ pc' = next

-----------------------------------------------------------------------------
(* Polling LY: compile_ly_wait, compile_ly_wait_reg and compile_ly_wait_hl *)

Lo == pc.target * Line
Hi == Lo + Line
OnLine == frame_cycles \in Lo .. Hi - 1

\* Seeded error: the line is compared with the last line shown.
Reachable_Visible == pc.target < Visible
Reachable == pc.target < Lines

\* the loop condition is already false
ExitsNow ==
  CASE pc.jr = "nz" -> Reachable /\ OnLine
    [] pc.jr = "z"  -> ~OnLine
    [] pc.jr = "c"  -> Reachable /\ frame_cycles >= Lo

\* Seeded error: the last line's end is not the frame's.
ExitFlags_Below == IF OnLine THEN "Z" ELSE "none"
ExitFlags == IF OnLine THEN "Z" ELSE IF frame_cycles < Lo THEN "C" ELSE "none"

emit_ly_exit_now ==
  /\ Here("ly") /\ ExitsNow
  /\ reg' = frame_cycles \div Line
  /\ flags' = ExitFlags
  /\ SetD2(d2 + Pass)
  /\ exiting' = TRUE /\ pc' = Main
  /\ UNCHANGED return_to

\* The position at which the condition becomes false in this frame.
WaitsFor == IF pc.jr = "z" THEN Hi ELSE Lo
Waits == ~ExitsNow /\ Reachable /\ frame_cycles < WaitsFor

\* Seeded error: PPU cycles are taken for CPU cycles.
Distance_NotDoubled == WaitsFor - frame_cycles
Distance == (WaitsFor - frame_cycles) * Speed

\* Seeded error: the distance is not clamped.
InReach_Always == TRUE
InReach == Distance <= wake_limit

\* Seeded error: line 153 is followed by line 154.
NextLine_NoWrap(n) == n + 1
NextLine(n) == (n + 1) % Lines

emit_ly_wait_done ==
  /\ Here("ly") /\ Waits /\ InReach
  /\ SetD2(Distance)
  /\ reg' = IF pc.jr = "z" THEN NextLine(pc.target) ELSE pc.target
  /\ flags' = CASE pc.jr # "z" -> "Z"
                [] pc.jr = "z" /\ pc.target = Lines - 1 -> "C"
                [] OTHER -> "none"
  /\ exiting' = TRUE /\ pc' = Main
  /\ UNCHANGED return_to

\* emit_ly_wait_clamp beyond the limit, or the line is past or never comes
KeepPolling ==
  /\ Here("ly") /\ ~ExitsNow /\ ~(Waits /\ InReach)
  /\ emit_wake_skip(pc)
  /\ UNCHANGED <<return_to, reg, flags>>

-----------------------------------------------------------------------------
(* HALT and polling a flag *)

compile_halt ==
  /\ Here("halt")
  /\ emit_wake_skip(Main)
  /\ UNCHANGED <<return_to, reg, flags>>

\* repeats: what jr z or jr nz finds in the byte, which handlers write
compile_hram_idle_wait(repeats) ==
  /\ Here("idle")
  /\ IF repeats THEN emit_wake_skip(pc)
     ELSE pc' = Main /\ UNCHANGED <<vars, exiting>>
  /\ UNCHANGED <<return_to, reg, flags>>

-----------------------------------------------------------------------------
(* The delay: dec r; jr nz, -3 *)

Iteration == DecCycles + JrTaken

\* What is left of the limit once the dec is counted.
Remaining == wake_limit - (d2 + DecCycles)
FullCost == Iteration * reg - DecCycles - (JrTaken - JrEnd)
Full == Remaining > 0 /\ Remaining >= FullCost

compile_delay_loop_full ==
  /\ Here("delay") /\ Full
  /\ SetD2(d2 + DecCycles + FullCost)
  /\ reg' = 0 /\ pc' = Main
  /\ UNCHANGED <<return_to, exiting, flags>>

\* Seeded error: no iteration fits when less than one does.
Fitting_Zero == IF Remaining > 0 THEN (Remaining + DecCycles) \div Iteration ELSE 0
\* Seeded error: a limit that is already behind is not told apart.
Fitting_Unsigned ==
  LET j == (Remaining + DecCycles) \div Iteration IN IF j # 0 THEN j ELSE 1
\* at least one
Fitting ==
  LET j == (Remaining + DecCycles) \div Iteration
  IN IF Remaining > 0 /\ j > 0 THEN j ELSE 1

\* Seeded error: the last jr is counted as taken.
PartialCost_Taken(j) == Iteration * j - DecCycles
PartialCost(j) == Iteration * j - DecCycles - IF j = reg THEN JrTaken - JrEnd ELSE 0

compile_delay_loop_partial ==
  /\ Here("delay") /\ ~Full
  /\ SetD2(d2 + DecCycles + PartialCost(Fitting))
  /\ reg' = reg - Fitting
  /\ exiting' = TRUE /\ pc' = IF reg' = 0 THEN Main ELSE pc
  /\ UNCHANGED <<return_to, flags>>

WaitStep ==
  \/ emit_ly_exit_now \/ emit_ly_wait_done \/ KeepPolling
  \/ compile_halt
  \/ \E repeats \in BOOLEAN : compile_hram_idle_wait(repeats)
  \/ compile_delay_loop_full \/ compile_delay_loop_partial

-----------------------------------------------------------------------------
(* The rest of the program *)

Runs == pc.kind \in {"main", "handler"} /\ phase = "run" /\ ~exiting

\* A block of other code; the dispatcher has looked at the limit.
RunBlock ==
  /\ Runs /\ d2 < wake_limit
  /\ \E cycles \in Blocks : Run(cycles)
  /\ UNCHANGED program

\* The cycles of the instruction have been counted before it is executed.
Access ==
  /\ Runs /\ d2 > 0
  /\ \/ \E data \in IeWrites : WriteIe(data)
     \/ \E sources \in StatWrites : WriteStat(sources)
     \/ \E enabled \in ImeWrites : dmg_ei_di(enabled)
     \/ \E double \in SpeedSwitches : jit_handle_stop(double)
  /\ UNCHANGED program

\* The program comes to a loop, in a block that may have begun before it.
Enter ==
  /\ Runs /\ pc = Main
  /\ pc' \in Wait
  /\ reg' \in IF pc' = Delay THEN Counts ELSE {0}
  /\ flags' = "none"
  /\ UNCHANGED <<vars, return_to, exiting>>

\* reti, and the dispatcher's look at the limit
Return ==
  /\ Runs /\ pc = Handler
  /\ dmg_ei_di(TRUE)
  /\ pc' = return_to /\ return_to' = Main
  /\ exiting' = (d2 >= wake_limit')
  /\ UNCHANGED <<reg, flags>>

\* Back in jit_run.  A and the flags are the program's own from here on.
Sync ==
  /\ exiting \/ Runs
  /\ dmg_sync_hw
  /\ exiting' = FALSE
  /\ reg' = IF pc = Main THEN 0 ELSE reg
  /\ flags' = IF pc = Main THEN "none" ELSE flags
  /\ UNCHANGED <<pc, return_to>>

Fire ==
  /\ FireStat \/ FireVblank \/ FireRender \/ FireWrap
  /\ UNCHANGED program

\* check_interrupts pushes the address the program is at.
Reenter ==
  /\ EndDispatch
  /\ IF Taken = {} THEN UNCHANGED <<pc, return_to>>
     ELSE /\ pc' = Handler
          /\ return_to' = IF pc = Handler THEN return_to ELSE pc
  /\ UNCHANGED <<exiting, reg, flags>>

-----------------------------------------------------------------------------
WaitInit ==
  /\ Init
  /\ pc = Main /\ return_to = Main
  /\ exiting = FALSE
  /\ reg = 0 /\ flags = "none"

\* What happens of itself: native code, and jit_run after it.
Continue == WaitStep \/ (exiting /\ Sync) \/ Fire \/ Reenter

WaitNext ==
  \/ Continue
  \/ RunBlock \/ Access \/ Enter \/ Return \/ Sync

WaitSpec == WaitInit /\ [][WaitNext]_wvars

\* The emulator does not stop.
FairWaitSpec == WaitSpec /\ WF_wvars(Continue)

-----------------------------------------------------------------------------
(* Properties *)

\* The program is at a place it can be at, A holds a line of the frame or what is
\* left of a counter, and the flags are those of a comparison.
WaitTypeOK ==
  /\ pc \in Wait \cup {Main, Handler} /\ return_to \in Wait \cup {Main}
  /\ exiting \in BOOLEAN
  /\ reg \in 0 .. Lines - 1 \/ \E n \in Counts : reg \in 0 .. n
  /\ flags \in {"none", "Z", "C"}

\* What the loop reads and decides at a position of the frame.
LyOf(position) == (position % Frame) \div Line
Compare(n, target) == IF n = target THEN "Z" ELSE IF n < target THEN "C" ELSE "none"
Loops(jr, f) == CASE jr = "nz" -> f # "Z" [] jr = "z" -> f = "Z" [] OTHER -> f = "C"
LoopsAt(cycles) ==
  Loops(pc.jr, Compare(LyOf(frame_cycles + cycles \div Speed), pc.target))

\* A wait for a line of the frame, once entered, skips no moment at which the
\* loop would have ended, and when it ends, A and the flags are what the last
\* pass would have left.
WaitMatchesLoop ==
  LET ends == pc' = Main
      last == IF ends /\ ExitsNow THEN 0 ELSE d2' - d2
  IN /\ d2' >= d2
     /\ \A k \in 0 .. last - 1 : LoopsAt(d2 + k)
     /\ ends => /\ reg' = LyOf(frame_cycles + (d2 + last) \div Speed)
                /\ flags' = Compare(reg', pc.target)
                /\ ~Loops(pc.jr, flags')

PollsLy == pc.kind = "ly" /\ exiting' /\ ~exiting

\* The waits of compile_ly_wait that begin a dispatch are the loops they
\* replace, at both speeds and for the last line of the frame too.
LyWaitMatchesLoop == [][PollsLy /\ d2 = 0 => WaitMatchesLoop]_wvars

\* "The wait matches the real loop" (compiler/tests/test_exec_timing.c:74),
\* in the middle of a dispatch as well.
EveryLyWaitMatchesLoop == [][PollsLy => WaitMatchesLoop]_wvars

\* However a delay is cut up by deadlines and handlers, it takes the cycles of
\* the loop it replaces (compiler/timing.c, compile_delay_loop).
LoopCost(n) == IF n = 0 THEN 0 ELSE Iteration * n - (JrTaken - JrEnd)

DelayTakesItsTime ==
  [][pc = Delay /\ d2' # d2 /\ phase = "run" /\ ~exiting =>
       d2' - d2 = LoopCost(reg) - LoopCost(reg')]_wvars

\* Waiting keeps the program from no event: beyond the limit of its dispatch
\* it takes one pass of its loop at most (compiler/timing.c, the clamp of
\* emit_ly_wait_clamp and the iterations of compile_delay_loop that fit).
OnePass == IF pc = Delay THEN Iteration ELSE Pass

WaitsStopAtTheLimit ==
  [][d2' > d2 /\ pc \in Wait => d2' <= wake_limit \/ d2' <= d2 + OnePass]_wvars

\* A wait for a line that exists, and a delay, come to an end, or at least to
\* an interrupt.
WaitsEnd ==
  \A w \in {l \in LyWaits : l.target < Lines} \cup {Delay} : pc = w ~> pc # w
=============================================================================
