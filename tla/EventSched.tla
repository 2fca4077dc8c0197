----------------------------- MODULE EventSched -----------------------------
(***************************************************************************)
(* The event scheduler of src/dmg.c and the end of a dispatch in           *)
(* system6/jit.c.                                                          *)
(*                                                                         *)
(* Compiled code counts its cycles in d2 and runs from block to block      *)
(* until d2 reaches wake_limit.  Nothing of the hardware moves meanwhile:  *)
(* LY and TIMA are computed when they are read, and writes to registers    *)
(* move the deadlines of a small table.  When the code exits, dmg_sync_hw  *)
(* absorbs d2 and fires what was crossed, check_interrupts takes one       *)
(* interrupt and update_wake_limit says how far the next dispatch may go.  *)
(*                                                                         *)
(* A block is finished before the limit is looked at, and code that is not *)
(* compiled yet ends a dispatch early: Run and dmg_sync_hw are not guarded *)
(* by wake_limit.  MaxDispatch bounds d2.                                  *)
(*                                                                         *)
(* total_cycles is only used in differences: tima_elapsed stands for       *)
(* total_cycles - tima_base_cycle, and is 0 while the timer is off.        *)
(***************************************************************************)
EXTENDS Integers, FiniteSets

CONSTANTS
  Line, Lines, Visible, Hblank,  \* 456, 154, 144, 252
  TimerMax, Divisors,            \* 256, {16, 64, 256, 1024}
  SerialTime,                    \* 4096
  EvNone,                        \* EV_NONE: later than every deadline
  MaxDispatch,                   \* bound on the CPU cycles of one dispatch
  Blocks,                        \* cycles between two actions of the code
  Garbage,                       \* what an uninitialised line may hold
  \* the values the program writes to each register
  TimaWrites, TmaWrites, TacWrites, ScWrites, IfWrites, IeWrites,
  StatWrites, LycWrites, LcdcWrites, ImeWrites, SpeedSwitches, Buttons

Frame == Lines * Line
Line144 == Visible * Line

Source == {"HBLANK", "MODE2", "VBLANK", "MATCH"}
Interrupt == {"VBLANK", "STAT", "TIMER", "SERIAL", "JOYPAD"}
Ev == {"STAT", "VBLANK", "RENDER", "TIMA", "SERIAL", "WRAP"}
Control == [on : BOOLEAN, div : Divisors]

ASSUME RasterAssumption ==
  /\ {Line, Lines, Visible, Hblank} \subseteq Nat \ {0}
  /\ Hblank < Line /\ Visible < Lines
ASSUME TimerAssumption ==
  /\ TimerMax \in Nat \ {0} /\ SerialTime \in Nat \ {0}
  /\ \A d \in Divisors : d \in Nat \ {0} /\ d % 2 = 0
  /\ \A d \in Divisors : EvNone > 2 * Frame + MaxDispatch + TimerMax * d
  /\ EvNone > 2 * Frame + MaxDispatch + SerialTime
ASSUME CycleAssumption ==
  /\ EvNone \in Nat /\ MaxDispatch \in Nat
  /\ \A n \in Blocks : n \in Nat \ {0} /\ n % 2 = 0  \* whole M-cycles
ASSUME WriteAssumption ==
  /\ TimaWrites \cup TmaWrites \subseteq 0 .. TimerMax - 1
  /\ TacWrites \subseteq Control
  /\ ScWrites \cup LcdcWrites \cup ImeWrites \subseteq BOOLEAN
  /\ SpeedSwitches \cup Buttons \subseteq BOOLEAN
  /\ IfWrites \cup IeWrites \subseteq SUBSET Interrupt
  /\ StatWrites \subseteq SUBSET Source
  /\ LycWrites \cup Garbage \subseteq Nat

VARIABLES
  phase,          \* "run": compiled code; "sync": in dmg_sync_hw
  d2,             \* CPU cycles since the dispatch began (jit_ctx.read_cycles)
  wake_limit,
  double_speed,
  frame_cycles,
  event_deadline,
  interrupt_enable, ie, interrupt_request_mask,
  timer_count, timer_mod, timer_control, tima_elapsed,
  lcdc_on, stat, lyc, stat_event_line,
  sent_vblank_start, rendered_this_frame,
  lazy_ly, ly_read_cycle

cpu == <<phase, d2, wake_limit, double_speed>>
irq == <<interrupt_enable, ie, interrupt_request_mask>>
timer == <<timer_count, timer_mod, timer_control, tima_elapsed>>
lcd == <<lcdc_on, stat, lyc, stat_event_line>>
frame == <<sent_vblank_start, rendered_this_frame>>
ly == <<lazy_ly, ly_read_cycle>>
vars == <<cpu, frame_cycles, event_deadline, irq, timer, lcd, frame, ly>>

-----------------------------------------------------------------------------
(* The clocks *)

Speed == IF double_speed THEN 2 ELSE 1

dmg_now_ppu == frame_cycles + d2 \div Speed

Crossed(ev) == dmg_now_ppu >= event_deadline[ev]

-----------------------------------------------------------------------------
(* The budget of a dispatch *)

\* The deadlines that may end a dispatch when ie is the enable register.
Waking(ie_) ==
  {"WRAP", "VBLANK"} \cup (IF "STAT" \in ie_ THEN {"STAT"} ELSE {})
    \cup (IF "TIMER" \in ie_ THEN {"TIMA"} ELSE {})
    \cup (IF "SERIAL" \in ie_ THEN {"SERIAL"} ELSE {})

Earliest(deadline, evs) ==
  CHOOSE at \in {deadline[ev] : ev \in evs} : \A ev \in evs : at <= deadline[ev]

dmg_cycles_to_next_event(deadline, ie_, now) ==
  LET best == Earliest(deadline, Waking(ie_))
  IN IF best <= now THEN 0 ELSE best - now

\* The state the handler leaves is written with primes.
dmg_budget_update ==
  LET dist == IF interrupt_enable' /\ interrupt_request_mask' \cap ie' # {}
              THEN 0
              ELSE Speed' * dmg_cycles_to_next_event(event_deadline', ie', frame_cycles')
  IN wake_limit' = IF dist < wake_limit THEN dist ELSE wake_limit

-----------------------------------------------------------------------------
(* The beam: LY and the STAT interrupt *)

\* Seeded errors: a position of the next frame is not brought back into
\* this one; a counter that is ahead of the beam is not started again.
LyAt_NoWrap(now, lazy, read) ==
  LET behind == now < read
      from == IF behind THEN 0 ELSE read
      lines == (now - from) \div Line
  IN [lazy |-> ((IF behind THEN 0 ELSE lazy) + lines) % Lines,
      read |-> from + lines * Line, pos |-> now - from - lines * Line]
LyAt_KeepAhead(now, lazy, read) ==
  LET current == IF now >= Frame THEN now - Frame ELSE now
      lines == IF current < read THEN 0 ELSE (current - read) \div Line
  IN [lazy |-> (lazy + lines) % Lines, read |-> read + lines * Line,
      pos |-> current % Line]

\* The lazy line counter, advanced to position now of the frame.
LyAt(now, lazy, read) ==
  LET current == IF now >= Frame THEN now - Frame ELSE now
      behind == current < read
      from == IF behind THEN 0 ELSE read
      lines == (current - from) \div Line
  IN [lazy |-> ((IF behind THEN 0 ELSE lazy) + lines) % Lines,
      read |-> from + lines * Line, pos |-> current - from - lines * Line]

dmg_current_ly == LyAt(dmg_now_ppu, lazy_ly, ly_read_cycle)

\* Seeded error: a position the line has passed is not looked for in the next.
SourceAt_ThisLine(source, from, from_line, lyc_) ==
  LET at == CASE source = "VBLANK" -> Line144
              [] source = "MATCH" -> lyc_ * Line
              [] source = "HBLANK" -> from_line * Line + Hblank
              [] OTHER -> from_line * Line
      last == IF source \in {"HBLANK", "MODE2"} THEN Line144 ELSE Frame
  IN [at |-> IF at < last /\ at >= from THEN at ELSE EvNone, line |-> at \div Line]

\* The first position of a source at or after from, in from_line or the next.
SourceAt(source, from, from_line, lyc_) ==
  LET offset == IF source = "HBLANK" THEN Hblank ELSE 0
      line == CASE source = "VBLANK" -> Visible
                [] source = "MATCH" -> lyc_
                [] OTHER -> IF from_line * Line + offset < from
                            THEN from_line + 1 ELSE from_line
      last == IF source \in {"HBLANK", "MODE2"} THEN Visible - 1 ELSE Lines - 1
      at == line * Line + offset
  IN [at |-> IF line <= last /\ at >= from THEN at ELSE EvNone, line |-> line]

stat_event_from(from, from_line, on, stat_, lyc_) ==
  IF ~on THEN [at : {EvNone}, line : Garbage]
  ELSE LET found == {f \in {SourceAt(s, from, from_line, lyc_) : s \in stat_} :
                       f.at # EvNone}
       IN IF found = {} THEN {[at |-> EvNone, line |-> 0]}
          ELSE {f \in found : \A g \in found : f.at <= g.at}

\* Seeded error: VBLANK begins a line late.
FrameDeadline_LineLate(on, done) == IF on /\ ~done THEN Line144 + Line ELSE EvNone
FrameDeadline(on, done) == IF on /\ ~done THEN Line144 ELSE EvNone

\* Seeded error: the deadline stays where it was in the abandoned frame.
Earlier_Kept(at, partial) == at
\* dmg_lcd_frame_restart moves an armed deadline back with the frame.
Earlier(at, partial) ==
  IF at = EvNone THEN EvNone ELSE IF at > partial THEN at - partial ELSE 0

\* A write of LCDC, STAT or LYC, dmg_lcd_frame_restart and dmg_stat_touch
\* included.
WriteLcd(on, stat_, lyc_, frame_deadlines) ==
  LET restart == on /\ ~lcdc_on /\ frame_cycles # 0
      partial == IF restart THEN frame_cycles ELSE 0
      now == dmg_now_ppu - partial
      l == IF restart THEN LyAt(now, 0, 0) ELSE dmg_current_ly
      stats == IF now >= Frame THEN {[at |-> EvNone, line |-> stat_event_line]}
               ELSE stat_event_from(l.lazy * Line + l.pos, l.lazy, on, stat_, lyc_)
  IN /\ phase = "run"
     /\ lcdc_on' = on /\ stat' = stat_ /\ lyc' = lyc_
     /\ frame_cycles' = frame_cycles - partial
     /\ sent_vblank_start' = (sent_vblank_start /\ ~restart)
     /\ rendered_this_frame' = (rendered_this_frame /\ ~restart)
     /\ lazy_ly' = l.lazy /\ ly_read_cycle' = l.read
     /\ interrupt_request_mask' = interrupt_request_mask
          \cup IF now >= event_deadline["STAT"] THEN {"STAT"} ELSE {}
     /\ \E next \in stats :
          /\ stat_event_line' = next.line
          /\ event_deadline' = [event_deadline EXCEPT
               !["STAT"] = next.at,
               !["TIMA"] = Earlier(@, partial),
               !["SERIAL"] = Earlier(@, partial),
               !["VBLANK"] = IF frame_deadlines
                             THEN FrameDeadline(on, sent_vblank_start') ELSE @,
               !["RENDER"] = IF frame_deadlines
                             THEN FrameDeadline(on, rendered_this_frame') ELSE @]
     /\ UNCHANGED <<phase, d2, double_speed, interrupt_enable, ie, timer>>
     /\ dmg_budget_update

WriteLcdc(on) == WriteLcd(on, stat, lyc, TRUE)
WriteStat(sources) == WriteLcd(lcdc_on, sources, lyc, FALSE)
WriteLyc(line) == WriteLcd(lcdc_on, stat, line, FALSE)

\* Reading LY or STAT, or a write the raster log records.
ReadLy ==
  /\ phase = "run"
  /\ lazy_ly' = dmg_current_ly.lazy /\ ly_read_cycle' = dmg_current_ly.read
  /\ UNCHANGED <<cpu, frame_cycles, event_deadline, irq, timer, lcd, frame>>

-----------------------------------------------------------------------------
(* The timer *)

\* elapsed CPU cycles since timer_count was current
Counted(elapsed) ==
  IF ~timer_control.on THEN timer_count
  ELSE LET c == timer_count + elapsed \div timer_control.div
       IN IF c < TimerMax THEN c
          ELSE timer_mod + ((c - TimerMax) % (TimerMax - timer_mod))

dmg_tima_read == Counted(tima_elapsed + d2)

\* dmg_tima_touch, then the count and control the write leaves.
dmg_tima_touch(keep_phase, count, control) ==
  LET kept == IF keep_phase THEN (tima_elapsed + d2) % timer_control.div ELSE 0
  IN /\ interrupt_request_mask' = interrupt_request_mask
          \cup IF dmg_now_ppu' >= event_deadline["TIMA"] THEN {"TIMER"} ELSE {}
     /\ timer_count' = count
     /\ timer_control' = control
     /\ tima_elapsed' = IF ~control.on THEN 0
                        ELSE IF timer_control.on THEN kept - d2 ELSE 0 - d2

\* Seeded error: the running dispatch is not told of the new deadline.
dmg_tima_recompute_NoBudget ==
  LET dist == (TimerMax - timer_count') * timer_control'.div - (tima_elapsed' + d2')
  IN /\ event_deadline' = [event_deadline EXCEPT !["TIMA"] =
          IF timer_control'.on THEN dmg_now_ppu' + dist \div Speed' ELSE EvNone]
     /\ UNCHANGED wake_limit

dmg_tima_recompute ==
  LET dist == (TimerMax - timer_count') * timer_control'.div - (tima_elapsed' + d2')
  IN /\ event_deadline' = [event_deadline EXCEPT !["TIMA"] =
          IF timer_control'.on THEN dmg_now_ppu' + dist \div Speed' ELSE EvNone]
     /\ IF timer_control'.on THEN dmg_budget_update ELSE UNCHANGED wake_limit

TimerWrite(keep_phase, count, control) ==
  /\ phase = "run"
  /\ UNCHANGED <<phase, d2, frame_cycles, interrupt_enable, ie, timer_mod, lcd, frame, ly>>
  /\ dmg_tima_touch(keep_phase, count, control)
  /\ dmg_tima_recompute

WriteDiv ==
  UNCHANGED double_speed /\ TimerWrite(FALSE, dmg_tima_read, timer_control)

WriteTima(data) ==
  UNCHANGED double_speed /\ TimerWrite(TRUE, data, timer_control)

WriteTac(control) ==
  UNCHANGED double_speed /\ TimerWrite(FALSE, dmg_tima_read, control)

\* STOP with a speed switch armed.
jit_handle_stop(double) ==
  /\ double # double_speed
  /\ double_speed' = double
  /\ TimerWrite(TRUE, dmg_tima_read, timer_control)

WriteTma(data) ==
  /\ phase = "run"
  /\ timer_mod' = data
  /\ UNCHANGED <<cpu, frame_cycles, event_deadline, irq, timer_count,
                 timer_control, tima_elapsed, lcd, frame, ly>>

\* Seeded error: the running dispatch is not told of the transfer.
WriteSc_NoBudget(start) ==
  /\ phase = "run"
  /\ event_deadline' = [event_deadline EXCEPT !["SERIAL"] =
       IF start THEN dmg_now_ppu + SerialTime \div Speed ELSE EvNone]
  /\ UNCHANGED <<cpu, frame_cycles, irq, timer, lcd, frame, ly>>

WriteSc(start) ==
  /\ phase = "run"
  /\ event_deadline' = [event_deadline EXCEPT !["SERIAL"] =
       IF start THEN dmg_now_ppu + SerialTime \div Speed ELSE EvNone]
  /\ UNCHANGED <<phase, d2, double_speed, frame_cycles, irq, timer, lcd, frame, ly>>
  /\ dmg_budget_update

-----------------------------------------------------------------------------
(* The interrupt registers and the cycles of compiled code *)

Registers(ime, enable, request) ==
  /\ phase = "run"
  /\ interrupt_enable' = ime /\ ie' = enable /\ interrupt_request_mask' = request
  /\ UNCHANGED <<phase, d2, double_speed, frame_cycles, event_deadline, timer,
                 lcd, frame, ly>>

WriteIf(data) == Registers(interrupt_enable, ie, data) /\ dmg_budget_update

WriteIe(data) ==
  Registers(interrupt_enable, data, interrupt_request_mask) /\ dmg_budget_update

\* Seeded error: EI does not look at what is pending.
dmg_ei_di_NoBudget(enabled) ==
  Registers(enabled, ie, interrupt_request_mask) /\ UNCHANGED wake_limit
dmg_ei_di(enabled) ==
  /\ Registers(enabled, ie, interrupt_request_mask)
  /\ IF enabled THEN dmg_budget_update ELSE UNCHANGED wake_limit

\* A button is pressed: between two dispatches.
dmg_set_button(selected) ==
  /\ d2 = 0
  /\ Registers(interrupt_enable, ie,
               interrupt_request_mask \cup IF selected THEN {"JOYPAD"} ELSE {})
  /\ UNCHANGED wake_limit

Run(cycles) ==
  /\ phase = "run"
  /\ d2 + cycles <= MaxDispatch
  /\ d2' = d2 + cycles
  /\ UNCHANGED <<phase, wake_limit, double_speed, frame_cycles, event_deadline,
                 irq, timer, lcd, frame, ly>>

-----------------------------------------------------------------------------
(* The end of a dispatch *)

dmg_sync_hw ==
  /\ phase = "run"
  /\ phase' = "sync"
  /\ tima_elapsed' = IF timer_control.on THEN tima_elapsed + d2 ELSE 0
  /\ frame_cycles' = dmg_now_ppu
  /\ UNCHANGED <<d2, wake_limit, double_speed, event_deadline, irq, timer_count,
                 timer_mod, timer_control, lcd, frame, ly>>

Rank(ev) ==
  CASE ev = "STAT" -> 0 [] ev = "VBLANK" -> 1 [] ev = "RENDER" -> 2
    [] ev = "TIMA" -> 3 [] ev = "SERIAL" -> 4 [] ev = "WRAP" -> 5

First(ev, o) ==
  \/ event_deadline[ev] < event_deadline[o]
  \/ event_deadline[ev] = event_deadline[o] /\ Rank(ev) <= Rank(o)

\* The deadline the loop of dmg_sync_hw picks.
Fires(ev) ==
  /\ phase = "sync"
  /\ event_deadline[ev] <= frame_cycles
  /\ \A o \in Ev : First(ev, o)

Request(i) == interrupt_request_mask' = interrupt_request_mask \cup {i}

FireStat ==
  /\ Fires("STAT")
  /\ Request("STAT")
  /\ \E next \in stat_event_from(event_deadline["STAT"] + 1, stat_event_line,
                                 lcdc_on, stat, lyc) :
       /\ event_deadline' = [event_deadline EXCEPT !["STAT"] = next.at]
       /\ stat_event_line' = next.line
  /\ UNCHANGED <<cpu, frame_cycles, interrupt_enable, ie, timer, lcdc_on, stat,
                 lyc, frame, ly>>

FireVblank ==
  /\ Fires("VBLANK")
  /\ Request("VBLANK")
  /\ sent_vblank_start' = TRUE
  /\ event_deadline' = [event_deadline EXCEPT !["VBLANK"] = EvNone]
  /\ UNCHANGED <<cpu, frame_cycles, interrupt_enable, ie, timer, lcd,
                 rendered_this_frame, ly>>

FireRender ==
  /\ Fires("RENDER")
  /\ rendered_this_frame' = TRUE
  /\ event_deadline' = [event_deadline EXCEPT !["RENDER"] = EvNone]
  /\ UNCHANGED <<cpu, frame_cycles, irq, timer, lcd, sent_vblank_start, ly>>

FireSerial ==
  /\ Fires("SERIAL")
  /\ Request("SERIAL")
  /\ event_deadline' = [event_deadline EXCEPT !["SERIAL"] = EvNone]
  /\ UNCHANGED <<cpu, frame_cycles, interrupt_enable, ie, timer, lcd, frame, ly>>

\* Seeded error: the cycles between the overflow and now are dropped.
FireTima_Late ==
  /\ Fires("TIMA")
  /\ Request("TIMER")
  /\ timer_count' = timer_mod /\ tima_elapsed' = 0
  /\ event_deadline' = [event_deadline EXCEPT !["TIMA"] =
       frame_cycles + ((TimerMax - timer_mod) * timer_control.div) \div Speed]
  /\ UNCHANGED <<cpu, frame_cycles, interrupt_enable, ie, timer_mod,
                 timer_control, lcd, frame, ly>>

FireTima ==
  LET overshoot == frame_cycles - event_deadline["TIMA"]
      period == (TimerMax - timer_mod) * timer_control.div
  IN /\ Fires("TIMA")
     /\ Request("TIMER")
     /\ timer_count' = timer_mod
     /\ tima_elapsed' = Speed * overshoot
     /\ event_deadline' = [event_deadline EXCEPT !["TIMA"] = @ + period \div Speed]
     /\ UNCHANGED <<cpu, frame_cycles, interrupt_enable, ie, timer_mod,
                    timer_control, lcd, frame, ly>>

FireWrap ==
  /\ Fires("WRAP")
  /\ frame_cycles' = frame_cycles - Frame
  /\ sent_vblank_start' = FALSE /\ rendered_this_frame' = FALSE
  /\ lazy_ly' = 0 /\ ly_read_cycle' = 0
  /\ \E next \in stat_event_from(0, 0, lcdc_on, stat, lyc) :
       /\ stat_event_line' = next.line
       /\ event_deadline' = [event_deadline EXCEPT
            !["STAT"] = next.at,
            !["VBLANK"] = FrameDeadline(lcdc_on, FALSE),
            !["RENDER"] = FrameDeadline(lcdc_on, FALSE),
            !["TIMA"] = IF @ = EvNone THEN EvNone ELSE @ - Frame,
            !["SERIAL"] = IF @ = EvNone THEN EvNone ELSE @ - Frame]
  /\ UNCHANGED <<cpu, irq, timer, lcdc_on, stat, lyc>>

Priority == <<"VBLANK", "STAT", "TIMER", "SERIAL", "JOYPAD">>

\* The interrupt check_interrupts takes, if any.
Taken ==
  {Priority[k] : k \in {n \in 1 .. 5 :
     /\ interrupt_enable
     /\ Priority[n] \in interrupt_request_mask \cap ie
     /\ \A m \in 1 .. n - 1 : Priority[m] \notin interrupt_request_mask \cap ie}}

\* No deadline is left to fire: check_interrupts and update_wake_limit.
EndDispatch ==
  /\ phase = "sync"
  /\ \A ev \in Ev : event_deadline[ev] > frame_cycles
  /\ interrupt_request_mask' = interrupt_request_mask \ Taken
  /\ interrupt_enable' = (interrupt_enable /\ Taken = {})
  /\ wake_limit' = Speed * dmg_cycles_to_next_event(event_deadline, ie, frame_cycles)
  /\ d2' = 0
  /\ phase' = "run"
  /\ UNCHANGED <<double_speed, frame_cycles, event_deadline, ie, timer, lcd, frame, ly>>

-----------------------------------------------------------------------------
Init ==
  /\ phase = "run" /\ d2 = 0 /\ double_speed = FALSE
  /\ frame_cycles = 0
  /\ event_deadline = [ev \in Ev |->
       CASE ev \in {"VBLANK", "RENDER"} -> Line144
         [] ev = "WRAP" -> Frame
         [] OTHER -> EvNone]
  /\ wake_limit = Frame          \* jit_init: refined after the first dispatch
  /\ interrupt_enable = FALSE /\ ie = {}
  /\ interrupt_request_mask = {"VBLANK"}
  /\ timer_count = 0 /\ timer_mod = 0 /\ tima_elapsed = 0
  /\ timer_control \in {c \in Control : ~c.on}
  /\ lcdc_on = TRUE /\ stat = {} /\ lyc = 0 /\ stat_event_line = 0
  /\ sent_vblank_start = FALSE /\ rendered_this_frame = FALSE
  /\ lazy_ly = 0 /\ ly_read_cycle = 0

WriteRegister ==
  \/ \E data \in TimaWrites : WriteTima(data)
  \/ \E data \in TmaWrites : WriteTma(data)
  \/ \E control \in TacWrites : WriteTac(control)
  \/ WriteDiv
  \/ \E start \in ScWrites : WriteSc(start)
  \/ \E data \in IfWrites : WriteIf(data)
  \/ \E data \in IeWrites : WriteIe(data)
  \/ \E on \in LcdcWrites : WriteLcdc(on)
  \/ \E sources \in StatWrites : WriteStat(sources)
  \/ \E line \in LycWrites : WriteLyc(line)

Next ==
  \/ \E cycles \in Blocks : Run(cycles)
  \/ WriteRegister \/ ReadLy
  \/ \E enabled \in ImeWrites : dmg_ei_di(enabled)
  \/ \E selected \in Buttons : dmg_set_button(selected)
  \/ \E double \in SpeedSwitches : jit_handle_stop(double)
  \/ dmg_sync_hw
  \/ FireStat \/ FireVblank \/ FireRender \/ FireSerial \/ FireTima \/ FireWrap
  \/ EndDispatch

Spec == Init /\ [][Next]_vars

-----------------------------------------------------------------------------
(* Properties *)

Position == 0 .. Frame + MaxDispatch
Deadline == 0 .. EvNone

TypeOK ==
  /\ phase \in {"run", "sync"} /\ d2 \in 0 .. MaxDispatch
  /\ wake_limit \in Nat /\ double_speed \in BOOLEAN
  /\ frame_cycles \in Position
  /\ event_deadline \in [Ev -> Deadline]
  /\ interrupt_enable \in BOOLEAN
  /\ {ie, interrupt_request_mask} \subseteq SUBSET Interrupt
  /\ {timer_count, timer_mod} \subseteq 0 .. TimerMax - 1
  /\ timer_control \in Control /\ tima_elapsed \in Int
  /\ lcdc_on \in BOOLEAN /\ stat \in SUBSET Source
  /\ {lyc, stat_event_line} \subseteq Nat
  /\ {sent_vblank_start, rendered_this_frame} \subseteq BOOLEAN
  /\ lazy_ly \in 0 .. Lines - 1 /\ ly_read_cycle \in 0 .. Frame - 1

\* The overflow deadline, kept in PPU cycles of the frame, is where the
\* counter, kept as a value and the CPU cycles since, overflows: through
\* register writes, frame wraps, LCD restarts and speed switches.
DeadlineAgreesWithCounter ==
  timer_control.on =>
    Speed * (event_deadline["TIMA"] - frame_cycles)
      = (TimerMax - timer_count) * timer_control.div - tima_elapsed

\* The program cannot tell the computed timer from one stepped every cycle.
Elapsed == tima_elapsed + IF phase = "run" THEN d2 ELSE 0

Timer == INSTANCE TimerHardware WITH
  stopped <- phase = "sync",
  count <- Counted(Elapsed), mod <- timer_mod,
  on <- timer_control.on, divisor <- timer_control.div,
  prescaler <- IF timer_control.on THEN Elapsed % timer_control.div ELSE 0,
  flag <- "TIMER" \in interrupt_request_mask,
  fresh <- event_deadline["TIMA"]
             <= IF phase = "run" THEN dmg_now_ppu ELSE frame_cycles,
  CountWrites <- TimaWrites, Steps <- Blocks

TimerIsStepped == Timer!Spec

\* An event whose interrupt is enabled ends the dispatch that crosses it:
\* wake_limit, computed before the dispatch or lowered by a write, is not
\* behind the deadline it was computed from.
Ends(ev) == phase = "run" /\ Crossed(ev) => d2 >= wake_limit
EnabledEventsEndTheDispatch ==
  /\ Ends("WRAP")
  /\ "VBLANK" \in ie => Ends("VBLANK")
  /\ "STAT" \in ie => Ends("STAT")
  /\ "SERIAL" \in ie => Ends("SERIAL")
  /\ "TIMER" \in ie => Ends("TIMA")

TimerEndsTheDispatch == "TIMER" \in ie => Ends("TIMA")

\* An interrupt that could be taken ends the dispatch, except the joypad's,
\* which is requested between two dispatches and waits for the next exit.
PendingEndsTheDispatch ==
  phase = "run" /\ interrupt_enable
    /\ (ie \cap interrupt_request_mask) \ {"JOYPAD"} # {} => d2 >= wake_limit

\* LY is the line of the beam, whatever the lazy counter last held.
LyIsBeamLine ==
  phase = "run" => dmg_current_ly.lazy = (dmg_now_ppu % Frame) \div Line

\* The positions of this frame at which the enabled sources request STAT.
StatPositions ==
  {l * Line + Hblank : l \in IF "HBLANK" \in stat THEN 0 .. Visible - 1 ELSE {}}
  \cup {l * Line : l \in IF "MODE2" \in stat THEN 0 .. Visible - 1 ELSE {}}
  \cup {l * Line : l \in IF "VBLANK" \in stat THEN {Visible} ELSE {}}
  \cup {l * Line : l \in IF "MATCH" \in stat THEN {lyc} \cap 0 .. Lines - 1 ELSE {}}

\* The armed STAT deadline is a position of an enabled source, and no
\* position that is still ahead of the beam comes before it.
StatEventsNotMissed ==
  phase = "run" /\ lcdc_on =>
    /\ event_deadline["STAT"] \in StatPositions \cup {EvNone}
    /\ \A at \in StatPositions : at > dmg_now_ppu => event_deadline["STAT"] <= at

\* With the LCD on, between two dispatches the frame's VBLANK has been
\* requested and the frame drawn exactly when the beam has passed line 144.
VblankOncePerFrame ==
  phase = "run" /\ lcdc_on =>
    /\ sent_vblank_start = (frame_cycles >= Line144)
    /\ rendered_this_frame = (frame_cycles >= Line144)
=============================================================================
