----------------------------- MODULE FrameBeam -----------------------------
(* What follows the beam through a frame: the HBLANK DMA of the CGB
   (src/cgb.c, hdma_* in src/dmg.c) and the log of register writes from which
   a frame is drawn in bands (raster_* and render_frame in src/dmg.c).

   Neither happens line by line.  The chunks of a DMA are copied when the
   program reads HDMA5 or when a dispatch ends, for all the HBLANKs the beam
   has crossed since; a frame is drawn at once, after line 144, by replaying
   the log.  The module carries along what a machine that does both on time
   would have done, and compares.

   Time is counted in units of which Line make a line; line n's HBLANK starts
   at n * Line + Hblank. *)
EXTENDS Integers, Sequences

CONSTANTS
    Line,       \* CYCLES_PER_LINE (456)
    Hblank,     \* where HBLANK starts in a line (252)
    Visible,    \* the lines that are drawn (144)
    Total,      \* all lines (154)
    Overshoot,  \* bound: how far the last block of a dispatch may pass its limit
    Lengths,    \* the lengths the program writes to HDMA5
    Chunks,     \* DMA addresses are counted in chunks, modulo Chunks
    LogSize,    \* RASTER_LOG_SIZE (144)
    Values      \* the values of one logged register

NoLine == 255               \* hdma_last_ly = 0xff

ASSUME BeamAssumption ==
    /\ Line \in Nat /\ Hblank \in 1 .. Line - 1
    /\ Visible \in Nat \ {0} /\ Total \in Nat /\ Visible < Total
    /\ Visible <= NoLine
    /\ Overshoot \in 0 .. Line - 1
ASSUME DmaAssumption == Lengths \subseteq 0 .. 127 /\ Chunks \in Nat \ {0}
ASSUME LogAssumption == LogSize \in Nat

Frame == Total * Line       \* CYCLES_PER_FRAME
Drawn == Visible * Line     \* CYCLES_LINE_144

VARIABLES
    lcd,        \* LCDC_ENABLE
    frame,      \* frame_cycles: the beam at the last sync
    beam,       \* dmg_now_ppu
    rendered,   \* rendered_this_frame and sent_vblank_start
    dma,        \* [active, remaining, at], hdma_*; at is the source and the
                \* destination, which move together
    last,       \* hdma_last_ly
    exact,      \* dma of the machine that copies on time
    dmaOrderly, \* the program has used DMA as HdmaCatchesUp says; the machine
                \* to compare with is given up otherwise
    reg,        \* the logged register, as read back
    base,       \* frame_regs: its value at line 0
    log,        \* raster_log: <<line, value>>
    overflow,   \* raster_overflow
    shown,      \* the value each line of the frame is shown with
    logOrderly, \* no write came after the end of the frame
    program     \* what this program uses: "dma" or "raster"

vars == <<lcd, frame, beam, rendered, dma, last, exact, dmaOrderly, reg, base,
          log, overflow, shown, logOrderly, program>>
dmaVars    == <<dma, last, exact, dmaOrderly>>
rasterVars == <<reg, base, log, overflow, shown, logOrderly>>

-----------------------------------------------------------------------------
(* The beam. *)

InFrame(at) == IF at >= Frame THEN at - Frame ELSE at

\* dmg_current_ly and the position in the line.
Ly(at)  == InFrame(at) \div Line
Pos(at) == InFrame(at) % Line

\* hdma_line_done: the last visible line whose HBLANK has started, or -1.
hdma_line_done(at) ==
    LET line == (at - Hblank) \div Line
    IN  IF at < Hblank THEN -1 ELSE IF line > Visible - 1 THEN Visible - 1 ELSE line

\* How many HBLANKs of visible lines start up to a position, next frame included.
Hblanks(at) ==
    IF at < Frame THEN hdma_line_done(at) + 1
    ELSE Visible + hdma_line_done(at - Frame) + 1

-----------------------------------------------------------------------------
(* HBLANK DMA. *)

Idle == [active |-> FALSE, remaining |-> 0, at |-> 0]

\* What the program does to the machine that copies on time.
Compare(becomes, orderly) ==
    /\ dmaOrderly' = (dmaOrderly /\ orderly)
    /\ exact' = IF dmaOrderly /\ orderly THEN becomes ELSE Idle

\* cgb_hdma_hblank for count HBLANKs in a row; it stops with the transfer.
hdma_hblanks(d, count) ==
    LET n == IF count > d.remaining THEN d.remaining + 1 ELSE count
    IN  IF ~d.active \/ count <= 0 THEN d
        ELSE [active |-> n <= d.remaining,
              remaining |-> IF n <= d.remaining THEN d.remaining - n ELSE 0,
              at |-> (d.at + n) % Chunks]

\* Seeded error: the line a transfer started in is counted again.
FirstLine_Again(l) == IF l = NoLine THEN 0 ELSE l

FirstLine(l) == IF l = NoLine THEN 0 ELSE l + 1

\* hdma_catch_up: the transfer, and the last line it has seen.
Caught(d, l, done) == hdma_hblanks(d, done - FirstLine(l) + 1)
CaughtLast(d, l, done) ==
    IF ~d.active \/ done < FirstLine(l) THEN l
    ELSE IF done - FirstLine(l) > d.remaining THEN FirstLine(l) + d.remaining
    ELSE done

\* What the transfer comes to once everything the beam has crossed is caught
\* up with: at a sync, up to the end of the frame, then from its first line.
CaughtUp ==
    IF ~lcd THEN dma
    ELSE IF beam < Frame THEN Caught(dma, last, hdma_line_done(beam))
    ELSE Caught(Caught(dma, last, Visible - 1), NoLine, hdma_line_done(beam - Frame))

\* Seeded error: the lines are not started again with the frame.
LastAtWrap_Kept(l) == l

\* hdma_last_ly after the end of a frame.
LastAtWrap(l) == NoLine

Pending == CaughtUp # dma

\* hdma_flush_now
Flushed     == IF lcd THEN Caught(dma, last, hdma_line_done(beam)) ELSE dma
FlushedLast == IF lcd THEN CaughtLast(dma, last, hdma_line_done(beam)) ELSE last

ReadHdma5 ==
    /\ dma' = Flushed
    /\ last' = FlushedLast
    /\ UNCHANGED <<lcd, frame, beam, rendered, exact, dmaOrderly, rasterVars>>

\* cgb_perform_gpdma
cgb_perform_gpdma(d, length) ==
    [d EXCEPT !.active = FALSE, !.at = (d.at + length + 1) % Chunks]

\* HDMA5 with bit 7: a transfer from the next HBLANK on, or from this one.
Started(d, length) ==
    LET new == [d EXCEPT !.active = TRUE, !.remaining = length]
    IN  IF Ly(beam) < Visible /\ Pos(beam) >= Hblank THEN hdma_hblanks(new, 1) ELSE new

StartHdma(length) ==
    /\ dma' = Started(dma, length)
    /\ last' = CASE Ly(beam) >= Visible -> Visible - 1
                 [] Ly(beam) < Visible /\ Pos(beam) >= Hblank -> Ly(beam)
                 [] OTHER -> IF Ly(beam) = 0 THEN NoLine ELSE Ly(beam) - 1
    /\ Compare(Started(exact, length), ~Pending /\ beam < Frame)

\* HDMA5 without bit 7 while hdma_active is set.
CancelHdma(length) ==
    /\ dma.active
    /\ dma' = [Flushed EXCEPT !.active = FALSE]
    /\ last' = FlushedLast
    /\ Compare([exact EXCEPT !.active = FALSE], exact.active /\ beam < Frame)

\* HDMA5 without bit 7 otherwise.
StartGpdma(length) ==
    /\ ~dma.active
    /\ dma' = cgb_perform_gpdma(dma, length)
    /\ Compare(cgb_perform_gpdma(exact, length), TRUE)
    /\ UNCHANGED last

WriteHdma5(length) ==
    /\ StartHdma(length) \/ CancelHdma(length) \/ StartGpdma(length)
    /\ UNCHANGED <<lcd, frame, beam, rendered, rasterVars>>

\* HDMA1 to HDMA4: a new source or destination.
WriteHdmaAddress ==
    /\ dma' = [dma EXCEPT !.at = 0]
    /\ Compare([exact EXCEPT !.at = 0], ~Pending)
    /\ UNCHANGED <<lcd, frame, beam, rendered, last, rasterVars>>

-----------------------------------------------------------------------------
(* The raster log. *)

\* Seeded error: a write in HBLANK changes the line that has been shown.
raster_target_line_ThisLine ==
    IF ~lcd \/ Ly(beam) >= Visible THEN -1 ELSE Ly(beam)

\* raster_target_line: the line a write now first affects, or -1.
raster_target_line ==
    LET line == IF Pos(beam) >= Hblank THEN Ly(beam) + 1 ELSE Ly(beam)
    IN  IF ~lcd \/ line >= Visible THEN -1 ELSE line

\* raster_record
raster_record(value) ==
    LET line == raster_target_line
    IN  IF line < 0 THEN UNCHANGED <<log, overflow>>
        ELSE IF Len(log) = LogSize THEN overflow' = TRUE /\ UNCHANGED log
        ELSE log' = Append(log, <<line, value>>) /\ UNCHANGED overflow

\* dmg_write_slow: a write that changes the register is logged, then made.
WriteReg(value) ==
    /\ IF value # reg THEN raster_record(value) ELSE UNCHANGED <<log, overflow>>
    /\ reg' = value
    /\ logOrderly' = (logOrderly /\ beam < Frame)
    /\ UNCHANGED <<lcd, frame, beam, rendered, dmaVars, base, shown>>

\* raster_frame_reset
raster_frame_reset ==
    /\ base' = reg
    /\ log' = <<>>
    /\ overflow' = FALSE
    /\ shown' = [l \in 0 .. Visible - 1 |-> reg]

\* render_frame: the value a line is drawn with, the last one logged for it or
\* for a line before, in the order of the log.
Band(line) ==
    LET before == {k \in 1 .. Len(log) : log[k][1] <= line}
    IN  IF overflow THEN reg
        ELSE IF before = {} THEN base
        ELSE log[CHOOSE k \in before : \A j \in before : j <= k][2]

-----------------------------------------------------------------------------
(* Time. *)

\* The limit of a dispatch: the lines drawn, if they are not yet, or the end
\* of the frame.
Limit == IF lcd /\ ~rendered THEN Drawn ELSE Frame

Max2(a, b) == IF a > b THEN a ELSE b

\* The block that runs takes a unit of time.
Run ==
    LET lines == {l \in 0 .. Visible - 1 : beam + 1 = l * Line + Hblank}
    IN  /\ beam < Max2(Limit, frame) + Overshoot
        /\ beam' = beam + 1
        /\ exact' = IF lcd THEN hdma_hblanks(exact, Hblanks(beam + 1) - Hblanks(beam))
                    ELSE exact
        /\ shown' = IF lcd THEN [l \in 0 .. Visible - 1 |-> IF l \in lines THEN reg ELSE shown[l]]
                    ELSE shown
        /\ UNCHANGED <<lcd, frame, rendered, dma, last, dmaOrderly, reg, base,
                       log, overflow, logOrderly>>

\* dmg_sync_hw: the DMA, then drawing, then the end of the frame.
dmg_sync_hw ==
    /\ beam > frame
    /\ dma' = IF lcd THEN Caught(dma, last, hdma_line_done(beam)) ELSE dma
    /\ IF beam >= Frame
       THEN /\ frame' = beam - Frame
            /\ beam' = beam - Frame
            /\ rendered' = FALSE
            /\ last' = LastAtWrap(last)
            /\ logOrderly' = TRUE
            /\ raster_frame_reset
       ELSE /\ frame' = beam
            /\ rendered' = (rendered \/ (lcd /\ beam >= Drawn))
            /\ last' = IF lcd THEN CaughtLast(dma, last, hdma_line_done(beam)) ELSE last
            /\ UNCHANGED <<beam, base, log, overflow, shown, logOrderly>>
    /\ UNCHANGED <<lcd, exact, dmaOrderly, reg>>

\* LCDC's enable bit.  Turning it on starts the frame again, unless the dispatch
\* began with the frame.
SwitchLcd ==
    /\ lcd' = ~lcd
    /\ IF ~lcd /\ frame # 0
       THEN /\ frame' = 0
            /\ beam' = beam - frame
            /\ rendered' = FALSE
            /\ last' = NoLine
            /\ logOrderly' = TRUE
            /\ raster_frame_reset
       ELSE /\ logOrderly' = (logOrderly /\ beam < Frame /\ frame # 0)
            /\ UNCHANGED <<frame, beam, rendered, last, base, log, overflow, shown>>
    /\ Compare(exact, ~exact.active /\ ~dma.active)
    /\ UNCHANGED <<dma, reg>>

-----------------------------------------------------------------------------
Init ==
    /\ lcd = TRUE
    /\ frame = 0
    /\ beam = 0
    /\ rendered = FALSE
    /\ dma = Idle /\ exact = Idle /\ dmaOrderly = TRUE
    /\ last = NoLine
    /\ reg \in Values
    /\ base = reg /\ log = <<>> /\ overflow = FALSE /\ logOrderly = TRUE
    /\ shown = [l \in 0 .. Visible - 1 |-> reg]
    /\ program \in {"dma", "raster"}

ProgramWrites ==
    \/ program = "dma" /\ (WriteHdmaAddress \/ \E n \in Lengths : WriteHdma5(n))
    \/ program = "raster" /\ \E v \in Values : WriteReg(v)
    \/ SwitchLcd

Next ==
    \/ ProgramWrites /\ UNCHANGED program
    \/ program = "dma" /\ ReadHdma5 /\ UNCHANGED program
    \/ Run /\ UNCHANGED program
    \/ dmg_sync_hw /\ UNCHANGED program

\* The program's blocks take time, and jit_run calls dmg_sync_hw after every
\* dispatch, which the limit ends.
Spec ==
    /\ Init
    /\ [][Next]_vars
    /\ WF_vars(Run /\ UNCHANGED program)
    /\ WF_vars(dmg_sync_hw /\ UNCHANGED program)

-----------------------------------------------------------------------------
(* Properties. *)

\* Catching up late gives what copying at each HBLANK gives, over syncs, reads
\* of HDMA5, starts at any place of a line, cancels and the ends of frames, for
\* programs that do not write the addresses or start a transfer while chunks
\* are due, cancel only what still runs, and leave the LCD alone meanwhile.
HdmaCatchesUp == dmaOrderly => CaughtUp = exact

\* A transfer ends if the program lets it and leaves the LCD on.
TransferEnds == []<><<ProgramWrites>>_vars \/ []<>~lcd \/ <>[]~dma.active

\* When the frame is due to be drawn, every line gets the value it was shown
\* with, however many writes the program made and wherever it made them.
LinesShowTheirValue ==
    lcd /\ ~rendered /\ beam >= Drawn /\ ~overflow /\ logOrderly =>
        \A l \in 0 .. Visible - 1 : Band(l) = shown[l]

============================================================================
